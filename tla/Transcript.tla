----------------------------- MODULE Transcript -----------------------------
(***************************************************************************)
(* A Fiat-Shamir transcript (internal/transcript.rs) written and squeezed  *)
(* by circuits that hand its saved state over, next to the clone the       *)
(* prover keeps (fuse/mod.rs clones, saves the clone and goes on).         *)
(***************************************************************************)
EXTENDS Sponge

CONSTANTS Tags,        \* protocol tags: the length and the chunks, elements
          Messages,    \* the elements written
          MaxOps       \* writes (the tag's too) and challenges

ASSUME TranscriptAssumption ==
  Messages \subseteq F /\ Tags \subseteq Seq(F) \ {<<>>}

VARIABLES sponge,      \* the circuit's sponge
          kind,        \* "transcript", "saved", "resumed", or "failed"
          squeezed,    \* ResumedTranscript::squeezed
          prover,      \* the prover's own sponge, never saved
          log,         \* the elements written and challenges drawn, in order
          out,         \* the challenges the circuits drew
          outProver    \* and the prover's
vars == <<sponge, kind, squeezed, prover, log, out, outProver>>

Init == \E tag \in Tags :
  /\ sponge = Tagged(tag) /\ prover = sponge
  /\ kind = "transcript" /\ squeezed = FALSE
  /\ log = [i \in DOMAIN tag |-> <<"write", tag[i]>>] /\ out = <<>> /\ outProver = <<>>

Operations == Len(log) < MaxOps

(* Transcript::write: not offered by a resumed transcript.                 *)
Write(v) ==
  /\ kind = "transcript" /\ Operations
  /\ sponge' = SpongeAbsorb(sponge, v) /\ prover' = SpongeAbsorb(prover, v)
  /\ log' = Append(log, <<"write", v>>)
  /\ UNCHANGED <<kind, squeezed, out, outProver>>

Challenge ==
  /\ kind \in {"transcript", "resumed"} /\ Operations
  /\ \E a \in {SpongeSqueeze(sponge)}, b \in {SpongeSqueeze(prover)} :
       /\ sponge' = a.sponge /\ out' = Append(out, a.value)
       /\ prover' = b.sponge /\ outProver' = Append(outProver, b.value)
  /\ squeezed' = (kind = "resumed" \/ squeezed)
  /\ log' = Append(log, <<"challenge", 0>>)
  /\ UNCHANGED kind

(* save_state consumes the transcript; its state crosses to a circuit.     *)
Save ==
  /\ kind = "transcript"
  /\ LET saved == SaveState(sponge)
     IN  IF saved.value = <<>> THEN kind' = "failed" /\ UNCHANGED sponge
         ELSE kind' = "saved" /\ sponge' = [sponge EXCEPT !.state = saved.value, !.values = <<>>]
  /\ UNCHANGED <<squeezed, prover, log, out, outProver>>

ResumeFromState ==
  /\ kind = "saved"
  /\ kind' = "resumed" /\ squeezed' = FALSE /\ sponge' = Resume(sponge.state)
  /\ UNCHANGED <<prover, log, out, outProver>>

(* into_transcript asserts that a challenge was drawn since the resumption.*)
IntoTranscript ==
  /\ kind = "resumed"
  /\ kind' = IF squeezed THEN "transcript" ELSE "failed"
  /\ UNCHANGED <<sponge, squeezed, prover, log, out, outProver>>

Next == \/ \E v \in Messages : Write(v)
        \/ Challenge
        \/ Save
        \/ ResumeFromState
        \/ IntoTranscript
Spec == Init /\ [][Next]_vars
-----------------------------------------------------------------------------
(* What a transcript promises: no mode, no buffer and no circuits, only    *)
(* challenges that are a function of what was written and drawn before.    *)
Ideal == INSTANCE Duplex

(* Whatever the circuits the transcript is saved in and resumed from, each *)
(* challenge is the one the duplex construction gives for everything       *)
(* written and drawn before: buffered elements are absorbed once, in order *)
(* and at the right block, and rate elements come out first to last        *)
(* (poseidon.rs absorb, squeeze, permute; transcript.rs).                  *)
ImplementsDuplex == Ideal!Spec

(* Circuits that hand a saved transcript over draw the challenges of the   *)
(* prover, who saved a clone and kept its own: a saved state carries what  *)
(* was pending and resumes before the first rate element, and a save is    *)
(* refused only where elements already drawn could come out again          *)
(* (poseidon.rs save_state and resume, transcript.rs into_transcript).     *)
ContinuesAcrossCircuits ==
  /\ out = outProver /\ -1 \notin {out[i] : i \in DOMAIN out}
  /\ kind = "failed" => sponge.mode = "squeeze"
=============================================================================
