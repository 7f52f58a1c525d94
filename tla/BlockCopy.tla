----------------------------- MODULE BlockCopy -----------------------------
(***************************************************************************)
(* What a file copy of sm_storage.c promises its caller, whatever the       *)
(* buffers and threads behind it: the destination only ever grows by the    *)
(* bytes that follow in the source, and success is reported only for a      *)
(* destination that holds the whole source.                                 *)
(***************************************************************************)
EXTENDS Naturals, Sequences

VARIABLES source, copied, outcome

CopyInit == source \in Seq(Nat) /\ copied = <<>> /\ outcome = "copying"

Extend == /\ outcome = "copying"
          /\ \E n \in 1 .. Len(source) - Len(copied) :
                copied' = SubSeq(source, 1, Len(copied) + n)
          /\ UNCHANGED <<source, outcome>>

Succeed == /\ outcome = "copying"
           /\ copied = source
           /\ outcome' = "copied"
           /\ UNCHANGED <<source, copied>>

(* A failed copy leaves whatever prefix it had; its caller removes it. *)
Fail == /\ outcome = "copying"
        /\ outcome' = "failed"
        /\ UNCHANGED <<source, copied>>

CopyNext == Extend \/ Succeed \/ Fail

CopySpec == CopyInit /\ [][CopyNext]_<<source, copied, outcome>>
=============================================================================
