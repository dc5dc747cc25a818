---------------------------- MODULE Backoff_proofs ----------------------------
(***************************************************************************)
(* Type correctness of wait_for_device's retry loop (Backoff), for every   *)
(* max_attempts, timeout and max_backoff.  TypeOK is not inductive as it   *)
(* stands: a sleep moves the loop to attempt + 1, which is an attempt only *)
(* because the loop sleeps only when another attempt follows.              *)
(***************************************************************************)
EXTENDS Backoff, TLAPS

\* The loop sleeps only between two attempts (the attempt < max_attempts
\* check before time.sleep).
SleepNotLast == pc = "sleep" => attempt < MaxAttempts

BInv == TypeOK /\ SleepNotLast

USE BackoffAssumption

LEMMA InitBInv == Init => BInv
BY DEF Init, BInv, TypeOK, SleepNotLast, InitialBackoff

LEMMA NextBInv == BInv /\ [Next]_vars => BInv'
<1> SUFFICES ASSUME BInv, [Next]_vars PROVE BInv' OBVIOUS
<1>1. CASE Answered BY <1>1 DEF Answered, BInv, TypeOK, SleepNotLast
<1>2. CASE NoAnswer BY <1>2 DEF NoAnswer, BInv, TypeOK, SleepNotLast
<1>3. CASE Sleep
  <2>1. backoff' \in Nat BY <1>3 DEF Sleep, Min2, BInv, TypeOK
  <2>2. attempt' \in 1..MaxAttempts BY <1>3 DEF Sleep, BInv, TypeOK, SleepNotLast
  <2>3. QED BY <1>3, <2>1, <2>2 DEF Sleep, BInv, TypeOK, SleepNotLast
<1>4. CASE UNCHANGED vars BY <1>4 DEF vars, BInv, TypeOK, SleepNotLast
<1>5. QED BY <1>1, <1>2, <1>3, <1>4 DEF Next

\* Every state of wait_for_device's loop is well typed: in particular the
\* attempt counter stays within range(1, max_attempts + 1), since a sleep
\* never follows the last attempt (TypeOK).
THEOREM BackoffTypeCorrect == Spec => []TypeOK
<1>1. BInv => TypeOK BY DEF BInv
<1>2. QED BY <1>1, InitBInv, NextBInv, PTL DEF Spec
=============================================================================
