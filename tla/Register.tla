------------------------------- MODULE Register -------------------------------
(***************************************************************************)
(* What a seqlock promises its callers: an atomic register with one writer. *)
(* A store replaces the register's value by a newer one in a single step,   *)
(* and a load returns, in a single step, the value the register has then.   *)
(* Values are the numbers of the stores, 0 being the zero-filled memory.    *)
(***************************************************************************)
EXTENDS Naturals

CONSTANTS Readers,    \* the reader objects
          MaxStores   \* number of the last store

VARIABLES reg,        \* the number of the store the register holds
          out         \* out[r]: what reader r's latest load returned

regVars == <<reg, out>>

RegInit == reg = 0 /\ out = [r \in Readers |-> 0]

\* A store takes effect.  Stores that never complete leave gaps.
Write == /\ reg' \in (reg + 1) .. MaxStores
         /\ UNCHANGED out

\* A load takes effect.
Read(r) == /\ out' = [out EXCEPT ![r] = reg]
           /\ UNCHANGED reg

RegNext == Write \/ \E r \in Readers : Read(r)

RegSpec == RegInit /\ [][RegNext]_regVars
=============================================================================
