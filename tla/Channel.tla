-------------------------------- MODULE Channel --------------------------------
(***************************************************************************)
(* What a one-place channel promises: items are numbered in the order in     *)
(* which they are sent, the next one is sent when the one before it has been *)
(* received, and each is received once, whole, by one consumer.              *)
(***************************************************************************)
EXTENDS Naturals

CONSTANT Consumers

VARIABLES sent,  \* items sent
          got,   \* items received
          last   \* consumer -> the last item it received

cvars == <<sent, got, last>>

ChannelInit == sent = 0 /\ got = 0 /\ last = [c \in Consumers |-> 0]

Send == sent = got /\ sent' = sent + 1 /\ UNCHANGED <<got, last>>

Receive(c) ==
  /\ got < sent
  /\ got' = got + 1
  /\ last' = [last EXCEPT ![c] = got + 1]
  /\ UNCHANGED sent

ChannelNext == Send \/ \E c \in Consumers : Receive(c)

ChannelSpec == ChannelInit /\ [][ChannelNext]_cvars
=============================================================================
