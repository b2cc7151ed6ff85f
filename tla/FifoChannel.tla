---------------------------- MODULE FifoChannel ----------------------------
(***************************************************************************)
(* What a blocking queue promises its clients, with no thread, no mutex    *)
(* and no buffer: a history of what was put and a history of what was      *)
(* taken.  Whatever is taken is the oldest item not taken yet, and a       *)
(* bounded queue never holds more than its capacity.                       *)
(*                                                                         *)
(* BlockingQueue and BoundBlockingQueue implement it.                      *)
(***************************************************************************)
EXTENDS Naturals, Sequences

CONSTANTS Items,     \* what may be put
          Bounded,   \* TRUE of BoundBlockingQueue, FALSE of BlockingQueue
          Capacity   \* its maxSize

VARIABLES sent, received

channelVars == <<sent, received>>

InTransit == Len(sent) - Len(received)

ChannelInit == /\ sent = <<>>
               /\ received = <<>>

Put(x) == /\ Bounded => InTransit < Capacity
          /\ sent' = Append(sent, x)
          /\ UNCHANGED received

Take == /\ InTransit > 0
        /\ received' = Append(received, sent[Len(received) + 1])
        /\ UNCHANGED sent

ChannelNext == (\E x \in Items : Put(x)) \/ Take

ChannelSpec == ChannelInit /\ [][ChannelNext]_channelVars

=============================================================================
