---------------------------- MODULE DequeInvariant ----------------------------
(***************************************************************************)
(* The inductive invariant of Deque, in named parts.  It says what the     *)
(* code relies on between two steps: how far the stale copies of top_ and  *)
(* bottom_ may lag, which slots a thief may still trust, and why the slot  *)
(* the owner writes is none of those.                                      *)
(***************************************************************************)
EXTENDS Deque

Pushing == opc \in {"push", "put", "putting", "publish"}

\* The positions that hold an element.
Occupied == top..LogicalBottom - 1

\* No copy of bottom_ a thief can read runs ahead of the owner, and the
\* elements fit in the current buffer.
IndexInv ==
  /\ 1 <= top
  /\ top <= LogicalBottom
  /\ bottom <= LogicalBottom
  /\ \A i \in 1..Len(storeBuffer) : storeBuffer[i] <= LogicalBottom
  /\ LogicalBottom - top <= size[cur]

\* The owner's stale top_ (ot) is never ahead of the real one, so the test for
\* a full buffer errs on the safe side only.
PushInv ==
  Pushing =>
    /\ ob = OwnerBottom
    /\ ot <= top
    /\ oh = pushed + 1
    /\ pushed < MaxPush
    /\ ob - ot <= (IF opc = "push" THEN size[cur] ELSE size[cur] - 1)
    /\ opc = "publish" => Slot(cur, ob) = oh

PopInv ==
  /\ PopPending => ob = OwnerBottom
  /\ opc \in {"race", "restore"} => storeBuffer = <<>>
  /\ opc = "race" => ot = ob /\ ob <= top /\ oh = Slot(cur, ob)
  /\ opc = "restore" => top = LogicalBottom

\* The occupied slots of the current buffer hold different handles that nobody
\* was handed yet.
SlotInv ==
  /\ \A p \in Occupied :
       Slot(cur, p) \in 1..pushed /\ takes[Slot(cur, p)] = 0
  /\ \A p, q \in Occupied : Slot(cur, p) = Slot(cur, q) => p = q
  /\ \A h \in Handle : h > pushed => takes[h] = 0

\* As long as top_ is still what a thief loaded, the position it loaded is
\* occupied, the buffer it holds agrees with the current one there, and the
\* handle it read is the one in the deque.
TrustedThief(t) ==
  /\ tpc[t] # "idle" => tt[t] <= top
  /\ tpc[t] \in {"get", "got"} => tbuf[t] \in 1..cur
  /\ tt[t] = top =>
       /\ tpc[t] \in {"buffer", "get", "got", "cas"} => tt[t] < LogicalBottom
       /\ tpc[t] \in {"get", "got"} => Slot(tbuf[t], tt[t]) = Slot(cur, tt[t])
       /\ tpc[t] \in {"got", "cas"} => th[t] = Slot(cur, tt[t])

ThiefInv == \A t \in Thieves : TrustedThief(t)

BufferInv ==
  /\ oldBuffers = 1..cur - 1
  /\ phase = "live" => alive = 1..cur
  /\ phase = "dead" =>
       /\ alive = {}
       /\ opc = "idle"
       /\ storeBuffer = <<>>
       /\ \A t \in Thieves : tpc[t] = "idle"

IInv ==
  /\ TypeOK
  /\ IndexInv
  /\ PushInv
  /\ PopInv
  /\ SlotInv
  /\ ThiefInv
  /\ BufferInv
  /\ ExactlyOnce
  /\ Conservation
=============================================================================
