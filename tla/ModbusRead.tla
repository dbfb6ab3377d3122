----------------------------- MODULE ModbusRead -----------------------------
(***************************************************************************)
(* felicity_reader.py: read_pack(), nine register reads in a fixed order    *)
(* over one serial port, each a request and the wait for its reply.         *)
(*                                                                         *)
(* A reply does not say which register it is for: only its length does.     *)
(* The pack answers the requests it holds in the order it got them, but     *)
(* perhaps after the reader has given up on them, or not at all.  A reply   *)
(* arrives in two pieces, its header and the rest, so that the reset of the *)
(* input buffer may fall between them.  Bytes from the middle of a reply    *)
(* are taken to fail the address, function or CRC check.                    *)
(***************************************************************************)
EXTENDS Integers, Sequences, FiniteSets

CONSTANTS
  Counts,    \* the REG_..._COUNT of the registers, in the order of the reads
  Held,      \* requests the pack and the line hold; more are lost.  The protocol
             \* allows one
  MaxCalls,  \* bound: calls of read_pack()
  None

ASSUME ConstantsAssumption ==
  /\ Counts \in Seq(Nat \ {0}) /\ Counts # <<>>
  /\ Held \in Nat \ {0}
  /\ MaxCalls \in Nat
  /\ None \notin [reg : DOMAIN Counts, call : 1 .. MaxCalls]

Registers == DOMAIN Counts

\* What the reads rely on, since a reply is known by its length alone: the
\* first register has a count of its own, and the registers that late replies
\* can get to have different ones.  Those of the code allow three requests.
ASSUME Recognisable ==
  /\ \A r \in Registers : Counts[r] = Counts[1] => r = 1
  /\ \A r, s \in 1 .. Held + 1 :
       r \in Registers /\ s \in Registers /\ Counts[r] = Counts[s] => r = s
  /\ Held < Len(Counts)

Requests == [reg : Registers, call : 1 .. MaxCalls]
Pieces == [of : Requests, part : {"header", "rest", "noise"}]

VARIABLES
  call,     \* how many calls of read_pack() there were
  cur,      \* the register being read; 0: no call is running
  pending,  \* requests the pack holds
  wire,     \* pieces of replies on their way
  resp,     \* pieces in the input buffer since it was last reset
  got,      \* the request each register's accepted data is a reply to
  result    \* got of the last call that returned ok, None after a failure

vars == <<call, cur, pending, wire, resp, got, result>>

Nothing == [r \in Registers |-> None]

----------------------------------------------------------------------------
(* The reader.                                                             *)

\* REG_CELL_VOLTAGES comes first.
First == 1

\* Variant: the last register is not recognised.
FollowingAlways(c) == c + 1

\* The register to read after c; 0 after the last one.
Following(c) == IF c = Len(Counts) THEN 0 ELSE c + 1

\* Requests the pack has not answered in full.
Outstanding ==
  Len(pending) + Cardinality({i \in DOMAIN wire : wire[i].part # "header"})

\* _read_registers(): reset_input_buffer(), then the request.
SendRequest(r, k) ==
  /\ resp' = <<>>
  /\ pending' = IF Outstanding < Held
                THEN Append(pending, [reg |-> r, call |-> k]) ELSE pending

\* Variant: any intact reply will do.
AcceptableOfAnyCount(r) ==
  /\ Len(resp) >= 2
  /\ resp[1].part = "header" /\ resp[2].part = "rest" /\ resp[1].of = resp[2].of

\* An intact frame with as many bytes as asked for.
Acceptable(r) ==
  /\ Len(resp) >= 2
  /\ resp[1].part = "header" /\ resp[2].part = "rest" /\ resp[1].of = resp[2].of
  /\ Counts[resp[1].of.reg] = Counts[r]

\* read_pack() opens the port and asks for the first register.
Open ==
  /\ cur = 0 /\ call < MaxCalls
  /\ call' = call + 1
  /\ cur' = First
  /\ got' = Nothing
  /\ SendRequest(First, call + 1)
  /\ UNCHANGED <<wire, result>>

\* The port cannot be opened.
OpenFails ==
  /\ cur = 0 /\ call < MaxCalls
  /\ call' = call + 1
  /\ result' = None
  /\ got' = Nothing
  /\ UNCHANGED <<cur, pending, wire, resp>>

\* The reply is accepted: ask for the next register, or return the reading; a
\* reading whose cells are all sentinels is a failure.
Accept ==
  /\ cur # 0 /\ Acceptable(cur)
  /\ got' = [got EXCEPT ![cur] = resp[1].of]
  /\ cur' = Following(cur)
  /\ IF Following(cur) = 0
       THEN result' \in {got', None} /\ UNCHANGED <<pending, resp>>
       ELSE SendRequest(Following(cur), call) /\ UNCHANGED result
  /\ UNCHANGED <<call, wire>>

\* Variant: a failed read is tried again, without end.
RetryRead == SendRequest(cur, call) /\ UNCHANGED <<cur, got, result>>

\* Variant: the last good reading is returned again.
GiveUpKeepsResult ==
  /\ cur' = 0
  /\ got' = Nothing
  /\ UNCHANGED <<pending, resp, result>>

\* A failed read gives up the whole call.
GiveUp ==
  /\ cur' = 0
  /\ got' = Nothing
  /\ result' = None
  /\ UNCHANGED <<pending, resp>>

\* Timeout, or enough bytes that are not an acceptable frame.
Fail ==
  /\ cur # 0 /\ ~Acceptable(cur)
  /\ GiveUp
  /\ UNCHANGED <<call, wire>>

----------------------------------------------------------------------------
(* The pack and the line.                                                  *)

Answer ==
  /\ pending # <<>>
  /\ wire' = wire \o <<[of |-> Head(pending), part |-> "header"],
                       [of |-> Head(pending), part |-> "rest"]>>
  /\ pending' = Tail(pending)
  /\ UNCHANGED <<call, cur, resp, got, result>>

\* An exception reply, or one damaged on the line.
AnswerNoise ==
  /\ pending # <<>>
  /\ wire' = Append(wire, [of |-> Head(pending), part |-> "noise"])
  /\ pending' = Tail(pending)
  /\ UNCHANGED <<call, cur, resp, got, result>>

\* The pack ignores a request, or the request was damaged.
Ignore ==
  /\ pending # <<>>
  /\ pending' = Tail(pending)
  /\ UNCHANGED <<call, cur, wire, resp, got, result>>

\* What arrives at a closed port is gone.
Arrive ==
  /\ wire # <<>>
  /\ resp' = IF cur = 0 THEN resp ELSE Append(resp, Head(wire))
  /\ wire' = Tail(wire)
  /\ UNCHANGED <<call, cur, pending, got, result>>

Init ==
  /\ call = 0 /\ cur = 0
  /\ pending = <<>> /\ wire = <<>> /\ resp = <<>>
  /\ got = Nothing /\ result = None

Next ==
  \/ Open \/ OpenFails \/ Accept \/ Fail
  \/ Answer \/ AnswerNoise \/ Ignore \/ Arrive

Spec == Init /\ [][Next]_vars

\* The reader goes on by itself: its wait for a reply has a timeout.
FairSpec == Spec /\ WF_vars(Accept \/ Fail)

----------------------------------------------------------------------------
(* Properties.                                                             *)

TypeOK ==
  /\ call \in 0 .. MaxCalls
  /\ cur \in Registers \cup {0}
  /\ pending \in Seq(Requests)
  /\ wire \in Seq(Pieces)
  /\ resp \in Seq(Pieces)
  /\ got \in [Registers -> Requests \cup {None}]
  /\ result \in [Registers -> Requests \cup {None}] \cup {None}

\* No reply is taken for that of another register, although several registers
\* have replies of the same length and replies may be late: a failed read ends
\* the call, and the first register's length is its own.
RightRegister == \A r \in Registers : got[r] # None => got[r].reg = r

\* A reading that is returned is complete, and its last register was asked
\* for and answered during this call: late replies alone never make a silent
\* pack look present.
ReadingShowsLife ==
  cur = 0 /\ result # None =>
    /\ \A r \in Registers : result[r] # None
    /\ result[Len(Counts)].call = call

\* Every call of read_pack() returns, whatever the pack does.
ReadEnds == cur # 0 ~> cur = 0

=============================================================================
