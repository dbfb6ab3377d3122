---------------------------- MODULE ModbusProofs ----------------------------
(***************************************************************************)
(* What a call of read_pack() may take for an answer, for every list of     *)
(* registers and every number of calls.                                     *)
(***************************************************************************)
EXTENDS ModbusRead, TLAPS, FiniteSetTheorems, SequenceTheorems

----------------------------------------------------------------------------
(* Types.                                                                  *)

TypeInv == TypeOK /\ (cur # 0 => call # 0)

LEMMA RegistersAre ==
  /\ Registers = 1 .. Len(Counts) /\ Len(Counts) \in Nat /\ Len(Counts) >= 1
  /\ First \in Registers
  /\ \A c \in Registers : /\ Following(c) \in Registers \cup {0}
                          /\ Following(c) = 0 => c = Len(Counts)
                          /\ Following(c) # 0 => Following(c) = c + 1
  BY ConstantsAssumption DEF Registers, First, Following

LEMMA SendType ==
  ASSUME TypeOK, NEW r \in Registers, NEW k \in 1 .. MaxCalls, SendRequest(r, k)
  PROVE  /\ resp' = <<>> /\ resp' \in Seq(Pieces)
         /\ pending' \in Seq(Requests)
<1>1. [reg |-> r, call |-> k] \in Requests
  BY DEF Requests
<1>2. pending \in Seq(Requests) /\ <<>> \in Seq(Pieces)
  BY DEF TypeOK
<1> QED  BY <1>1, <1>2 DEF SendRequest

LEMMA NothingType == Nothing \in [Registers -> Requests \cup {None}]
  BY DEF Nothing

\* What an accepted reply stores.
LEMMA AcceptType ==
  ASSUME TypeOK, cur \in Registers, Acceptable(cur)
  PROVE  /\ resp[1].of \in Requests
         /\ [got EXCEPT ![cur] = resp[1].of] \in [Registers -> Requests \cup {None}]
<1>1. 1 \in DOMAIN resp /\ resp \in Seq(Pieces)
  BY DEF Acceptable, TypeOK
<1>2. resp[1] \in Pieces
  BY <1>1
<1> QED  BY <1>2 DEF Pieces, TypeOK

LEMMA TypeInit == Init => TypeInv
<1> SUFFICES ASSUME Init PROVE TypeInv
  OBVIOUS
<1>1. pending \in Seq(Requests) /\ wire \in Seq(Pieces) /\ resp \in Seq(Pieces)
  BY DEF Init
<1>2. got \in [Registers -> Requests \cup {None}]
  BY NothingType DEF Init
<1>3. call \in 0 .. MaxCalls
  BY ConstantsAssumption DEF Init
<1> QED  BY <1>1, <1>2, <1>3 DEF Init, TypeInv, TypeOK

LEMMA TypeStep == TypeInv /\ [Next]_vars => TypeInv'
<1> SUFFICES ASSUME TypeInv, [Next]_vars PROVE TypeInv'
  OBVIOUS
<1>0. TypeOK /\ (cur # 0 => call # 0)
  BY DEF TypeInv
<1>1. CASE Open
  <2>1. call' \in 1 .. MaxCalls /\ call' = call + 1
    BY <1>0, <1>1, ConstantsAssumption DEF Open, TypeOK
  <2>2. SendRequest(First, call') /\ cur' = First /\ got' = Nothing
        /\ wire' = wire /\ result' = result
    BY <1>1, <2>1 DEF Open
  <2>3. resp' \in Seq(Pieces) /\ pending' \in Seq(Requests)
    <3>1. PICK k \in 1 .. MaxCalls : k = call'
      BY <2>1
    <3> QED  BY <1>0, <2>2, <3>1, SendType, RegistersAre
  <2>4. call' # 0 /\ call' \in 0 .. MaxCalls
    <3>1. PICK k \in 1 .. MaxCalls : k = call'
      BY <2>1
    <3>2. k # 0 /\ k \in 0 .. MaxCalls
      BY ConstantsAssumption
    <3> QED  BY <3>1, <3>2
  <2> QED
    BY <1>0, <2>2, <2>3, <2>4, NothingType, RegistersAre DEF TypeInv, TypeOK
<1>2. CASE OpenFails
  <2>1. PICK k \in 0 .. MaxCalls : k = call'
    BY <1>0, <1>2, ConstantsAssumption DEF OpenFails, TypeOK
  <2>2. /\ result' = None /\ got' = Nothing /\ cur = 0 /\ cur' = cur
        /\ pending' = pending /\ wire' = wire /\ resp' = resp
    BY <1>2 DEF OpenFails
  <2> QED  BY <1>0, <2>1, <2>2, NothingType DEF TypeInv, TypeOK
<1>3. CASE Accept
  <2>1. /\ cur \in Registers /\ Acceptable(cur) /\ call \in 1 .. MaxCalls
        /\ call' = call /\ wire' = wire
        /\ cur' = Following(cur)
        /\ got' = [got EXCEPT ![cur] = resp[1].of]
    BY <1>0, <1>3 DEF Accept, TypeOK
  <2>2. got' \in [Registers -> Requests \cup {None}]
    BY <1>0, <2>1, AcceptType
  <2>3. cur' \in Registers \cup {0}
    BY <2>1, RegistersAre
  <2>4. CASE Following(cur) = 0
    <3>1. result' \in {got', None} /\ pending' = pending /\ resp' = resp
      BY <1>3, <2>4 DEF Accept
    <3> QED  BY <1>0, <2>1, <2>2, <2>3, <3>1 DEF TypeInv, TypeOK
  <2>5. CASE Following(cur) # 0
    <3>1. SendRequest(Following(cur), call) /\ result' = result
      BY <1>3, <2>5 DEF Accept
    <3>2. resp' \in Seq(Pieces) /\ pending' \in Seq(Requests)
      BY <1>0, <2>1, <2>3, <2>5, <3>1, SendType
    <3> QED  BY <1>0, <2>1, <2>2, <2>3, <3>1, <3>2 DEF TypeInv, TypeOK
  <2> QED  BY <2>4, <2>5
<1>4. CASE Fail
  <2>1. /\ cur' = 0 /\ got' = Nothing /\ result' = None
        /\ pending' = pending /\ resp' = resp /\ call' = call /\ wire' = wire
    BY <1>4 DEF Fail, GiveUp
  <2> QED  BY <1>0, <2>1, NothingType DEF TypeInv, TypeOK
<1>5. CASE Answer
  <2> DEFINE q == Head(pending)
             h == [of |-> q, part |-> "header"]
             t == [of |-> q, part |-> "rest"]
  <2>1. q \in Requests /\ Tail(pending) \in Seq(Requests)
    BY <1>0, <1>5 DEF Answer, TypeOK
  <2>2. h \in Pieces /\ t \in Pieces
    BY <2>1 DEF Pieces
  <2> HIDE DEF h, t
  <2>3. wire \o <<h, t>> \in Seq(Pieces)
    BY <1>0, <2>2 DEF TypeOK
  <2>4. wire' = wire \o <<h, t>> /\ pending' = Tail(pending)
    BY <1>5 DEF Answer, h, t
  <2> QED  BY <1>0, <1>5, <2>1, <2>3, <2>4 DEF Answer, TypeInv, TypeOK
<1>6. CASE AnswerNoise
  <2> DEFINE n == [of |-> Head(pending), part |-> "noise"]
  <2>1. Head(pending) \in Requests /\ Tail(pending) \in Seq(Requests)
    BY <1>0, <1>6 DEF AnswerNoise, TypeOK
  <2>2. n \in Pieces
    BY <2>1 DEF Pieces
  <2> HIDE DEF n
  <2>3. Append(wire, n) \in Seq(Pieces)
    BY <1>0, <2>2 DEF TypeOK
  <2>4. wire' = Append(wire, n) /\ pending' = Tail(pending)
    BY <1>6 DEF AnswerNoise, n
  <2> QED  BY <1>0, <1>6, <2>1, <2>3, <2>4 DEF AnswerNoise, TypeInv, TypeOK
<1>7. CASE Ignore
  <2>1. Tail(pending) \in Seq(Requests)
    BY <1>0, <1>7 DEF Ignore, TypeOK
  <2> QED  BY <1>0, <1>7, <2>1 DEF Ignore, TypeInv, TypeOK
<1>8. CASE Arrive
  <2>1. Head(wire) \in Pieces /\ Tail(wire) \in Seq(Pieces)
    BY <1>0, <1>8 DEF Arrive, TypeOK
  <2>2. resp' \in Seq(Pieces)
    BY <1>0, <1>8, <2>1 DEF Arrive, TypeOK
  <2> QED  BY <1>0, <1>8, <2>1, <2>2 DEF Arrive, TypeInv, TypeOK
<1>9. CASE UNCHANGED vars
  BY <1>0, <1>9 DEF vars, TypeInv, TypeOK
<1> QED
  BY <1>1, <1>2, <1>3, <1>4, <1>5, <1>6, <1>7, <1>8, <1>9 DEF Next

\* Types: what is stored for a register is always a request made for one.
THEOREM TypeCorrect == Spec => []TypeOK
<1>1. TypeInv => TypeOK
  BY DEF TypeInv
<1> QED  BY <1>1, TypeInit, TypeStep, PTL DEF Spec

----------------------------------------------------------------------------
(* Late replies.  The requests that are still alive arrive in the order in  *)
(* which they were made.  A call that is answered by older ones uses one of *)
(* them up with every register: so it does not get far before it is answered *)
(* by its own, of which there is then just one.                             *)

Asked(c, k) == [reg |-> c, call |-> k]

Before(x, y) == x.call < y.call \/ (x.call = y.call /\ x.reg < y.reg)

\* What ends a reply.
Ends(w) == {i \in DOMAIN w : w[i].part # "header"}

Requested == {pending[i] : i \in DOMAIN pending}
Answered(w) == {w[i].of : i \in Ends(w)}

\* Still to be heard, and still to be used.
Line == Requested \cup Answered(wire)
Alive == Line \cup (IF cur = 0 THEN {} ELSE Answered(resp))

Waiting == Requested \cup {wire[i].of : i \in DOMAIN wire}

Order ==
  /\ \A i, j \in DOMAIN pending : i < j => Before(pending[i], pending[j])
  /\ \A i \in DOMAIN wire, j \in DOMAIN pending : Before(wire[i].of, pending[j])
  /\ \A i \in Ends(wire), j \in DOMAIN wire : i < j => Before(wire[i].of, wire[j].of)
  /\ cur # 0 => \A i \in Ends(resp), q \in Waiting : Before(resp[i].of, q)

\* Made no later than the request for the present register.
Past(q) == q.call <= call /\ (q.call = call /\ cur # 0 => q.reg <= cur)

Few == Cardinality(Alive) <= Held

\* Behind a request for the first register there is none for a far one.
Near == \A x, y \in Alive : x.reg = First /\ x.call <= y.call => y.reg <= Held

\* Requests that can answer this call and keep it behind its own.
Debt == {q \in Alive : q.call < call \/ q = Asked(First, call)}

Behind ==
  /\ Cardinality(Debt) + cur <= Held + 1
  /\ cur # First => \A q \in Alive : q.reg <= Held + 1

InTouch == cur # First /\ Alive \subseteq {Asked(cur, call)}

Stored ==
  \A r \in Registers :
    /\ got[r] # None => got[r].reg = r /\ (r > Held => got[r].call = call)
    /\ cur # 0 /\ r < cur => got[r] # None

Returned ==
  cur = 0 /\ result # None => result = got /\ \A r \in Registers : got[r] # None

LateInv ==
  /\ Order
  /\ \A q \in Waiting \cup Alive : Past(q)
  /\ Few
  /\ Near
  /\ cur # 0 => Behind \/ InTouch
  /\ Stored
  /\ Returned

LEMMA OneMore ==
  ASSUME NEW S, NEW s \in Seq(S), NEW a \in S
  PROVE  /\ DOMAIN Append(s, a) = 1 .. Len(s) + 1
         /\ Append(s, a)[Len(s) + 1] = a
         /\ \A i \in 1 .. Len(s) : Append(s, a)[i] = s[i]
OBVIOUS

LEMMA TwoMore ==
  ASSUME NEW S, NEW s \in Seq(S), NEW a \in S, NEW b \in S
  PROVE  /\ DOMAIN (s \o <<a, b>>) = 1 .. Len(s) + 2
         /\ (s \o <<a, b>>)[Len(s) + 1] = a
         /\ (s \o <<a, b>>)[Len(s) + 2] = b
         /\ \A i \in 1 .. Len(s) : (s \o <<a, b>>)[i] = s[i]
OBVIOUS

LEMMA LineFacts ==
  ASSUME TypeOK
  PROVE  /\ Line \subseteq Requests /\ IsFiniteSet(Line)
         /\ Cardinality(Line) \in Nat /\ Cardinality(Line) <= Outstanding
         /\ Outstanding \in Nat
         /\ Alive \subseteq Requests /\ IsFiniteSet(Alive) /\ Cardinality(Alive) \in Nat
         /\ Waiting \subseteq Requests /\ Line \subseteq Waiting /\ Line \subseteq Alive
<1> DEFINE f == [i \in Ends(wire) |-> wire[i].of]
           g == [i \in Ends(resp) |-> resp[i].of]
<1>1. /\ pending \in Seq(Requests) /\ wire \in Seq(Pieces) /\ resp \in Seq(Pieces)
      /\ DOMAIN pending = 1 .. Len(pending) /\ Len(pending) \in Nat
      /\ DOMAIN wire = 1 .. Len(wire) /\ Len(wire) \in Nat
      /\ DOMAIN resp = 1 .. Len(resp) /\ Len(resp) \in Nat
  BY DEF TypeOK
<1>2. /\ IsFiniteSet(DOMAIN pending) /\ Cardinality(DOMAIN pending) = Len(pending)
      /\ IsFiniteSet(DOMAIN wire) /\ IsFiniteSet(DOMAIN resp)
  <2>1. \A n \in Nat : IsFiniteSet(1 .. n) /\ Cardinality(1 .. n) = n
    BY FS_Interval
  <2> QED  BY <1>1, <2>1
<1>3. /\ IsFiniteSet(Ends(wire)) /\ IsFiniteSet(Ends(resp))
      /\ Cardinality(Ends(wire)) \in Nat
  BY <1>2, FS_Subset, FS_CardinalityType DEF Ends
<1>4. /\ pending \in Surjection(DOMAIN pending, Requested)
      /\ f \in Surjection(Ends(wire), Answered(wire))
      /\ g \in Surjection(Ends(resp), Answered(resp))
  <2>1. pending \in Surjection(DOMAIN pending, Requested)
    BY <1>1 DEF Surjection, Requested
  <2>2. f \in Surjection(Ends(wire), Answered(wire))
    BY DEF Surjection, Answered
  <2>3. g \in Surjection(Ends(resp), Answered(resp))
    BY DEF Surjection, Answered
  <2> QED  BY <2>1, <2>2, <2>3
<1>5. IsFiniteSet(Requested) /\ Cardinality(Requested) <= Len(pending)
  BY <1>2, <1>4, FS_Surjection
<1>6. IsFiniteSet(Answered(wire)) /\ Cardinality(Answered(wire)) <= Cardinality(Ends(wire))
  BY <1>3, <1>4, FS_Surjection
<1>7. IsFiniteSet(Answered(resp))
  BY <1>3, <1>4, FS_Surjection
<1>8. Outstanding = Len(pending) + Cardinality(Ends(wire))
  BY DEF Outstanding, Ends
<1>9. /\ IsFiniteSet(Line) /\ Cardinality(Line) \in Nat
      /\ Cardinality(Line) <= Cardinality(Requested) + Cardinality(Answered(wire))
  <2>1. /\ IsFiniteSet(Line)
        /\ Cardinality(Line) = Cardinality(Requested) + Cardinality(Answered(wire))
                                 - Cardinality(Requested \cap Answered(wire))
    BY <1>5, <1>6, FS_Union DEF Line
  <2>2. IsFiniteSet(Requested \cap Answered(wire))
    BY <1>5, FS_Subset
  <2> QED  BY <1>5, <1>6, <2>1, <2>2, FS_CardinalityType
<1>10. Cardinality(Requested) \in Nat /\ Cardinality(Answered(wire)) \in Nat
  BY <1>5, <1>6, FS_CardinalityType
<1>11. IsFiniteSet(Alive) /\ Cardinality(Alive) \in Nat
  <2>1. IsFiniteSet(Line \cup Answered(resp))
    BY <1>7, <1>9, FS_Union
  <2>2. Alive \in SUBSET (Line \cup Answered(resp))
    BY DEF Alive
  <2> QED  BY <2>1, <2>2, FS_Subset, FS_CardinalityType
<1>12. /\ Requested \subseteq Requests
       /\ {wire[i].of : i \in DOMAIN wire} \subseteq Requests
       /\ Answered(wire) \subseteq {wire[i].of : i \in DOMAIN wire}
       /\ Answered(resp) \subseteq Requests
  <2>1. \A i \in DOMAIN wire : wire[i] \in Pieces
    BY <1>1
  <2>2. \A i \in DOMAIN resp : resp[i] \in Pieces
    BY <1>1
  <2>3. \A i \in DOMAIN pending : pending[i] \in Requests
    BY <1>1
  <2> QED  BY <2>1, <2>2, <2>3 DEF Pieces, Requested, Answered, Ends
<1>13. /\ Line \subseteq Requests /\ Alive \subseteq Requests /\ Waiting \subseteq Requests
       /\ Line \subseteq Waiting /\ Line \subseteq Alive
  BY <1>12 DEF Line, Alive, Waiting
<1> QED
  BY <1>1, <1>3, <1>5, <1>6, <1>8, <1>9, <1>10, <1>11, <1>13

LEMMA DebtFacts ==
  ASSUME TypeOK
  PROVE  /\ IsFiniteSet(Debt) /\ Cardinality(Debt) \in Nat
         /\ \A q \in Debt : Cardinality(Debt) >= 1
<1>1. IsFiniteSet(Debt) /\ Cardinality(Debt) \in Nat
  <2>1. Debt \in SUBSET Alive
    BY DEF Debt
  <2> QED  BY <2>1, LineFacts, FS_Subset, FS_CardinalityType
<1>2. ASSUME NEW q \in Debt PROVE Cardinality(Debt) >= 1
  <2>1. {q} \in SUBSET Debt /\ Cardinality({q}) = 1
    BY FS_Singleton
  <2> QED  BY <1>1, <2>1, FS_Subset
<1> QED  BY <1>1, <1>2

\* Alive requests may be used up or lost at any time.
LEMMA FewerAlive ==
  ASSUME TypeInv, TypeInv', LateInv, Order', Waiting' \subseteq Waiting, Alive' \subseteq Alive,
         \/ call' = call /\ cur' = cur
         \/ call' \in {call, call + 1} /\ cur' = 0
  PROVE  /\ \A q \in (Waiting \cup Alive)' : Past(q)'
         /\ Few' /\ Near'
         /\ cur' # 0 => (Behind \/ InTouch)'
<1>0. TypeOK /\ TypeOK' /\ call \in Nat
  BY ConstantsAssumption DEF TypeInv, TypeOK
<1>1. \A q \in (Waiting \cup Alive)' : Past(q)'
  <2> SUFFICES ASSUME NEW q \in Waiting' \cup Alive' PROVE Past(q)'
    OBVIOUS
  <2>1. q \in Requests /\ Past(q)
    BY <1>0, LineFacts DEF LateInv
  <2>2. q.call \in Int
    BY <2>1 DEF Requests
  <2> QED  BY <1>0, <2>1, <2>2 DEF Past
<1>2. Few'
  <2>1. IsFiniteSet(Alive) /\ Cardinality(Alive) \in Nat /\ Alive' \in SUBSET Alive
    BY <1>0, LineFacts
  <2>2. Cardinality(Alive') <= Cardinality(Alive) /\ Cardinality(Alive') \in Nat
    BY <2>1, FS_Subset, FS_CardinalityType
  <2> QED  BY <2>1, <2>2, ConstantsAssumption DEF LateInv, Few
<1>3. Near'
  BY DEF LateInv, Near
<1>4. ASSUME cur' # 0 PROVE (Behind \/ InTouch)'
  <2>1. call' = call /\ cur' = cur /\ (Behind \/ InTouch)
    BY <1>4 DEF LateInv
  <2>2. CASE InTouch
    BY <2>1, <2>2 DEF InTouch
  <2>3. CASE Behind
    <3>1. Debt' \in SUBSET Debt
      BY <2>1 DEF Debt
    <3>2. Cardinality(Debt') <= Cardinality(Debt) /\ Cardinality(Debt') \in Nat
          /\ Cardinality(Debt) \in Nat
      BY <1>0, <3>1, DebtFacts, FS_Subset, FS_CardinalityType
    <3>3. cur \in Nat
      BY <1>0, RegistersAre DEF TypeOK
    <3>4. Cardinality(Debt') + cur <= Held + 1
      BY <2>3, <3>2, <3>3, ConstantsAssumption DEF Behind
    <3> QED  BY <2>1, <2>3, <3>4 DEF Behind
  <2> QED  BY <2>1, <2>2, <2>3
<1> QED  BY <1>1, <1>2, <1>3, <1>4

\* A request is made that comes after all that are under way.
LEMMA SendKeeps ==
  ASSUME TypeInv, TypeInv', LateInv, NEW r \in Registers, NEW k \in 1 .. MaxCalls,
         SendRequest(r, k), wire' = wire, call' = k, cur' = r,
         \A q \in Waiting : Before(q, Asked(r, k))
  PROVE  /\ Order' /\ Few'
         /\ Alive' \subseteq Line \cup {Asked(r, k)}
         /\ \A q \in (Waiting \cup Alive)' : Past(q)'
<1> DEFINE n == Asked(r, k)
<1>1. /\ TypeOK /\ Order /\ pending \in Seq(Requests)
      /\ DOMAIN pending = 1 .. Len(pending) /\ Len(pending) \in Nat
      /\ r \in Nat /\ r # 0 /\ k \in Nat
  <2>1. TypeOK /\ Order
    BY DEF TypeInv, LateInv
  <2>2. pending \in Seq(Requests)
    BY <2>1 DEF TypeOK
  <2>3. r \in Nat /\ r # 0
    BY RegistersAre
  <2>4. k \in Nat
    BY ConstantsAssumption
  <2> QED  BY <2>1, <2>2, <2>3, <2>4
<1>2. n \in Requests /\ n.reg = r /\ n.call = k
  BY DEF Asked, Requests
<1>3. /\ resp' = <<>>
      /\ pending' = IF Outstanding < Held THEN Append(pending, n) ELSE pending
  BY DEF SendRequest, Asked
<1> HIDE DEF n
<1>4. \/ /\ Outstanding < Held
         /\ DOMAIN pending' = 1 .. Len(pending) + 1
         /\ pending'[Len(pending) + 1] = n
         /\ \A i \in DOMAIN pending : pending'[i] = pending[i]
      \/ pending' = pending
  <2>1. CASE Outstanding < Held
    <3>1. pending' = Append(pending, n)
      BY <1>3, <2>1
    <3>2. pending \in Seq(Requests) /\ n \in Requests
      BY <1>1, <1>2
    <3>3. /\ DOMAIN Append(pending, n) = 1 .. Len(pending) + 1
          /\ Append(pending, n)[Len(pending) + 1] = n
          /\ \A i \in 1 .. Len(pending) : Append(pending, n)[i] = pending[i]
      BY <3>2, OneMore
    <3> QED  BY <1>1, <2>1, <3>1, <3>3
  <2> QED  BY <1>3, <2>1
<1>5. Requested' \subseteq Requested \cup {n}
  BY <1>1, <1>4 DEF Requested
<1>6. /\ Ends(resp') = {} /\ Answered(wire') = Answered(wire)
      /\ Ends(wire') = Ends(wire)
  BY <1>3 DEF Ends, Answered
<1>7. Answered(resp') = {}
  BY <1>6 DEF Answered
<1>8. /\ Line' \subseteq Line \cup {n} /\ Alive' = Line'
      /\ Waiting' \subseteq Waiting \cup {n}
  BY <1>5, <1>6, <1>7 DEF Line, Alive, Waiting
<1>9. Order'
  <2>1. ASSUME NEW i \in DOMAIN pending', NEW j \in DOMAIN pending', i < j
        PROVE  Before(pending'[i], pending'[j])
    <3>1. CASE pending' = pending
      BY <1>1, <2>1, <3>1 DEF Order
    <3>2. CASE /\ DOMAIN pending' = 1 .. Len(pending) + 1
               /\ pending'[Len(pending) + 1] = n
               /\ \A l \in DOMAIN pending : pending'[l] = pending[l]
      <4>1. i \in DOMAIN pending /\ pending'[i] = pending[i] /\ pending[i] \in Waiting
        BY <1>1, <2>1, <3>2 DEF Waiting, Requested
      <4>2. CASE j \in DOMAIN pending
        BY <1>1, <2>1, <3>2, <4>1, <4>2 DEF Order
      <4>3. CASE j = Len(pending) + 1
        BY <3>2, <4>1, <4>3 DEF n
      <4> QED  BY <1>1, <3>2, <4>2, <4>3
    <3> QED  BY <1>4, <3>1, <3>2
  <2>2. ASSUME NEW i \in DOMAIN wire', NEW j \in DOMAIN pending'
        PROVE  Before(wire'[i].of, pending'[j])
    <3>1. wire'[i].of = wire[i].of /\ wire[i].of \in Waiting /\ i \in DOMAIN wire
      BY DEF Waiting
    <3>2. CASE pending' = pending
      BY <1>1, <3>1, <3>2 DEF Order
    <3>3. CASE /\ DOMAIN pending' = 1 .. Len(pending) + 1
               /\ pending'[Len(pending) + 1] = n
               /\ \A l \in DOMAIN pending : pending'[l] = pending[l]
      <4>1. CASE j \in DOMAIN pending
        BY <1>1, <3>1, <3>3, <4>1 DEF Order
      <4>2. CASE j = Len(pending) + 1
        BY <3>1, <3>3, <4>2 DEF n
      <4> QED  BY <1>1, <3>3, <4>1, <4>2
    <3> QED  BY <1>4, <3>2, <3>3
  <2>3. \A i \in Ends(wire'), j \in DOMAIN wire' : i < j => Before(wire'[i].of, wire'[j].of)
    BY <1>1, <1>6 DEF Order
  <2> QED  BY <1>6, <2>1, <2>2, <2>3 DEF Order
<1>10. Few'
  <2>1. /\ IsFiniteSet(Line) /\ Cardinality(Line) \in Nat /\ Outstanding \in Nat
        /\ Cardinality(Line) <= Outstanding
        /\ IsFiniteSet(Alive) /\ Cardinality(Alive) <= Held /\ Line \in SUBSET Alive
        /\ Cardinality(Alive) \in Nat
    BY <1>1, LineFacts DEF LateInv, Few
  <2>2. CASE Outstanding < Held
    <3>1. /\ IsFiniteSet(Line \cup {n})
          /\ Cardinality(Line \cup {n}) <= Cardinality(Line) + 1
          /\ Cardinality(Line \cup {n}) \in Nat
      <4>1. /\ IsFiniteSet(Line \cup {n})
            /\ Cardinality(Line \cup {n}) =
                 IF n \in Line THEN Cardinality(Line) ELSE Cardinality(Line) + 1
        BY <2>1, FS_AddElement
      <4> QED  BY <2>1, <4>1
    <3>2. Alive' \in SUBSET (Line \cup {n})
      BY <1>8
    <3>3. Cardinality(Alive') <= Cardinality(Line \cup {n}) /\ Cardinality(Alive') \in Nat
      BY <3>1, <3>2, FS_Subset, FS_CardinalityType
    <3> QED  BY <2>1, <2>2, <3>1, <3>3, ConstantsAssumption DEF Few
  <2>3. CASE ~(Outstanding < Held)
    <3>1. pending' = pending
      BY <1>3, <2>3
    <3>2. Line' = Line
      BY <1>6, <3>1 DEF Line, Requested
    <3>3. Cardinality(Line) <= Cardinality(Alive)
      BY <2>1, FS_Subset
    <3> QED  BY <1>8, <2>1, <3>2, <3>3, ConstantsAssumption DEF Few
  <2> QED  BY <2>2, <2>3
<1>11. ASSUME NEW q \in Waiting' \cup Alive'
       PROVE  Past(q)'
  <2>1. q \in Waiting \/ q = n
    BY <1>1, <1>8, LineFacts
  <2>2. CASE q = n
    BY <1>1, <1>2, <2>2 DEF Past
  <2>3. CASE q \in Waiting
    <3>1. Before(q, n) /\ q \in Requests
      BY <1>1, <2>3, LineFacts DEF n
    <3>2. q.call \in Int /\ q.reg \in Int
      BY <3>1, RegistersAre DEF Requests
    <3>3. q.call <= k /\ (q.call = k => q.reg <= r)
      BY <1>1, <1>2, <3>1, <3>2 DEF Before
    <3> QED  BY <3>3 DEF Past
  <2> QED  BY <2>1, <2>2, <2>3
<1> QED  BY <1>8, <1>9, <1>10, <1>11 DEF n

LEMMA OpenKeeps ==
  ASSUME TypeInv, TypeInv', LateInv, Open
  PROVE  LateInv'
<1>1. /\ cur = 0 /\ call' = call + 1 /\ cur' = First /\ got' = Nothing
      /\ wire' = wire /\ SendRequest(First, call')
  BY DEF Open
<1>2. call \in Nat /\ call' \in 1 .. MaxCalls /\ TypeOK /\ TypeOK' /\ First \in Registers
  BY <1>1, ConstantsAssumption, RegistersAre DEF Open, TypeInv, TypeOK
<1> DEFINE n == Asked(First, call')
<1>3. n.reg = First /\ n.call = call' /\ First = 1
  BY DEF Asked, First
<1> HIDE DEF n
<1>4. \A q \in Waiting \cup Alive : q \in Requests /\ q.call \in Nat /\ q.call <= call
  BY <1>2, LineFacts DEF LateInv, Past, Requests
<1>5. \A q \in Waiting : Before(q, n)
  BY <1>1, <1>2, <1>3, <1>4 DEF Before
<1>6. /\ Order' /\ Few' /\ Alive' \subseteq Line \cup {n}
      /\ \A q \in (Waiting \cup Alive)' : Past(q)'
  BY <1>1, <1>2, <1>5, SendKeeps DEF n
<1>7. Line \subseteq Alive
  BY <1>2, LineFacts
<1>8. Near'
  <2> SUFFICES ASSUME NEW x \in Alive', NEW y \in Alive', x.reg = First, x.call <= y.call
               PROVE  y.reg <= Held
    BY DEF Near
  <2>1. CASE y = n
    BY <1>3, <2>1, ConstantsAssumption
  <2>2. CASE y \in Line
    <3>1. x # n
      BY <1>1, <1>2, <1>3, <1>4, <1>7, <2>2
    <3>2. x \in Alive /\ y \in Alive
      BY <1>6, <1>7, <2>2, <3>1
    <3> QED  BY <3>2 DEF LateInv, Near
  <2> QED  BY <1>6, <2>1, <2>2
<1>9. Behind'
  <2>1. Debt' \in SUBSET Alive'
    BY DEF Debt
  <2>2. /\ IsFiniteSet(Alive') /\ Cardinality(Alive') \in Nat
        /\ Cardinality(Alive') <= Held
    <3>1. IsFiniteSet(Line \cup {n}) /\ Alive' \in SUBSET (Line \cup {n})
      BY <1>2, <1>6, LineFacts, FS_AddElement
    <3>2. IsFiniteSet(Alive') /\ Cardinality(Alive') \in Nat
      BY <3>1, FS_Subset, FS_CardinalityType
    <3> QED  BY <1>6, <3>2 DEF Few
  <2>3. Cardinality(Debt') <= Cardinality(Alive') /\ Cardinality(Debt') \in Nat
    BY <2>1, <2>2, FS_Subset, FS_CardinalityType
  <2> QED  BY <1>1, <1>3, <2>2, <2>3, ConstantsAssumption DEF Behind
<1>10. Stored'
  <2>1. \A r \in Registers : ~(r < First)
    BY RegistersAre DEF First
  <2> QED  BY <1>1, <2>1 DEF Stored, Nothing
<1>11. Returned'
  BY <1>1, <1>3 DEF Returned
<1> QED  BY <1>6, <1>8, <1>9, <1>10, <1>11 DEF LateInv

\* The reply accepted is one to the register read.  Either it is to the
\* request of this call, and then nothing is on its way, or it is late, and
\* then the call had to be behind.
LEMMA AcceptedIsRight ==
  ASSUME TypeInv, LateInv, Accept
  PROVE  LET x == resp[1].of IN
         /\ cur \in Registers /\ cur \in Nat /\ cur # 0
         /\ x \in Requests /\ x \in Alive /\ x.reg = cur /\ x.call <= call
         /\ \A q \in Line : Before(x, q)
         /\ \A q \in Waiting : Before(x, q)
         /\ x.call = call => x = Asked(cur, call) /\ Line = {}
         /\ x.call # call => Behind /\ x \in Debt
<1> DEFINE x == resp[1].of
<1>1. TypeOK /\ cur \in Registers /\ cur \in Nat /\ cur # 0 /\ Acceptable(cur)
      /\ call \in 1 .. MaxCalls
  BY RegistersAre DEF Accept, TypeInv, TypeOK
<1>2. x \in Requests
  BY <1>1, AcceptType
<1>3. 2 \in Ends(resp) /\ resp[2].of = x /\ Counts[x.reg] = Counts[cur]
  BY <1>1 DEF Acceptable, Ends, TypeOK
<1> HIDE DEF x
<1>4. x \in Alive
  BY <1>1, <1>3 DEF Alive, Answered
<1>5. \A q \in Waiting : Before(x, q)
  BY <1>1, <1>3 DEF LateInv, Order
<1>6. /\ x.reg \in Registers /\ x.reg \in Nat /\ x.call \in Nat
      /\ x = Asked(x.reg, x.call)
  BY <1>2, RegistersAre DEF Requests, Asked
<1>7. x.call <= call
  BY <1>4 DEF LateInv, Past
<1>8. Behind \/ InTouch
  BY <1>1 DEF LateInv
<1>9. x.reg = cur
  <2>1. CASE cur = First
    BY <1>3, <1>6, <2>1, Recognisable DEF First
  <2>2. CASE InTouch
    BY <1>4, <2>2 DEF InTouch, Asked
  <2>3. CASE Behind /\ cur # First
    <3>1. x.reg <= Held + 1
      BY <1>4, <2>3 DEF Behind
    <3>2. cur <= Held + 1
      BY <1>1, <2>3, DebtFacts, ConstantsAssumption DEF Behind
    <3>3. x.reg \in 1 .. Held + 1 /\ cur \in 1 .. Held + 1
      BY <1>1, <1>6, <3>1, <3>2, RegistersAre, ConstantsAssumption
    <3> QED  BY <1>1, <1>3, <1>6, <3>3, Recognisable
  <2> QED  BY <1>8, <2>1, <2>2, <2>3
<1>10. ASSUME x.call = call
       PROVE  x = Asked(cur, call) /\ Line = {}
  <2>1. x = Asked(cur, call)
    BY <1>6, <1>9, <1>10
  <2>2. ASSUME NEW q \in Line PROVE FALSE
    <3>1. q \in Waiting /\ q \in Requests
      BY <1>1, LineFacts
    <3>2. q.call \in Nat /\ q.reg \in Nat
      BY <3>1, RegistersAre DEF Requests
    <3>3. Before(x, q) /\ Past(q)
      BY <1>5, <3>1 DEF LateInv
    <3> QED  BY <1>1, <1>9, <1>10, <3>2, <3>3 DEF Before, Past
  <2> QED  BY <2>1, <2>2
<1>11. ASSUME x.call # call
       PROVE  Behind /\ x \in Debt
  <2>1. ~InTouch
    BY <1>4, <1>11 DEF InTouch, Asked
  <2>2. x.call < call
    BY <1>1, <1>6, <1>7, <1>11
  <2> QED  BY <1>4, <1>8, <2>1, <2>2 DEF Debt
<1>12. \A q \in Line : Before(x, q)
  BY <1>1, <1>5, LineFacts
<1> QED
  BY <1>1, <1>2, <1>4, <1>5, <1>7, <1>9, <1>10, <1>11, <1>12 DEF x

LEMMA NextRequestKeeps ==
  ASSUME TypeInv, TypeInv', LateInv, Accept, Following(cur) # 0
  PROVE  /\ Order' /\ Few' /\ Near'
         /\ \A q \in (Waiting \cup Alive)' : Past(q)'
         /\ (Behind \/ InTouch)'
<1> DEFINE x == resp[1].of
           c == cur + 1
           n == Asked(c, call)
<1>1. /\ cur \in Registers /\ cur \in Nat /\ cur # 0
      /\ x \in Requests /\ x \in Alive /\ x.reg = cur /\ x.call <= call
      /\ \A q \in Line : Before(x, q)
      /\ \A q \in Waiting : Before(x, q)
      /\ x.call = call => x = Asked(cur, call) /\ Line = {}
      /\ x.call # call => Behind /\ x \in Debt
  BY AcceptedIsRight
<1> HIDE DEF x
<1>2. /\ c \in Registers /\ Following(cur) = c /\ First = 1
      /\ TypeOK /\ TypeOK' /\ call \in 1 .. MaxCalls /\ call \in Nat
  <2>1. Following(cur) = c /\ c \in Registers /\ First = 1
    BY <1>1, RegistersAre DEF First
  <2>2. TypeOK /\ TypeOK' /\ call \in 1 .. MaxCalls
    BY <1>1 DEF TypeInv, TypeOK
  <2> QED  BY <2>1, <2>2, ConstantsAssumption
<1>3. c \in Nat /\ c > First /\ c # First /\ c # 0 /\ c = cur + 1
  BY <1>1, <1>2
<1>4. cur' = c /\ call' = call /\ wire' = wire /\ SendRequest(c, call)
  BY <1>2 DEF Accept
<1>5. n \in Requests /\ n.reg = c /\ n.call = call
  BY <1>2 DEF Asked, Requests
<1> HIDE DEF c, n
<1>6. ASSUME NEW q \in Waiting
      PROVE  Before(q, n)
  <2>1. Past(q) /\ q \in Requests
    BY <1>2, LineFacts DEF LateInv
  <2>2. q.call \in Nat /\ q.reg \in Nat
    BY <2>1, RegistersAre DEF Requests
  <2> QED  BY <1>1, <1>2, <1>3, <1>5, <2>1, <2>2 DEF Past, Before
<1>7. /\ Order' /\ Few' /\ Alive' \subseteq Line \cup {n}
      /\ \A q \in (Waiting \cup Alive)' : Past(q)'
  BY <1>2, <1>4, <1>6, SendKeeps DEF n
<1>8. \A q \in Line : q \in Alive /\ q \in Requests /\ q # x /\ q.call \in Nat
                      /\ x.call <= q.call /\ q.call <= call
  <2> TAKE q \in Line
  <2>1. q \in Alive /\ q \in Requests /\ Before(x, q) /\ Past(q)
    BY <1>1, <1>2, LineFacts DEF LateInv
  <2>2. /\ q.call \in Nat /\ q.reg \in Nat /\ x.call \in Nat /\ x.reg \in Nat
    BY <1>1, <2>1, RegistersAre DEF Requests
  <2> QED  BY <2>1, <2>2 DEF Before, Past
<1>9. CASE x.call = call
  <2>1. Alive' \subseteq {n}
    BY <1>1, <1>7, <1>9
  <2>2. InTouch'
    BY <1>3, <1>4, <2>1 DEF InTouch, n
  <2>3. Near'
    BY <1>3, <1>5, <2>1 DEF Near
  <2> QED  BY <1>7, <2>2, <2>3
<1>10. CASE x.call # call
  <2>1. Behind /\ x \in Debt
    BY <1>1, <1>10
  <2>2. Debt' \in SUBSET (Debt \ {x})
    <3> SUFFICES ASSUME NEW q \in Debt' PROVE q \in Debt /\ q # x
      OBVIOUS
    <3>1. q \in Alive' /\ (q.call < call \/ q = Asked(First, call))
      BY <1>4 DEF Debt
    <3>2. q # n
      BY <1>2, <1>3, <1>5, <3>1 DEF Asked
    <3>3. q \in Line
      BY <1>7, <3>1, <3>2
    <3> QED  BY <1>8, <3>1, <3>3 DEF Debt
  <2>3. /\ IsFiniteSet(Debt) /\ Cardinality(Debt) \in Nat
        /\ IsFiniteSet(Debt \ {x}) /\ Cardinality(Debt \ {x}) = Cardinality(Debt) - 1
    <3>1. IsFiniteSet(Debt) /\ Cardinality(Debt) \in Nat
      BY <1>2, DebtFacts
    <3>2. /\ IsFiniteSet(Debt \ {x})
          /\ Cardinality(Debt \ {x}) =
               IF x \in Debt THEN Cardinality(Debt) - 1 ELSE Cardinality(Debt)
      BY <3>1, FS_RemoveElement
    <3> QED  BY <2>1, <3>1, <3>2
  <2>4. /\ IsFiniteSet(Debt') /\ Cardinality(Debt') \in Nat
        /\ Cardinality(Debt') <= Cardinality(Debt) - 1
    BY <2>2, <2>3, FS_Subset, FS_CardinalityType
  <2>5. Cardinality(Debt) + cur <= Held + 1 /\ Held \in Nat
    BY <2>1, ConstantsAssumption DEF Behind
  <2>6. Cardinality(Debt') + c <= Held + 1 /\ c <= Held + 1
    BY <1>1, <1>3, <2>3, <2>4, <2>5
  <2>7. \A q \in Alive' : q.reg <= Held + 1
    <3> SUFFICES ASSUME NEW q \in Alive' PROVE q.reg <= Held + 1
      OBVIOUS
    <3>1. CASE q = n
      BY <1>5, <2>6, <3>1
    <3>2. CASE q \in Line
      <4>1. q \in Alive /\ x.call <= q.call /\ q.reg \in Nat
        BY <1>8, <3>2, RegistersAre DEF Requests
      <4>2. CASE cur = First
        BY <1>1, <2>5, <4>1, <4>2 DEF LateInv, Near
      <4>3. CASE cur # First
        BY <2>1, <4>1, <4>3 DEF Behind
      <4> QED  BY <4>2, <4>3
    <3> QED  BY <1>7, <3>1, <3>2
  <2>8. Behind'
    BY <1>4, <2>6, <2>7 DEF Behind
  <2>9. Near'
    <3> SUFFICES ASSUME NEW y \in Alive', NEW z \in Alive', y.reg = First, y.call <= z.call
                 PROVE  z.reg <= Held
      BY DEF Near
    <3>1. y \in Line
      BY <1>3, <1>5, <1>7
    <3>2. CASE z \in Line
      BY <1>8, <3>1, <3>2 DEF LateInv, Near
    <3>3. CASE z = n
      <4>1. y.call < call \/ y = Asked(First, call)
        BY <1>2, <1>8, <3>1 DEF Requests, Asked
      <4>2. y \in Debt'
        BY <1>4, <4>1 DEF Debt
      <4>3. {y} \in SUBSET Debt' /\ Cardinality({y}) = 1
        BY <4>2, FS_Singleton
      <4>4. Cardinality(Debt') >= 1
        BY <2>4, <4>3, FS_Subset
      <4> QED  BY <1>3, <1>5, <2>4, <2>5, <2>6, <3>3, <4>4
    <3> QED  BY <1>7, <3>2, <3>3
  <2> QED  BY <1>7, <2>8, <2>9
<1> QED  BY <1>9, <1>10

LEMMA AcceptKeeps ==
  ASSUME TypeInv, TypeInv', LateInv, Accept
  PROVE  LateInv'
<1> DEFINE n == Following(cur)
           x == resp[1].of
           g == [got EXCEPT ![cur] = x]
<1>1. /\ cur' = n /\ got' = g /\ call' = call /\ wire' = wire
  BY DEF Accept
<1>2. /\ cur \in Registers /\ cur \in Nat /\ cur # 0 /\ x \in Requests /\ x.reg = cur
      /\ x.call # call => Behind /\ x \in Debt
  BY AcceptedIsRight
<1>3. x # None
  BY <1>2, ConstantsAssumption DEF Requests, Registers
<1>4. /\ n \in Registers \cup {0}
      /\ n = 0 => cur = Len(Counts)
      /\ n # 0 => n = cur + 1
  BY <1>2, RegistersAre
<1>5. cur > Held => x.call = call
  <2> SUFFICES ASSUME cur > Held, x.call # call PROVE FALSE
    OBVIOUS
  <2>1. Cardinality(Debt) >= 1 /\ Cardinality(Debt) \in Nat /\ Cardinality(Debt) + cur <= Held + 1
    BY <1>2, DebtFacts DEF TypeInv, Behind
  <2> QED  BY <1>2, <2>1, ConstantsAssumption
<1> HIDE DEF x
<1>6. \A r \in Registers :
        /\ g[r] # None => g[r].reg = r /\ (r > Held => g[r].call = call)
        /\ r <= cur => g[r] # None
  <2> TAKE r \in Registers
  <2>1. CASE r = cur
    <3>1. g[r] = x
      BY <1>2, <2>1 DEF TypeInv, TypeOK
    <3> HIDE DEF g
    <3> QED  BY <1>2, <1>3, <1>5, <2>1, <3>1
  <2>2. CASE r # cur
    <3>1. g[r] = got[r]
      BY <1>2, <2>2 DEF TypeInv, TypeOK
    <3>2. r <= cur => r < cur
      BY <1>2, <2>2, RegistersAre
    <3> HIDE DEF g
    <3> QED  BY <1>2, <3>1, <3>2 DEF LateInv, Stored
  <2> QED  BY <2>1, <2>2
<1>7. Stored'
  <2>1. \A r \in Registers : n # 0 /\ r < n => r <= cur
    BY <1>2, <1>4, RegistersAre
  <2> HIDE DEF n, g
  <2> QED  BY <1>1, <1>6, <2>1 DEF Stored
<1>8. CASE n = 0
  <2>1. result' \in {g, None} /\ pending' = pending /\ resp' = resp
    BY <1>1, <1>8 DEF Accept
  <2>2. \A r \in Registers : g[r] # None
    BY <1>2, <1>4, <1>6, <1>8, RegistersAre
  <2>3. cur' = 0
    BY <1>1, <1>8
  <2> HIDE DEF n, g
  <2>4. Returned'
    BY <1>1, <2>1, <2>2 DEF Returned
  <2>5. Waiting' = Waiting /\ Line' = Line
    BY <1>1, <2>1 DEF Waiting, Line, Requested, Answered, Ends
  <2>6. Alive' \subseteq Alive
    BY <2>3, <2>5 DEF Alive
  <2>7. Order'
    BY <1>1, <2>1, <2>3 DEF LateInv, Order, Ends
  <2>8. /\ \A q \in (Waiting \cup Alive)' : Past(q)'
        /\ Few' /\ Near'
    <3>1. call' \in {call, call + 1}
      BY <1>1
    <3> QED  BY <2>3, <2>5, <2>6, <2>7, <3>1, FewerAlive
  <2> QED  BY <1>7, <2>3, <2>4, <2>7, <2>8 DEF LateInv
<1>9. CASE n # 0
  <2>1. cur' # 0
    BY <1>1, <1>9
  <2>2. Returned'
    BY <2>1 DEF Returned
  <2>3. /\ Order' /\ Few' /\ Near'
        /\ \A q \in (Waiting \cup Alive)' : Past(q)'
        /\ (Behind \/ InTouch)'
    BY <1>9, NextRequestKeeps
  <2> QED  BY <1>7, <2>2, <2>3 DEF LateInv
<1> QED  BY <1>8, <1>9

\* A step that ends a call without a reading, or fails to begin one.
LEMMA EndKeeps ==
  ASSUME TypeInv, TypeInv', LateInv, OpenFails \/ Fail
  PROVE  LateInv'
<1>1. /\ cur' = 0 /\ got' = Nothing /\ result' = None
      /\ call' \in {call, call + 1}
      /\ pending' = pending /\ wire' = wire /\ resp' = resp
  BY DEF OpenFails, Fail, GiveUp
<1>2. Waiting' = Waiting /\ Line' = Line
  BY <1>1 DEF Waiting, Line, Requested, Answered, Ends
<1>3. Alive' \subseteq Alive
  BY <1>1, <1>2 DEF Alive
<1>4. Order'
  BY <1>1 DEF LateInv, Order, Ends
<1>5. /\ \A q \in (Waiting \cup Alive)' : Past(q)'
      /\ Few' /\ Near'
  BY <1>1, <1>2, <1>3, <1>4, FewerAlive
<1>6. Stored' /\ Returned'
  BY <1>1 DEF Stored, Returned, Nothing
<1> QED  BY <1>1, <1>4, <1>5, <1>6 DEF LateInv

\* A step that only moves bytes.
LEMMA MoveKeeps ==
  ASSUME TypeInv, TypeInv', LateInv, Order', Waiting' \subseteq Waiting, Alive' \subseteq Alive,
         UNCHANGED <<call, cur, got, result>>
  PROVE  LateInv'
<1>1. Stored' /\ Returned'
  BY DEF LateInv, Stored, Returned
<1>2. /\ \A q \in (Waiting \cup Alive)' : Past(q)'
      /\ Few' /\ Near'
      /\ cur' # 0 => (Behind \/ InTouch)'
  BY FewerAlive
<1> QED  BY <1>1, <1>2 DEF LateInv

\* What the pack does with the first request it holds.
LEMMA PackKeeps ==
  ASSUME TypeInv, TypeInv', LateInv, Answer \/ AnswerNoise \/ Ignore
  PROVE  LateInv'
<1> DEFINE p == Head(pending)
           h == [of |-> p, part |-> "header"]
           t == [of |-> p, part |-> "rest"]
           e == [of |-> p, part |-> "noise"]
           k == Len(pending)
           l == Len(wire)
<1>1. /\ pending # <<>> /\ pending' = Tail(pending) /\ resp' = resp
      /\ UNCHANGED <<call, cur, got, result>>
      /\ wire' = wire \/ wire' = wire \o <<h, t>> \/ wire' = Append(wire, e)
  BY DEF Answer, AnswerNoise, Ignore
<1>2. /\ pending \in Seq(Requests) /\ wire \in Seq(Pieces) /\ Order
      /\ p \in Requests /\ h \in Pieces /\ t \in Pieces /\ e \in Pieces
  <2>1. pending \in Seq(Requests) /\ wire \in Seq(Pieces) /\ Order
    BY DEF TypeInv, TypeOK, LateInv
  <2>2. p \in Requests
    BY <1>1, <2>1
  <2> HIDE DEF p
  <2> QED  BY <2>1, <2>2 DEF Pieces
<1>3. /\ k \in Nat /\ k >= 1 /\ DOMAIN pending = 1 .. k /\ pending[1] = p
      /\ DOMAIN pending' = 1 .. k - 1
      /\ \A i \in 1 .. k - 1 : pending'[i] = pending[i + 1]
  BY <1>1, <1>2
<1>4. /\ h.of = p /\ t.of = p /\ e.of = p
      /\ h.part = "header" /\ t.part # "header" /\ e.part # "header"
  OBVIOUS
<1> HIDE DEF p, h, t, e, k
<1>5. l \in Nat /\ DOMAIN wire = 1 .. l
  BY <1>2
<1>6. \/ DOMAIN wire' = 1 .. l
      \/ DOMAIN wire' = 1 .. l + 1 /\ wire'[l + 1] = e
      \/ DOMAIN wire' = 1 .. l + 2 /\ wire'[l + 1] = h /\ wire'[l + 2] = t
  <2>1. CASE wire' = wire
    BY <1>5, <2>1
  <2>2. CASE wire' = Append(wire, e)
    BY <1>2, <2>2, OneMore
  <2>3. CASE wire' = wire \o <<h, t>>
    BY <1>2, <2>3, TwoMore
  <2> QED  BY <1>1, <2>1, <2>2, <2>3
<1>7. \A i \in 1 .. l : wire'[i] = wire[i]
  <2>1. CASE wire' = wire
    BY <1>5, <2>1
  <2>2. CASE wire' = Append(wire, e)
    BY <1>2, <2>2, OneMore
  <2>3. CASE wire' = wire \o <<h, t>>
    BY <1>2, <2>3, TwoMore
  <2> QED  BY <1>1, <2>1, <2>2, <2>3
<1> HIDE DEF l
<1>8. /\ \A i \in DOMAIN wire' :
           \/ i \in DOMAIN wire /\ wire'[i] = wire[i]
           \/ i > l /\ wire'[i].of = p
      /\ \A i \in Ends(wire'), j \in DOMAIN wire' :
           i < j => i \in Ends(wire) /\ wire'[i] = wire[i]
  BY <1>4, <1>5, <1>6, <1>7 DEF Ends
<1>9. p \in Requested /\ \A j \in DOMAIN pending' : pending'[j] \in Requested
  BY <1>3 DEF Requested
<1>10. Waiting' \subseteq Waiting /\ Line' \subseteq Line
  <2>1. Requested' \subseteq Requested
    BY <1>9 DEF Requested
  <2>2. {wire[i].of : i \in DOMAIN wire}' \subseteq {wire[i].of : i \in DOMAIN wire} \cup Requested
    BY <1>8, <1>9
  <2>3. Answered(wire') \subseteq Answered(wire) \cup Requested
    BY <1>8, <1>9 DEF Answered, Ends
  <2> QED  BY <2>1, <2>2, <2>3 DEF Waiting, Line
<1>11. Alive' \subseteq Alive
  BY <1>1, <1>10 DEF Alive, Answered, Ends
<1>12. Order'
  <2>1. ASSUME NEW i \in DOMAIN pending', NEW j \in DOMAIN pending', i < j
        PROVE  Before(pending'[i], pending'[j])
    <3>1. /\ i + 1 \in DOMAIN pending /\ j + 1 \in DOMAIN pending /\ i + 1 < j + 1
          /\ pending'[i] = pending[i + 1] /\ pending'[j] = pending[j + 1]
      BY <1>3, <2>1
    <3> QED  BY <1>2, <3>1 DEF Order
  <2>2. ASSUME NEW i \in DOMAIN wire', NEW j \in DOMAIN pending'
        PROVE  Before(wire'[i].of, pending'[j])
    <3>1. j + 1 \in DOMAIN pending /\ pending'[j] = pending[j + 1] /\ 1 < j + 1
          /\ 1 \in DOMAIN pending
      BY <1>3
    <3>2. CASE i \in DOMAIN wire /\ wire'[i] = wire[i]
      BY <1>2, <3>1, <3>2 DEF Order
    <3>3. CASE wire'[i].of = p
      BY <1>2, <1>3, <3>1, <3>3 DEF Order
    <3> QED  BY <1>8, <3>2, <3>3
  <2>3. ASSUME NEW i \in Ends(wire'), NEW j \in DOMAIN wire', i < j
        PROVE  Before(wire'[i].of, wire'[j].of)
    <3>1. i \in Ends(wire) /\ wire'[i] = wire[i] /\ i \in DOMAIN wire /\ 1 \in DOMAIN pending
      BY <1>3, <1>8, <2>3 DEF Ends
    <3>2. CASE j \in DOMAIN wire /\ wire'[j] = wire[j]
      BY <1>2, <2>3, <3>1, <3>2 DEF Order
    <3>3. CASE wire'[j].of = p
      BY <1>2, <1>3, <3>1, <3>3 DEF Order
    <3> QED  BY <1>8, <3>2, <3>3
  <2>4. cur' # 0 => \A i \in Ends(resp'), q \in Waiting' : Before(resp'[i].of, q)
    BY <1>1, <1>2, <1>10 DEF Order, Ends
  <2> QED  BY <2>1, <2>2, <2>3, <2>4 DEF Order
<1> QED  BY <1>1, <1>10, <1>11, <1>12, MoveKeeps

LEMMA ArriveKeeps ==
  ASSUME TypeInv, TypeInv', LateInv, Arrive
  PROVE  LateInv'
<1> DEFINE p == Head(wire)
           l == Len(wire)
           k == Len(resp)
<1>1. /\ wire # <<>> /\ wire' = Tail(wire) /\ pending' = pending
      /\ resp' = IF cur = 0 THEN resp ELSE Append(resp, p)
      /\ UNCHANGED <<call, cur, got, result>>
  BY DEF Arrive
<1>2. wire \in Seq(Pieces) /\ resp \in Seq(Pieces) /\ Order
  BY DEF TypeInv, TypeOK, LateInv
<1>3. /\ l \in Nat /\ l >= 1 /\ DOMAIN wire = 1 .. l /\ wire[1] = p /\ p \in Pieces
      /\ DOMAIN wire' = 1 .. l - 1
      /\ \A i \in 1 .. l - 1 : wire'[i] = wire[i + 1]
  BY <1>1, <1>2
<1>4. k \in Nat /\ DOMAIN resp = 1 .. k
  BY <1>2
<1> HIDE DEF p
<1>5. cur # 0 => /\ DOMAIN resp' = 1 .. k + 1 /\ resp'[k + 1] = p
                 /\ \A i \in 1 .. k : resp'[i] = resp[i]
  <2>1. /\ DOMAIN Append(resp, p) = 1 .. k + 1
        /\ Append(resp, p)[k + 1] = p
        /\ \A i \in 1 .. k : Append(resp, p)[i] = resp[i]
    BY <1>2, <1>3, OneMore
  <2> QED  BY <1>1, <2>1
<1> HIDE DEF l, k
<1>6. /\ \A i \in DOMAIN wire' : i + 1 \in DOMAIN wire /\ wire'[i] = wire[i + 1]
      /\ \A i \in Ends(wire') : i + 1 \in Ends(wire)
  BY <1>3 DEF Ends
<1>7. cur # 0 =>
        \A i \in Ends(resp') :
          \/ i \in Ends(resp) /\ resp'[i] = resp[i]
          \/ 1 \in Ends(wire) /\ resp'[i] = wire[1]
  BY <1>3, <1>4, <1>5 DEF Ends
<1>8. Requested' = Requested
  BY <1>1 DEF Requested
<1>9. /\ Answered(wire') \subseteq Answered(wire)
      /\ {wire[i].of : i \in DOMAIN wire}' \subseteq {wire[i].of : i \in DOMAIN wire}
  BY <1>6 DEF Answered, Ends
<1>10. Waiting' \subseteq Waiting /\ Line' \subseteq Line
  BY <1>8, <1>9 DEF Waiting, Line
<1>11. cur # 0 => Answered(resp') \subseteq Answered(resp) \cup Answered(wire)
  BY <1>7 DEF Answered
<1>12. Alive' \subseteq Alive
  BY <1>1, <1>10, <1>11 DEF Alive, Line
<1>13. Order'
  <2>1. \A i, j \in DOMAIN pending' : i < j => Before(pending'[i], pending'[j])
    BY <1>1, <1>2 DEF Order
  <2>2. \A i \in DOMAIN wire', j \in DOMAIN pending' : Before(wire'[i].of, pending'[j])
    BY <1>1, <1>2, <1>6 DEF Order
  <2>3. ASSUME NEW i \in Ends(wire'), NEW j \in DOMAIN wire', i < j
        PROVE  Before(wire'[i].of, wire'[j].of)
    <3>1. i \in DOMAIN wire' /\ i + 1 \in Ends(wire) /\ j + 1 \in DOMAIN wire
      BY <1>6, <2>3 DEF Ends
    <3>2. i + 1 < j + 1 /\ wire'[i] = wire[i + 1] /\ wire'[j] = wire[j + 1]
      BY <1>3, <1>6, <2>3, <3>1
    <3> QED  BY <1>2, <3>1, <3>2 DEF Order
  <2>4. ASSUME cur # 0, NEW i \in Ends(resp'), NEW q \in Waiting'
        PROVE  Before(resp'[i].of, q)
    <3>1. CASE i \in Ends(resp) /\ resp'[i] = resp[i]
      BY <1>2, <1>10, <2>4, <3>1 DEF Order
    <3>2. CASE 1 \in Ends(wire) /\ resp'[i] = wire[1]
      <4>1. CASE q \in Requested
        BY <1>2, <1>3, <3>2, <4>1 DEF Order, Requested
      <4>2. CASE \E j \in DOMAIN wire' : q = wire'[j].of
        <5>1. PICK j \in DOMAIN wire' : q = wire'[j].of
          BY <4>2
        <5>2. j + 1 \in DOMAIN wire /\ q = wire[j + 1].of /\ 1 < j + 1
          BY <1>3, <5>1
        <5> QED  BY <1>2, <3>2, <5>2 DEF Order
      <4> QED  BY <1>8, <4>1, <4>2 DEF Waiting
    <3> QED  BY <1>7, <2>4, <3>1, <3>2
  <2> QED  BY <1>1, <2>1, <2>2, <2>3, <2>4 DEF Order
<1> QED  BY <1>1, <1>10, <1>12, <1>13, MoveKeeps

LEMMA LateInit == Init => LateInv
<1> SUFFICES ASSUME Init PROVE LateInv
  OBVIOUS
<1>1. cur = 0 /\ pending = <<>> /\ wire = <<>> /\ resp = <<>> /\ got = Nothing /\ result = None
  BY DEF Init
<1>2. Alive = {} /\ Waiting = {}
  BY <1>1 DEF Alive, Line, Waiting, Requested, Answered, Ends
<1>3. Few
  BY <1>2, FS_EmptySet, ConstantsAssumption DEF Few
<1>4. Order
  BY <1>1 DEF Order, Ends
<1>5. Near /\ Stored /\ Returned
  BY <1>1, <1>2 DEF Near, Stored, Returned, Nothing
<1> QED  BY <1>1, <1>2, <1>3, <1>4, <1>5 DEF LateInv

LEMMA LateStep == TypeInv /\ TypeInv' /\ LateInv /\ [Next]_vars => LateInv'
<1> SUFFICES ASSUME TypeInv, TypeInv', LateInv, [Next]_vars PROVE LateInv'
  OBVIOUS
<1>1. CASE Open
  BY <1>1, OpenKeeps
<1>2. CASE OpenFails \/ Fail
  BY <1>2, EndKeeps
<1>3. CASE Accept
  BY <1>3, AcceptKeeps
<1>4. CASE Answer \/ AnswerNoise \/ Ignore
  BY <1>4, PackKeeps
<1>5. CASE Arrive
  BY <1>5, ArriveKeeps
<1>6. CASE UNCHANGED vars
  <2>1. UNCHANGED <<call, cur, pending, wire, resp, got, result>>
    BY <1>6 DEF vars
  <2>2. Waiting' = Waiting /\ Alive' = Alive /\ Order'
    BY <2>1 DEF Waiting, Alive, Line, Requested, Answered, Ends, LateInv, Order
  <2> QED  BY <2>1, <2>2, MoveKeeps
<1> QED  BY <1>1, <1>2, <1>3, <1>4, <1>5, <1>6 DEF Next

LEMMA LateCorrect == Spec => []LateInv
BY LateInit, LateStep, TypeInit, TypeStep, PTL DEF Spec

\* A late reply is never taken for that of another register, however many
\* requests the pack holds, as long as the counts are Recognisable.
THEOREM RegistersAreRight == Spec => []RightRegister
<1>1. LateInv => RightRegister
  BY DEF LateInv, Stored, RightRegister
<1> QED  BY <1>1, LateCorrect, PTL

\* A reading is complete and its last register was answered during the call
\* that returns it: the pack has not held as many late replies as there are
\* registers.
THEOREM ReadingsShowLife == Spec => []ReadingShowsLife
<1>1. LateInv => ReadingShowsLife
  BY RegistersAre, Recognisable DEF LateInv, Stored, Returned, ReadingShowsLife
<1> QED  BY <1>1, LateCorrect, PTL

=============================================================================
