--------------------------- MODULE BusMirrorProofs ---------------------------
(***************************************************************************)
(* A reader that has handled all it was sent shows what the service has,    *)
(* and never half of a bank, for every set of paths, of scans, every bound. *)
(***************************************************************************)
EXTENDS BusMirror, TLAPS, SequenceTheorems

\* No signal of w names p.
Silent(w, p) == \A i \in DOMAIN w : p \notin DOMAIN w[i]

\* The last signal of w that names p, if there is one, gives it the value v.
Says(w, p, v) ==
  \A i \in DOMAIN w :
    p \in DOMAIN w[i] /\ (\A j \in DOMAIN w : j > i => p \notin DOMAIN w[j])
      => w[i][p] = v

\* Every path that waits at the reader will end at its value.
Told(w, val) == \A p \in Paths : Says(w, p, val[p])

\* Nothing is heard without an importer, nor of /Redetect without its own.
Hush(w) ==
  /\ tracked = {} => w = <<>>
  /\ Redetect \notin tracked => Silent(w, Redetect)

\* A path that waits nowhere in w2 has waited nowhere in w and has not changed.
Kept(w, val, w2, val2) ==
  \A p \in tracked : Silent(w2, p) => Silent(w, p) /\ val2[p] = val[p]

Wires == Seq(Signal)
Valuation == [Paths -> Values]
News == UNION {[dom -> Values] : dom \in SUBSET Paths}

----------------------------------------------------------------------------
(* Signals.                                                                *)

LEMMA NewsFacts ==
  ASSUME NEW c \in News
  PROVE  /\ DOMAIN c \subseteq Paths
         /\ \A p \in DOMAIN c : c[p] \in Values
         /\ DOMAIN c # {} => c \in Signal
BY DEF News, Signal

LEMMA SignalFacts ==
  ASSUME NEW c \in Signal
  PROVE  c \in News
BY DEF News, Signal

\* Appending one signal.
LEMMA AppendSays ==
  ASSUME NEW w \in Wires, NEW c \in Signal, NEW p \in Paths, NEW v
  PROVE  /\ w \o <<c>> \in Wires
         /\ p \in DOMAIN c /\ c[p] = v
              => Says(w \o <<c>>, p, v) /\ ~Silent(w \o <<c>>, p)
         /\ p \notin DOMAIN c /\ Says(w, p, v) => Says(w \o <<c>>, p, v)
         /\ p \notin DOMAIN c => (Silent(w \o <<c>>, p) <=> Silent(w, p))
<1> DEFINE u == w \o <<c>>
           n == Len(w)
<1>1. /\ u \in Wires /\ n \in Nat
      /\ DOMAIN w = 1 .. n /\ DOMAIN u = 1 .. n + 1
      /\ u[n + 1] = c
      /\ \A i \in 1 .. n : u[i] = w[i]
  BY DEF Wires
<1> HIDE DEF u, n
<1>2. p \in DOMAIN c /\ c[p] = v => Says(u, p, v) /\ ~Silent(u, p)
  <2> SUFFICES ASSUME p \in DOMAIN c, c[p] = v
               PROVE  Says(u, p, v) /\ ~Silent(u, p)
    OBVIOUS
  <2>1. n + 1 \in DOMAIN u /\ p \in DOMAIN u[n + 1]
    BY <1>1
  <2>2. ~Silent(u, p)
    BY <2>1 DEF Silent
  <2>3. ASSUME NEW i \in DOMAIN u,
               \A j \in DOMAIN u : j > i => p \notin DOMAIN u[j]
        PROVE  i = n + 1
    BY <1>1, <2>1, <2>3
  <2>4. Says(u, p, v)
    BY <1>1, <2>3 DEF Says
  <2>5. QED
    BY <2>2, <2>4
<1>3. ASSUME p \notin DOMAIN c, Says(w, p, v)
      PROVE  Says(u, p, v)
  <2> SUFFICES ASSUME NEW i \in DOMAIN u, p \in DOMAIN u[i],
                      \A j \in DOMAIN u : j > i => p \notin DOMAIN u[j]
               PROVE  u[i][p] = v
    BY DEF Says
  <2>1. i \in DOMAIN w /\ u[i] = w[i]
    BY <1>1, <1>3
  <2>2. \A j \in DOMAIN w : j > i => p \notin DOMAIN w[j]
    BY <1>1
  <2>3. QED
    BY <1>3, <2>1, <2>2 DEF Says
<1>4. p \notin DOMAIN c => (Silent(u, p) <=> Silent(w, p))
  BY <1>1 DEF Silent
<1>5. QED
  BY <1>1, <1>2, <1>3, <1>4 DEF u

\* Taking the first signal away.
LEMMA TailSays ==
  ASSUME NEW w \in Wires, w # <<>>, NEW p \in Paths, NEW v
  PROVE  /\ Tail(w) \in Wires /\ Head(w) \in Signal
         /\ Says(w, p, v) => Says(Tail(w), p, v)
         /\ Silent(Tail(w), p) /\ p \notin DOMAIN Head(w) => Silent(w, p)
         /\ Silent(Tail(w), p) /\ p \in DOMAIN Head(w) /\ Says(w, p, v)
              => Head(w)[p] = v
         /\ Silent(w, p) => Silent(Tail(w), p)
<1> DEFINE t == Tail(w)
           n == Len(w)
<1>1. /\ t \in Wires /\ n \in Nat /\ n > 0
      /\ DOMAIN w = 1 .. n /\ DOMAIN t = 1 .. n - 1
      /\ Head(w) = w[1] /\ w[1] \in Signal
      /\ \A i \in 1 .. n - 1 : t[i] = w[i + 1]
  BY DEF Wires
<1> HIDE DEF t, n
<1>2. ASSUME Says(w, p, v)
      PROVE  Says(t, p, v)
  <2> SUFFICES ASSUME NEW i \in DOMAIN t, p \in DOMAIN t[i],
                      \A j \in DOMAIN t : j > i => p \notin DOMAIN t[j]
               PROVE  t[i][p] = v
    BY DEF Says
  <2>1. i + 1 \in DOMAIN w /\ t[i] = w[i + 1]
    BY <1>1
  <2>2. ASSUME NEW j \in DOMAIN w, j > i + 1
        PROVE  p \notin DOMAIN w[j]
    <3>1. j - 1 \in DOMAIN t /\ j - 1 > i /\ t[j - 1] = w[j]
      BY <1>1, <2>2
    <3>2. QED
      BY <3>1
  <2>3. QED
    BY <1>2, <2>1, <2>2 DEF Says
<1>3. Silent(t, p) => \A j \in DOMAIN w : j > 1 => p \notin DOMAIN w[j]
  <2> SUFFICES ASSUME Silent(t, p), NEW j \in DOMAIN w, j > 1
               PROVE  p \notin DOMAIN w[j]
    OBVIOUS
  <2>1. j - 1 \in DOMAIN t /\ t[j - 1] = w[j]
    BY <1>1
  <2>2. QED
    BY <2>1 DEF Silent
<1>4. Silent(t, p) /\ p \notin DOMAIN w[1] => Silent(w, p)
  BY <1>1, <1>3 DEF Silent
<1>5. 1 \in DOMAIN w
  BY <1>1
<1>6. Silent(t, p) /\ p \in DOMAIN w[1] /\ Says(w, p, v) => w[1][p] = v
  BY <1>3, <1>5 DEF Says
<1>7. Silent(w, p) => Silent(t, p)
  BY <1>1 DEF Silent
<1>8. QED
  BY <1>1, <1>2, <1>4, <1>6, <1>7 DEF t

\* Flushing changes c, which turn the values val into val2.
LEMMA FlushKeepsTold ==
  ASSUME NEW w \in Wires, NEW val \in Valuation, NEW val2 \in Valuation,
         NEW c \in News, Told(w, val),
         \A p \in Paths : val2[p] = IF p \in DOMAIN c THEN c[p] ELSE val[p]
  PROVE  /\ w \o Flushed(c) \in Wires
         /\ Told(w \o Flushed(c), val2)
         /\ \A p \in Paths : Silent(w \o Flushed(c), p)
              => Silent(w, p) /\ val2[p] = val[p]
         /\ \A p \in Paths \ DOMAIN c : Silent(w, p) => Silent(w \o Flushed(c), p)
<1>1. CASE DOMAIN c = {}
  <2>1. Flushed(c) = <<>>
    BY <1>1 DEF Flushed
  <2>2. w \o Flushed(c) = w
    BY <2>1 DEF Wires
  <2>3. \A p \in Paths : val2[p] = val[p]
    BY <1>1
  <2>4. Told(w, val2)
    BY <2>3 DEF Told
  <2>5. QED
    BY <2>2, <2>3, <2>4
<1>2. CASE DOMAIN c # {}
  <2>1. c \in Signal /\ Flushed(c) = <<c>>
    BY <1>2, NewsFacts DEF Flushed
  <2>2. ASSUME NEW p \in Paths
        PROVE  /\ w \o <<c>> \in Wires
               /\ Says(w \o <<c>>, p, val2[p])
               /\ Silent(w \o <<c>>, p) => Silent(w, p) /\ val2[p] = val[p]
               /\ p \notin DOMAIN c /\ Silent(w, p) => Silent(w \o <<c>>, p)
    <3>1. Says(w, p, val[p])
      BY DEF Told
    <3>2. CASE p \in DOMAIN c
      <4>1. c[p] = val2[p]
        BY <3>2
      <4>2. QED
        BY <2>1, <3>2, <4>1, AppendSays
    <3>3. CASE p \notin DOMAIN c
      <4>1. val2[p] = val[p]
        BY <3>3
      <4>2. QED
        BY <2>1, <3>1, <3>3, <4>1, AppendSays
    <3>4. QED
      BY <3>2, <3>3
  <2>3. w \o <<c>> \in Wires
    BY <2>1 DEF Wires
  <2>4. Told(w \o <<c>>, val2)
    BY <2>2 DEF Told
  <2>5. QED
    BY <2>1, <2>2, <2>3, <2>4
<1>3. QED
  BY <1>1, <1>2

\* A scan and the signal of its changes.
LEMMA ItemsKeepTold ==
  ASSUME NEW w \in Wires, NEW val \in Valuation, NEW s \in Scans,
         tracked \subseteq Paths, Told(w, val), Hush(w)
  PROVE  LET w2 == w \o ItemsHeard(Changes(val, s)) IN
         /\ Over(s, val) \in Valuation
         /\ w2 \in Wires /\ Told(w2, Over(s, val)) /\ Hush(w2)
         /\ Kept(w, val, w2, Over(s, val))
<1> DEFINE c == Changes(val, s)
           val2 == Over(s, val)
           w2 == w \o ItemsHeard(c)
<1>1. DOMAIN s \subseteq Paths \ {Redetect}
  BY ConstantsAssumption
<1>2. \A p \in DOMAIN s : s[p] \in Values
  BY DEF Values, Written
<1>3. val2 \in Valuation
  BY <1>2 DEF Over, Valuation
<1>4. /\ DOMAIN c \subseteq DOMAIN s
      /\ \A p \in DOMAIN c : c[p] = s[p]
      /\ \A p \in DOMAIN s : p \notin DOMAIN c => s[p] = val[p]
  BY DEF Changes
<1>5. c \in [DOMAIN c -> Values]
  <2>1. c = [p \in DOMAIN c |-> c[p]]
    BY DEF Changes
  <2>2. \A p \in DOMAIN c : c[p] \in Values
    BY <1>2, <1>4
  <2> HIDE DEF c
  <2>3. QED
    BY <2>1, <2>2
<1>6. c \in News
  BY <1>1, <1>4, <1>5 DEF News
<1>7. \A p \in Paths : val2[p] = IF p \in DOMAIN c THEN c[p] ELSE val[p]
  <2>1. \A p \in Paths : val2[p] = IF p \in DOMAIN s THEN s[p] ELSE val[p]
    BY DEF Over
  <2> HIDE DEF c, val2
  <2>2. QED
    BY <1>4, <2>1
<1>8. CASE tracked = {}
  <2>1. w2 = w /\ w = <<>>
    BY <1>8 DEF ItemsHeard, Wires, Hush
  <2>2. Told(<<>>, val2)
    BY DEF Told, Says
  <2> HIDE DEF w2, val2, c
  <2>3. QED
    BY <1>3, <1>8, <2>1, <2>2 DEF Kept, w2, c, val2
<1>9. CASE tracked # {}
  <2>1. w2 = w \o Flushed(c)
    BY <1>9 DEF ItemsHeard
  <2> HIDE DEF w2, val2, c
  <2>2. /\ w2 \in Wires /\ Told(w2, val2)
        /\ \A p \in Paths : Silent(w2, p) => Silent(w, p) /\ val2[p] = val[p]
        /\ \A p \in Paths \ DOMAIN c : Silent(w, p) => Silent(w2, p)
    BY <1>3, <1>6, <1>7, <2>1, FlushKeepsTold
  <2>3. Redetect \in Paths \ DOMAIN c
    BY <1>1, <1>4, ConstantsAssumption
  <2>4. Hush(w2)
    BY <1>9, <2>2, <2>3 DEF Hush
  <2>5. Kept(w, val, w2, val2)
    BY <2>2 DEF Kept
  <2>6. QED
    BY <1>3, <2>2, <2>4, <2>5 DEF w2, c, val2
<1>10. QED
  BY <1>8, <1>9

\* /\Redetect and the signal of its change; c says so or says nothing.
LEMMA PropertyKeepsTold ==
  ASSUME NEW w \in Wires, NEW val \in Valuation, NEW v \in Values, NEW c,
         c = RedetectIs(v) \/ c = Changes(val, RedetectIs(v)),
         tracked \subseteq Paths, Told(w, val), Hush(w)
  PROVE  LET w2 == w \o PropertyHeard(c)
             val2 == Over(RedetectIs(v), val) IN
         /\ val2 \in Valuation
         /\ w2 \in Wires /\ Told(w2, val2) /\ Hush(w2)
         /\ Kept(w, val, w2, val2)
<1> DEFINE val2 == Over(RedetectIs(v), val)
           w2 == w \o PropertyHeard(c)
<1>1. Redetect \in Paths
  BY ConstantsAssumption
<1>2. val2 \in Valuation
  BY DEF Over, RedetectIs, Valuation
<1>3. \A p \in Paths : val2[p] = IF p = Redetect THEN v ELSE val[p]
  BY DEF Over, RedetectIs
<1>4. /\ DOMAIN c \subseteq {Redetect}
      /\ Redetect \in DOMAIN c => c[Redetect] = v
      /\ Redetect \notin DOMAIN c => val[Redetect] = v
      /\ c = [p \in DOMAIN c |-> c[p]]
  BY DEF Changes, RedetectIs
<1>5. c \in [DOMAIN c -> Values]
  BY <1>4
<1>6. c \in News
  BY <1>1, <1>4, <1>5 DEF News
<1>7. \A p \in Paths : val2[p] = IF p \in DOMAIN c THEN c[p] ELSE val[p]
  <2> HIDE DEF val2
  <2>1. QED
    BY <1>3, <1>4
<1> HIDE DEF val2, w2
<1>8. CASE DOMAIN c \subseteq tracked
  <2>1. w2 = w \o Flushed(c)
    BY <1>8 DEF PropertyHeard, w2
  <2>2. /\ w2 \in Wires /\ Told(w2, val2)
        /\ \A p \in Paths : Silent(w2, p) => Silent(w, p) /\ val2[p] = val[p]
        /\ \A p \in Paths \ DOMAIN c : Silent(w, p) => Silent(w2, p)
    BY <1>2, <1>6, <1>7, <2>1, FlushKeepsTold
  <2>3. ASSUME tracked = {}
        PROVE  w2 = <<>>
    <3>1. Flushed(c) = <<>> /\ w = <<>>
      BY <1>8, <2>3 DEF Flushed, Hush
    <3>2. QED
      BY <2>1, <3>1
  <2>4. Redetect \notin tracked => Silent(w2, Redetect)
    BY <1>1, <1>8, <2>2 DEF Hush
  <2>5. QED
    BY <1>2, <2>2, <2>3, <2>4 DEF Hush, Kept, w2, val2
<1>9. CASE ~(DOMAIN c \subseteq tracked)
  <2>1. w2 = w
    BY <1>9 DEF PropertyHeard, w2, Wires
  <2>2. Redetect \notin tracked
    BY <1>4, <1>9
  <2>3. Silent(w, Redetect)
    BY <2>2 DEF Hush
  <2>4. Says(w, Redetect, val2[Redetect])
    BY <2>3 DEF Silent, Says
  <2>5. \A p \in Paths : Says(w, p, val2[p])
    BY <1>3, <2>4 DEF Told
  <2>6. Kept(w, val, w, val2)
    BY <1>3, <2>2 DEF Kept
  <2>7. QED
    BY <1>2, <2>1, <2>5, <2>6 DEF Told, w2, val2
<1>10. QED
  BY <1>8, <1>9 DEF w2, val2

----------------------------------------------------------------------------
(* The invariant.                                                          *)

\* At most one waiting call is waited for: the one the reader is in.
CallsInv ==
  /\ \A i \in DOMAIN calls : calls[i].wanted =>
       /\ doing # Idle /\ reply = NoReply
       /\ calls[i].path = doing[2]
       /\ calls[i].method = "GetValue" <=> doing[1] # "setting"
  /\ \A i, j \in DOMAIN calls : calls[i].wanted /\ calls[j].wanted => i = j

\* While the service is down the reader knows nothing of it.
DownInv ==
  service = "down" =>
    /\ calls = <<>> /\ wire = <<>> /\ doing = Idle /\ tracked \subseteq unread

\* An importer of which nothing waits has the value of its path.
CacheInv == \A p \in tracked \ unread : Silent(wire, p) => cache[p] = value[p]

\* So has a reply the reader has not taken.
ReplyInv ==
  /\ doing = Idle => reply = NoReply
  /\ doing # Idle =>
       /\ doing[2] \in tracked
       /\ doing[1] # "setting" /\ reply # NoReply =>
            /\ reply[1] \in Values
            /\ Silent(wire, doing[2]) => reply[1] = value[doing[2]]

WireInv == Told(wire, value) /\ Hush(wire)

MirrorInv == TypeOK /\ CallsInv /\ DownInv /\ WireInv /\ CacheInv /\ ReplyInv

LEMMA ValuesFacts ==
  /\ Unknown \in Values /\ 0 \in Values /\ Presses \subseteq Values
  /\ Default \in Valuation
<1>1. \A p \in Paths : Default[p] \in Values
  BY DEF Values
<1>2. Default = [p \in Paths |-> Default[p]]
  BY ConstantsAssumption
<1>3. QED
  BY ConstantsAssumption, <1>1, <1>2 DEF Values, Valuation

LEMMA EmptyWire ==
  ASSUME NEW val
  PROVE  <<>> \in Wires /\ Told(<<>>, val) /\ Hush(<<>>)
BY DEF Wires, Told, Says, Hush, Silent

LEMMA MirrorInit == Init => MirrorInv
<1> SUFFICES ASSUME Init PROVE MirrorInv
  OBVIOUS
<1>1. /\ service = "down" /\ value = Default /\ resets = 0
      /\ calls = <<>> /\ tracked = {} /\ unread = {}
      /\ cache = [p \in Paths |-> Unknown]
      /\ wire = <<>> /\ doing = Idle /\ reply = NoReply /\ steady = FALSE
  BY DEF Init
<1>2. calls \in Seq(Call) /\ DOMAIN calls = {}
  BY <1>1
<1>3. TypeOK
  BY <1>1, <1>2, ValuesFacts, EmptyWire DEF TypeOK, Valuation, Wires, Doing
<1>4. WireInv
  BY <1>1, EmptyWire DEF WireInv
<1>5. CallsInv /\ DownInv /\ CacheInv /\ ReplyInv
  BY <1>1, <1>2 DEF CallsInv, DownInv, CacheInv, ReplyInv
<1>6. QED
  BY <1>3, <1>4, <1>5 DEF MirrorInv

\* What an answered call leaves waiting.
LEMMA AnswerFacts ==
  ASSUME MirrorInv, NEW method, NEW r, Answer(method, r), service # "down"
  PROVE  /\ Head(calls) \in Call /\ Head(calls).method = method
         /\ calls' \in Seq(Call)
         /\ CallsInv'
         /\ Head(calls).wanted =>
              /\ doing # Idle /\ reply' = <<r>>
              /\ Head(calls).path = doing[2]
              /\ method = "GetValue" <=> doing[1] # "setting"
         /\ ~Head(calls).wanted => reply' = reply
<1> DEFINE n == Len(calls)
<1>1. /\ calls \in Seq(Call) /\ calls # <<>> /\ Head(calls).method = method
      /\ calls' = Tail(calls) /\ UNCHANGED doing
      /\ reply' = IF Head(calls).wanted THEN <<r>> ELSE reply
  BY DEF Answer, MirrorInv, TypeOK
<1>2. /\ n \in Nat /\ n > 0 /\ DOMAIN calls = 1 .. n
      /\ Head(calls) = calls[1] /\ Head(calls) \in Call
      /\ Tail(calls) \in Seq(Call) /\ DOMAIN Tail(calls) = 1 .. n - 1
      /\ \A i \in 1 .. n - 1 : Tail(calls)[i] = calls[i + 1]
  BY <1>1
<1> HIDE DEF n
<1>3. CallsInv
  BY DEF MirrorInv
<1>4. Head(calls).wanted =>
        /\ doing # Idle /\ reply' = <<r>>
        /\ Head(calls).path = doing[2]
        /\ method = "GetValue" <=> doing[1] # "setting"
  BY <1>1, <1>2, <1>3 DEF CallsInv
<1>5. ASSUME NEW i \in 1 .. n - 1, Tail(calls)[i].wanted
      PROVE  /\ ~Head(calls).wanted
             /\ doing # Idle /\ reply = NoReply
             /\ Tail(calls)[i].path = doing[2]
             /\ Tail(calls)[i].method = "GetValue" <=> doing[1] # "setting"
  <2>1. i + 1 \in DOMAIN calls /\ 1 \in DOMAIN calls /\ calls[i + 1].wanted /\ i + 1 # 1
    BY <1>2, <1>5
  <2>2. ~calls[1].wanted
    BY <1>3, <2>1 DEF CallsInv
  <2>3. Tail(calls)[i] = calls[i + 1]
    BY <1>2
  <2>4. QED
    BY <1>2, <1>3, <2>1, <2>2, <2>3 DEF CallsInv
<1>6. ASSUME NEW i \in 1 .. n - 1, NEW j \in 1 .. n - 1,
             Tail(calls)[i].wanted, Tail(calls)[j].wanted
      PROVE  i = j
  <2>1. i + 1 \in DOMAIN calls /\ j + 1 \in DOMAIN calls
        /\ calls[i + 1].wanted /\ calls[j + 1].wanted
    BY <1>2, <1>6
  <2>2. i + 1 = j + 1
    BY <1>3, <2>1 DEF CallsInv
  <2>3. QED
    BY <2>2
<1>7. CallsInv'
  BY <1>1, <1>2, <1>5, <1>6 DEF CallsInv
<1>8. QED
  BY <1>1, <1>2, <1>4, <1>7

\* A step of the service that keeps what waits at the reader true.
LEMMA ServiceKeepsMirror ==
  ASSUME MirrorInv, UNCHANGED <<tracked, unread, cache, doing>>,
         Told(wire', value'), Hush(wire'), Kept(wire, value, wire', value'),
         reply' = reply \/ (doing # Idle /\ doing[1] = "setting")
  PROVE  WireInv' /\ CacheInv' /\ ReplyInv'
<1>1. WireInv'
  BY DEF WireInv, Hush
<1>2. CacheInv'
  BY DEF CacheInv, MirrorInv, Kept
<1>3. ReplyInv'
  BY DEF ReplyInv, MirrorInv, Kept
<1>4. QED
  BY <1>1, <1>2, <1>3

----------------------------------------------------------------------------
(* The steps of the service.                                               *)

LEMMA WireTypes ==
  ASSUME MirrorInv
  PROVE  /\ wire \in Wires /\ value \in Valuation /\ tracked \subseteq Paths
         /\ Told(wire, value) /\ Hush(wire)
BY DEF MirrorInv, TypeOK, WireInv, Wires, Valuation

LEMMA RegisterStep ==
  ASSUME MirrorInv, Register
  PROVE  MirrorInv'
<1>1. /\ service = "down" /\ service' = "registered"
      /\ value' = Default /\ resets' = 0
      /\ UNCHANGED <<calls, tracked, unread, cache, wire, doing, reply, steady>>
  BY DEF Register, mirrorVars, callerVars
<1>2. calls = <<>> /\ wire = <<>> /\ doing = Idle /\ tracked \subseteq unread
  BY <1>1 DEF MirrorInv, DownInv
<1>3. TypeOK'
  BY <1>1, ValuesFacts DEF MirrorInv, TypeOK, Valuation
<1>4. CallsInv' /\ DownInv' /\ CacheInv' /\ ReplyInv'
  BY <1>1, <1>2 DEF MirrorInv, CallsInv, DownInv, CacheInv, ReplyInv
<1>5. WireInv'
  BY <1>1, <1>2, EmptyWire DEF WireInv, Hush
<1>6. QED
  BY <1>3, <1>4, <1>5 DEF MirrorInv

\* Both kinds of cycle.
LEMMA UpdateStep ==
  ASSUME MirrorInv, service # "down", service' \in {"registered", "running"},
         NEW s \in Scans, Update(s),
         UNCHANGED <<resets, calls, tracked, unread, cache, doing, reply, steady>>
  PROVE  MirrorInv'
<1>1. /\ wire' \in Wires /\ value' \in Valuation
      /\ Told(wire', value') /\ Hush(wire')
      /\ Kept(wire, value, wire', value')
  BY WireTypes, ItemsKeepTold DEF Update
<1>2. WireInv' /\ CacheInv' /\ ReplyInv'
  BY <1>1, ServiceKeepsMirror
<1>3. TypeOK'
  BY <1>1 DEF MirrorInv, TypeOK, Wires, Valuation
<1>4. CallsInv' /\ DownInv'
  BY DEF MirrorInv, CallsInv, DownInv
<1>5. QED
  BY <1>2, <1>3, <1>4 DEF MirrorInv

LEMMA ResetStep ==
  ASSUME MirrorInv, ResetRedetect
  PROVE  MirrorInv'
<1>1. /\ service = "running" /\ resets > 0 /\ resets' = resets - 1
      /\ value' = Over(RedetectIs(0), value)
      /\ wire' = wire \o PropertyHeard(Changes(value, RedetectIs(0)))
      /\ UNCHANGED <<service, calls, tracked, unread, cache, doing, reply, steady>>
  BY DEF ResetRedetect, mirrorVars, callerVars
<1>2. /\ wire' \in Wires /\ value' \in Valuation
      /\ Told(wire', value') /\ Hush(wire')
      /\ Kept(wire, value, wire', value')
  BY <1>1, WireTypes, ValuesFacts, PropertyKeepsTold
<1>3. WireInv' /\ CacheInv' /\ ReplyInv'
  BY <1>1, <1>2, ServiceKeepsMirror
<1>4. resets' \in Nat
  BY <1>1 DEF MirrorInv, TypeOK
<1>5. TypeOK'
  BY <1>1, <1>2, <1>4 DEF MirrorInv, TypeOK, Wires, Valuation
<1>6. CallsInv' /\ DownInv'
  BY <1>1 DEF MirrorInv, CallsInv, DownInv
<1>7. QED
  BY <1>3, <1>5, <1>6 DEF MirrorInv

LEMMA AnswerGetStep ==
  ASSUME MirrorInv, AnswerGet
  PROVE  MirrorInv'
<1> DEFINE p == Head(calls).path
<1>1. /\ service = "running" /\ Answer("GetValue", value[p])
      /\ UNCHANGED <<service, value, resets, wire, tracked, unread, cache, doing, steady>>
  BY DEF AnswerGet, Answer, mirrorVars
<1>2. service # "down"
  BY <1>1
<1>3. /\ Head(calls) \in Call /\ calls' \in Seq(Call) /\ CallsInv'
      /\ Head(calls).wanted =>
           doing # Idle /\ reply' = <<value[p]>> /\ p = doing[2] /\ doing[1] # "setting"
      /\ ~Head(calls).wanted => reply' = reply
  BY <1>1, <1>2, AnswerFacts
<1>4. p \in Paths /\ value[p] \in Values /\ Head(calls).wanted \in BOOLEAN
  BY <1>3 DEF Call, MirrorInv, TypeOK
<1> HIDE DEF p
<1>5. TypeOK'
  BY <1>1, <1>3, <1>4 DEF MirrorInv, TypeOK
<1>6. ReplyInv'
  BY <1>1, <1>3, <1>4 DEF MirrorInv, ReplyInv, Silent
<1>7. WireInv' /\ CacheInv' /\ DownInv'
  BY <1>1 DEF MirrorInv, WireInv, Hush, CacheInv, DownInv
<1>8. QED
  BY <1>3, <1>5, <1>6, <1>7 DEF MirrorInv

\* Every answered SetValue, whatever it has changed.
LEMMA AnswerSetStep ==
  ASSUME MirrorInv, NEW r \in {0, 1}, Answer("SetValue", r),
         wire' \in Wires, value' \in Valuation, resets' \in Nat,
         Told(wire', value'), Hush(wire'), Kept(wire, value, wire', value')
  PROVE  MirrorInv'
<1>1. /\ service = "running"
      /\ UNCHANGED <<service, tracked, unread, cache, doing, steady>>
  BY DEF Answer, mirrorVars
<1>2. service # "down"
  BY <1>1
<1>3. /\ Head(calls) \in Call /\ calls' \in Seq(Call) /\ CallsInv'
      /\ Head(calls).wanted => reply' = <<r>> /\ doing # Idle /\ doing[1] = "setting"
      /\ ~Head(calls).wanted => reply' = reply
  BY <1>2, AnswerFacts
<1>4. Head(calls).wanted \in BOOLEAN
  BY <1>3 DEF Call
<1>5. WireInv' /\ CacheInv' /\ ReplyInv'
  BY <1>1, <1>3, <1>4, ServiceKeepsMirror
<1>6. TypeOK'
  BY <1>1, <1>3, <1>4 DEF MirrorInv, TypeOK, Wires, Valuation
<1>7. DownInv'
  BY <1>1 DEF DownInv
<1>8. QED
  BY <1>3, <1>5, <1>6, <1>7 DEF MirrorInv

LEMMA KeptTransitive ==
  ASSUME NEW w, NEW v, NEW w2, NEW v2,
         Kept(wire, value, w, v), Kept(w, v, w2, v2)
  PROVE  Kept(wire, value, w2, v2)
BY DEF Kept

LEMMA AnswerSetSteps ==
  ASSUME MirrorInv, AnswerSet
  PROVE  MirrorInv'
<1>1. calls \in Seq(Call) /\ resets \in Nat
  BY DEF MirrorInv, TypeOK
<1>2. CASE AnswerSetRefused \/ AnswerSetSame
  <2>1. /\ UNCHANGED <<value, resets, wire>>
        /\ \E r \in {0, 1} : Answer("SetValue", r)
    BY <1>2 DEF AnswerSetRefused, AnswerSetSame
  <2>2. UNCHANGED tracked
    BY <2>1 DEF Answer, mirrorVars
  <2>3. /\ wire' \in Wires /\ value' \in Valuation /\ resets' \in Nat
        /\ Told(wire', value') /\ Hush(wire') /\ Kept(wire, value, wire', value')
    BY <1>1, <2>1, WireTypes DEF Kept
  <2>4. QED
    BY <2>1, <2>3, AnswerSetStep
<1>3. CASE AnswerSetClear
  <2>1. /\ Answer("SetValue", 0)
        /\ value' = Over(RedetectIs(0), value)
        /\ wire' = wire \o PropertyHeard(RedetectIs(0))
        /\ resets' = resets
    BY <1>3 DEF AnswerSetClear
  <2>2. /\ wire' \in Wires /\ value' \in Valuation
        /\ Told(wire', value') /\ Hush(wire') /\ Kept(wire, value, wire', value')
    BY <2>1, WireTypes, ValuesFacts, PropertyKeepsTold
  <2>3. QED
    BY <1>1, <2>1, <2>2, AnswerSetStep
<1>4. CASE AnswerSetRescan
  <2> DEFINE v == Head(calls).value
  <2>1. Answer("SetValue", 0) /\ resets' = resets + 1 /\ calls # <<>>
    BY <1>4 DEF AnswerSetRescan
  <2>2. PICK s \in Scans :
          /\ value' = Over(RedetectIs(v), Over(s, value))
          /\ wire' = (wire \o ItemsHeard(Changes(value, s))) \o PropertyHeard(RedetectIs(v))
    BY <1>4 DEF AnswerSetRescan
  <2>3. v \in Values
    <3>1. Head(calls) \in Call
      BY <1>1, <2>1
    <3>2. QED
      BY <3>1 DEF Call
  <2> HIDE DEF v
  <2> DEFINE w1 == wire \o ItemsHeard(Changes(value, s))
             v1 == Over(s, value)
  <2>4. /\ w1 \in Wires /\ v1 \in Valuation /\ Told(w1, v1) /\ Hush(w1)
        /\ Kept(wire, value, w1, v1)
    BY WireTypes, ItemsKeepTold
  <2>5. wire' = w1 \o PropertyHeard(RedetectIs(v)) /\ value' = Over(RedetectIs(v), v1)
    BY <2>2
  <2> HIDE DEF w1, v1
  <2>6. /\ wire' \in Wires /\ value' \in Valuation
        /\ Told(wire', value') /\ Hush(wire') /\ Kept(w1, v1, wire', value')
    BY <2>3, <2>4, <2>5, WireTypes, PropertyKeepsTold
  <2>7. Kept(wire, value, wire', value')
    BY <2>4, <2>6, KeptTransitive
  <2>8. resets' \in Nat
    BY <1>1, <2>1
  <2>9. QED
    BY <2>1, <2>6, <2>7, <2>8, AnswerSetStep
<1>5. QED
  BY <1>2, <1>3, <1>4 DEF AnswerSet

LEMMA ForgetStep ==
  ASSUME MirrorInv, Forget, UNCHANGED value, resets' \in Nat, calls' \in Seq(Call),
         service' \in {"down", "registered", "running"},
         doing' = Idle, reply' = NoReply,
         CallsInv', service' = "down" => calls' = <<>>
  PROVE  MirrorInv'
<1>1. /\ tracked' = {} /\ unread' = {} /\ cache' = [p \in Paths |-> Unknown]
      /\ wire' = <<>> /\ steady' = FALSE
  BY DEF Forget
<1>2. TypeOK'
  BY <1>1, ValuesFacts, EmptyWire DEF MirrorInv, TypeOK, Wires, Doing
<1>3. WireInv'
  BY <1>1 DEF WireInv, Told, Says, Hush, Silent
<1>4. DownInv' /\ CacheInv' /\ ReplyInv'
  BY <1>1 DEF DownInv, CacheInv, ReplyInv
<1>5. QED
  BY <1>2, <1>3, <1>4 DEF MirrorInv

----------------------------------------------------------------------------
(* The steps of the reader, and both restarts.                             *)

LEMMA KillStep ==
  ASSUME MirrorInv, Kill
  PROVE  MirrorInv'
<1>1. /\ service' = "down" /\ resets' = 0 /\ calls' = <<>>
      /\ doing' = Idle /\ reply' = NoReply /\ Forget /\ UNCHANGED value
  BY DEF Kill
<1>2. calls' \in Seq(Call) /\ CallsInv'
  BY <1>1 DEF CallsInv
<1>3. QED
  BY <1>1, <1>2, ForgetStep

LEMMA StartOverStep ==
  ASSUME MirrorInv, StartOver
  PROVE  MirrorInv'
<1>1. /\ doing = Idle /\ Forget
      /\ UNCHANGED <<service, value, resets, calls, doing, reply>>
  BY DEF StartOver, serviceVars, callerVars
<1>2. CallsInv'
  BY <1>1 DEF MirrorInv, CallsInv
<1>3. reply' = NoReply
  BY <1>1 DEF MirrorInv, ReplyInv
<1>4. /\ resets' \in Nat /\ calls' \in Seq(Call)
      /\ service' \in {"down", "registered", "running"}
      /\ service' = "down" => calls' = <<>>
  BY <1>1 DEF MirrorInv, TypeOK, DownInv
<1>5. QED
  BY <1>1, <1>2, <1>3, <1>4, ForgetStep

\* A call the reader makes while it is in none.
LEMMA AskFacts ==
  ASSUME MirrorInv, doing = Idle \/ reply # NoReply,
         NEW method \in Methods, NEW p \in Paths, NEW v \in Values, NEW what,
         Ask(method, p, v), doing' = <<what, p>>, reply' = NoReply,
         method = "GetValue" <=> what # "setting"
  PROVE  calls' \in Seq(Call) /\ CallsInv'
<1> DEFINE c == [method |-> method, path |-> p, value |-> v, wanted |-> TRUE]
           n == Len(calls)
<1>1. c \in Call /\ calls \in Seq(Call) /\ calls' = Append(calls, c)
  BY DEF Ask, Call, MirrorInv, TypeOK
<1>2. c.method = method /\ c.path = p /\ c.wanted
  OBVIOUS
<1> HIDE DEF c
<1>3. /\ n \in Nat /\ DOMAIN calls = 1 .. n
      /\ calls' \in Seq(Call) /\ DOMAIN calls' = 1 .. n + 1
      /\ calls'[n + 1] = c /\ \A i \in 1 .. n : calls'[i] = calls[i]
  BY <1>1
<1> HIDE DEF n
<1>4. \A i \in 1 .. n : ~calls[i].wanted
  BY <1>3 DEF MirrorInv, CallsInv
<1>5. ASSUME NEW i \in 1 .. n + 1, calls'[i].wanted
      PROVE  i = n + 1 /\ calls'[i] = c
  BY <1>3, <1>4, <1>5
<1>6. /\ doing' # Idle /\ reply' = NoReply
      /\ c.path = doing'[2]
      /\ c.method = "GetValue" <=> doing'[1] # "setting"
  BY <1>2 DEF Idle
<1>7. CallsInv'
  BY <1>3, <1>5, <1>6 DEF CallsInv
<1>8. QED
  BY <1>3, <1>7

LEMMA ImportStep ==
  ASSUME MirrorInv, NEW p \in Paths, Import(p)
  PROVE  MirrorInv'
<1>1. /\ doing = Idle /\ p \notin tracked /\ service # "down"
      /\ tracked' = tracked \cup {p} /\ unread' = unread \cup {p}
      /\ cache' = [cache EXCEPT ![p] = Unknown]
      /\ Ask("GetValue", p, Unknown) /\ doing' = <<"reading", p>>
      /\ UNCHANGED <<service, value, resets, wire, reply, steady>>
  BY DEF Import, serviceVars
<1>2. reply = NoReply
  BY <1>1 DEF MirrorInv, ReplyInv
<1>3. calls' \in Seq(Call) /\ CallsInv'
  BY <1>1, <1>2, AskFacts, ValuesFacts DEF Methods
<1>4. /\ tracked' \subseteq Paths /\ unread' \subseteq tracked'
      /\ cache' \in [Paths -> Values] /\ doing' \in Doing
  BY <1>1, ValuesFacts DEF MirrorInv, TypeOK, Doing
<1>5. TypeOK'
  BY <1>1, <1>3, <1>4 DEF MirrorInv, TypeOK
<1>6. WireInv'
  BY <1>1 DEF MirrorInv, WireInv, Hush
<1>7. CacheInv'
  <2> SUFFICES ASSUME NEW q \in tracked' \ unread', Silent(wire, q)
               PROVE  cache'[q] = value[q]
    BY <1>1 DEF CacheInv
  <2>1. q \in tracked \ unread /\ q # p /\ q \in Paths
    BY <1>1 DEF MirrorInv, TypeOK
  <2>2. cache'[q] = cache[q]
    BY <1>1, <2>1 DEF MirrorInv, TypeOK
  <2>3. QED
    BY <2>1, <2>2 DEF MirrorInv, CacheInv
<1>8. ReplyInv' /\ DownInv'
  BY <1>1, <1>2 DEF ReplyInv, DownInv, Idle
<1>9. QED
  BY <1>3, <1>5, <1>6, <1>7, <1>8 DEF MirrorInv

LEMMA ImportAbsentStep ==
  ASSUME MirrorInv, NEW p \in Paths, ImportAbsent(p)
  PROVE  MirrorInv'
<1>1. /\ doing = Idle /\ p \notin tracked /\ service = "down"
      /\ tracked' = tracked \cup {p} /\ unread' = unread \cup {p}
      /\ cache' = [cache EXCEPT ![p] = Unknown]
      /\ UNCHANGED <<service, value, resets, calls, wire, doing, reply, steady>>
  BY DEF ImportAbsent, serviceVars, callerVars
<1>2. tracked \subseteq unread /\ wire = <<>>
  BY <1>1 DEF MirrorInv, DownInv
<1>3. tracked' \subseteq unread'
  BY <1>1, <1>2
<1>4. /\ tracked' \subseteq Paths /\ unread' \subseteq tracked'
      /\ cache' \in [Paths -> Values]
  BY <1>1, ValuesFacts DEF MirrorInv, TypeOK
<1>5. TypeOK'
  BY <1>1, <1>4 DEF MirrorInv, TypeOK
<1>6. WireInv'
  BY <1>1, <1>2 DEF WireInv, Told, Says, Hush, Silent
<1>7. CacheInv' /\ DownInv' /\ CallsInv'
  BY <1>1, <1>2, <1>3 DEF MirrorInv, CacheInv, DownInv, CallsInv
<1>8. ReplyInv'
  BY <1>1 DEF MirrorInv, ReplyInv
<1>9. QED
  BY <1>5, <1>6, <1>7, <1>8 DEF MirrorInv

LEMMA PressStep ==
  ASSUME MirrorInv, NEW p \in Paths, NEW v \in Presses, Press(p, v)
  PROVE  MirrorInv'
<1>1. /\ doing = Idle /\ p \in tracked /\ service # "down"
      /\ Ask("SetValue", p, v) /\ doing' = <<"setting", p>>
      /\ UNCHANGED <<service, value, resets, tracked, unread, cache, wire, reply, steady>>
  BY DEF Press, serviceVars, mirrorVars
<1>2. reply = NoReply
  BY <1>1 DEF MirrorInv, ReplyInv
<1>3. calls' \in Seq(Call) /\ CallsInv'
  BY <1>1, <1>2, AskFacts, ValuesFacts DEF Methods
<1>4. doing' \in Doing
  BY <1>1 DEF Doing
<1>5. TypeOK'
  BY <1>1, <1>3, <1>4 DEF MirrorInv, TypeOK
<1>6. WireInv' /\ CacheInv'
  BY <1>1 DEF MirrorInv, WireInv, Hush, CacheInv
<1>7. ReplyInv' /\ DownInv'
  BY <1>1, <1>2 DEF ReplyInv, DownInv, Idle
<1>8. QED
  BY <1>3, <1>5, <1>6, <1>7 DEF MirrorInv

\* The reader is in a call for one path.
LEMMA DoingFacts ==
  ASSUME MirrorInv, doing # Idle
  PROVE  /\ doing[2] \in tracked /\ doing[2] \in Paths
         /\ service # "down"
BY DEF MirrorInv, TypeOK, ReplyInv, DownInv

\* Nothing waits for a reply once it is there.
LEMMA TakenFacts ==
  ASSUME MirrorInv, reply # NoReply, UNCHANGED calls
  PROVE  CallsInv'
BY DEF MirrorInv, CallsInv

LEMMA TakeValueStep ==
  ASSUME MirrorInv, TakeValue
  PROVE  MirrorInv'
<1> DEFINE p == doing[2]
<1>1. /\ doing # Idle /\ doing[1] # "setting" /\ reply # NoReply
      /\ cache' = [cache EXCEPT ![p] = reply[1]]
      /\ unread' = unread \ {p}
      /\ doing' = Idle /\ reply' = NoReply
      /\ UNCHANGED <<service, value, resets, calls, tracked, wire>>
  BY DEF TakeValue, serviceVars
<1>2. /\ p \in tracked /\ p \in Paths /\ service # "down"
      /\ reply[1] \in Values /\ (Silent(wire, p) => reply[1] = value[p])
  BY <1>1, DoingFacts DEF MirrorInv, ReplyInv
<1>3. steady' \in BOOLEAN
  BY DEF TakeValue, Latch, MirrorInv, TypeOK
<1> HIDE DEF p
<1>4. cache' \in [Paths -> Values] /\ unread' \subseteq tracked'
  BY <1>1, <1>2 DEF MirrorInv, TypeOK
<1>5. TypeOK'
  BY <1>1, <1>3, <1>4 DEF MirrorInv, TypeOK, Doing
<1>6. CacheInv'
  <2> SUFFICES ASSUME NEW q \in tracked' \ unread', Silent(wire, q)
               PROVE  cache'[q] = value[q]
    BY <1>1 DEF CacheInv
  <2>1. q \in Paths /\ q \in tracked /\ (q \notin unread \/ q = p)
    BY <1>1 DEF MirrorInv, TypeOK
  <2>2. cache'[q] = IF q = p THEN reply[1] ELSE cache[q]
    BY <1>1, <2>1 DEF MirrorInv, TypeOK
  <2>3. QED
    BY <1>2, <2>1, <2>2 DEF MirrorInv, CacheInv
<1>7. WireInv' /\ DownInv' /\ ReplyInv'
  BY <1>1, <1>2 DEF MirrorInv, WireInv, Hush, DownInv, ReplyInv
<1>8. CallsInv'
  BY <1>1, TakenFacts
<1>9. QED
  BY <1>5, <1>6, <1>7, <1>8 DEF MirrorInv

LEMMA TakeCodeStep ==
  ASSUME MirrorInv, TakeCode
  PROVE  MirrorInv'
<1> DEFINE p == doing[2]
<1>1. /\ doing # Idle /\ doing[1] = "setting" /\ reply # NoReply /\ reply' = NoReply
      /\ \/ Ask("GetValue", p, Unknown) /\ doing' = <<"refreshing", p>>
         \/ doing' = Idle /\ UNCHANGED calls
      /\ UNCHANGED <<service, value, resets, tracked, unread, cache, wire, steady>>
  BY DEF TakeCode, serviceVars, mirrorVars
<1>2. p \in tracked /\ p \in Paths /\ service # "down"
  BY <1>1, DoingFacts
<1> HIDE DEF p
<1>3. calls' \in Seq(Call) /\ CallsInv'
  <2>1. CASE Ask("GetValue", p, Unknown) /\ doing' = <<"refreshing", p>>
    BY <1>1, <1>2, <2>1, AskFacts, ValuesFacts DEF Methods
  <2>2. CASE UNCHANGED calls
    BY <1>1, <2>2, TakenFacts DEF MirrorInv, TypeOK
  <2>3. QED
    BY <1>1, <2>1, <2>2
<1>4. doing' \in Doing
  BY <1>1, <1>2 DEF Doing
<1>5. TypeOK'
  BY <1>1, <1>3, <1>4 DEF MirrorInv, TypeOK
<1>6. WireInv' /\ CacheInv' /\ DownInv'
  BY <1>1, <1>2 DEF MirrorInv, WireInv, Hush, CacheInv, DownInv
<1>7. ReplyInv'
  BY <1>1, <1>2 DEF ReplyInv
<1>8. QED
  BY <1>3, <1>5, <1>6, <1>7 DEF MirrorInv

LEMMA CallFailsStep ==
  ASSUME MirrorInv, CallFails
  PROVE  MirrorInv'
<1> DEFINE n == Len(calls)
<1>1. /\ doing # Idle /\ reply = NoReply
      /\ calls' = [i \in DOMAIN calls |-> [calls[i] EXCEPT !.wanted = FALSE]]
      /\ doing' = Idle
      /\ UNCHANGED <<service, value, resets, tracked, unread, cache, wire, reply, steady>>
  BY DEF CallFails, serviceVars, mirrorVars
<1>2. /\ n \in Nat /\ DOMAIN calls = 1 .. n
      /\ \A i \in 1 .. n : calls[i] \in Call
  BY DEF MirrorInv, TypeOK
<1>3. \A i \in 1 .. n :
        /\ [calls[i] EXCEPT !.wanted = FALSE] \in Call
        /\ ~[calls[i] EXCEPT !.wanted = FALSE].wanted
  BY <1>2 DEF Call
<1> HIDE DEF n
<1>4. calls' \in [1 .. n -> Call]
  BY <1>1, <1>2, <1>3
<1>5. calls' \in Seq(Call)
  BY <1>2, <1>4, SeqDef
<1>6. CallsInv'
  BY <1>1, <1>2, <1>3 DEF CallsInv
<1>7. service # "down"
  BY <1>1, DoingFacts
<1>8. TypeOK'
  BY <1>1, <1>5 DEF MirrorInv, TypeOK, Doing
<1>9. WireInv' /\ CacheInv' /\ DownInv' /\ ReplyInv'
  BY <1>1, <1>7 DEF MirrorInv, WireInv, Hush, CacheInv, DownInv, ReplyInv
<1>10. QED
  BY <1>6, <1>8, <1>9 DEF MirrorInv

LEMMA DispatchStep ==
  ASSUME MirrorInv, Dispatch
  PROVE  MirrorInv'
<1> DEFINE c == Head(wire)
           heard == DOMAIN c \cap tracked
<1>1. /\ doing = Idle /\ wire # <<>> /\ wire' = Tail(wire)
      /\ cache' = [p \in Paths |-> IF p \in heard THEN c[p] ELSE cache[p]]
      /\ unread' = unread \ heard
      /\ UNCHANGED <<service, value, resets, calls, tracked, doing, reply>>
  BY DEF Dispatch, serviceVars, callerVars
<1>2. steady' \in BOOLEAN
  BY DEF Dispatch, Latch, MirrorInv, TypeOK
<1>3. wire \in Wires /\ Told(wire, value) /\ Hush(wire)
  BY WireTypes
<1>4. ASSUME NEW p \in Paths
      PROVE  /\ wire' \in Wires /\ c \in Signal
             /\ Says(wire', p, value[p])
             /\ Silent(wire', p) /\ p \notin DOMAIN c => Silent(wire, p)
             /\ Silent(wire', p) /\ p \in DOMAIN c => c[p] = value[p]
             /\ Silent(wire, p) => Silent(wire', p)
  <2>1. Says(wire, p, value[p])
    BY <1>3 DEF Told
  <2>2. QED
    BY <1>1, <1>3, <2>1, TailSays
<1>5. wire' \in Wires /\ c \in Signal
  BY <1>4, ConstantsAssumption
<1>6. \A p \in DOMAIN c : c[p] \in Values
  BY <1>5, SignalFacts, NewsFacts
<1> HIDE DEF c
<1>7. cache' \in [Paths -> Values] /\ unread' \subseteq tracked'
  BY <1>1, <1>6 DEF MirrorInv, TypeOK
<1>8. TypeOK'
  BY <1>1, <1>2, <1>5, <1>7 DEF MirrorInv, TypeOK, Wires
<1>9. WireInv'
  <2>1. Told(wire', value')
    BY <1>1, <1>4 DEF Told
  <2>2. tracked # {}
    BY <1>1, <1>3 DEF Hush
  <2>3. Redetect \notin tracked => Silent(wire', Redetect)
    BY <1>3, <1>4, ConstantsAssumption DEF Hush
  <2>4. QED
    BY <1>1, <2>1, <2>2, <2>3 DEF WireInv, Hush
<1>10. CacheInv'
  <2> SUFFICES ASSUME NEW p \in tracked' \ unread', Silent(wire', p)
               PROVE  cache'[p] = value[p]
    BY <1>1 DEF CacheInv
  <2>1. p \in Paths /\ p \in tracked
    BY <1>1 DEF MirrorInv, TypeOK
  <2>2. CASE p \in DOMAIN c
    BY <1>1, <1>4, <2>1, <2>2
  <2>3. CASE p \notin DOMAIN c
    <3>1. p \notin unread /\ cache'[p] = cache[p]
      BY <1>1, <2>1, <2>3
    <3>2. QED
      BY <1>4, <2>1, <2>3, <3>1 DEF MirrorInv, CacheInv
  <2>4. QED
    BY <2>2, <2>3
<1>11. service # "down"
  BY <1>1 DEF MirrorInv, DownInv
<1>12. CallsInv' /\ DownInv' /\ ReplyInv'
  BY <1>1, <1>11 DEF MirrorInv, CallsInv, DownInv, ReplyInv
<1>13. QED
  BY <1>8, <1>9, <1>10, <1>12 DEF MirrorInv

LEMMA OthersSetStep ==
  ASSUME MirrorInv, NEW v \in Presses, OthersSet(v)
  PROVE  MirrorInv'
<1> DEFINE c == [method |-> "SetValue", path |-> Redetect, value |-> v, wanted |-> FALSE]
           n == Len(calls)
<1>1. /\ service # "down" /\ calls' = Append(calls, c)
      /\ UNCHANGED <<service, value, resets, tracked, unread, cache, wire, doing, reply, steady>>
  BY DEF OthersSet, serviceVars, mirrorVars, callerVars
<1>2. c \in Call /\ ~c.wanted /\ calls \in Seq(Call)
  BY ValuesFacts, ConstantsAssumption DEF Call, Methods, MirrorInv, TypeOK
<1> HIDE DEF c
<1>3. /\ n \in Nat /\ DOMAIN calls = 1 .. n
      /\ calls' \in Seq(Call) /\ DOMAIN calls' = 1 .. n + 1
      /\ calls'[n + 1] = c /\ \A i \in 1 .. n : calls'[i] = calls[i]
  BY <1>1, <1>2
<1> HIDE DEF n
<1>4. ASSUME NEW i \in 1 .. n + 1, calls'[i].wanted
      PROVE  i \in 1 .. n /\ calls'[i] = calls[i]
  BY <1>2, <1>3, <1>4
<1>5. CallsInv'
  BY <1>1, <1>3, <1>4 DEF MirrorInv, CallsInv
<1>6. TypeOK'
  BY <1>1, <1>3 DEF MirrorInv, TypeOK
<1>7. WireInv' /\ CacheInv' /\ DownInv' /\ ReplyInv'
  BY <1>1 DEF MirrorInv, WireInv, Hush, CacheInv, DownInv, ReplyInv
<1>8. QED
  BY <1>5, <1>6, <1>7 DEF MirrorInv

----------------------------------------------------------------------------
(* The theorems.                                                           *)

LEMMA MirrorStep == MirrorInv /\ [Next]_vars => MirrorInv'
<1> SUFFICES ASSUME MirrorInv, [Next]_vars PROVE MirrorInv'
  OBVIOUS
<1>1. CASE UNCHANGED vars
  <2>1. UNCHANGED <<service, value, resets, calls, tracked, unread, cache,
                    wire, doing, reply, steady>>
    BY <1>1 DEF vars, serviceVars, mirrorVars, callerVars
  <2>2. QED
    BY <2>1 DEF MirrorInv, TypeOK, CallsInv, DownInv, WireInv, Hush, CacheInv, ReplyInv
<1>2. CASE Register
  BY <1>2, RegisterStep
<1>3. CASE FirstCycle \/ Cycle
  <2>1. /\ service # "down" /\ service' \in {"registered", "running"}
        /\ \E s \in Scans : Update(s)
        /\ UNCHANGED <<resets, calls, tracked, unread, cache, doing, reply, steady>>
    BY <1>3 DEF FirstCycle, Cycle, mirrorVars, callerVars
  <2>2. QED
    BY <2>1, UpdateStep
<1>4. CASE ResetRedetect
  BY <1>4, ResetStep
<1>5. CASE AnswerGet
  BY <1>5, AnswerGetStep
<1>6. CASE AnswerSet
  BY <1>6, AnswerSetSteps
<1>7. CASE Kill
  BY <1>7, KillStep
<1>8. CASE StartOver
  BY <1>8, StartOverStep
<1>9. CASE \E p \in Paths : Import(p) \/ ImportAbsent(p)
  BY <1>9, ImportStep, ImportAbsentStep
<1>10. CASE \E p \in Paths, v \in Presses : Press(p, v)
  BY <1>10, PressStep
<1>11. CASE TakeValue
  BY <1>11, TakeValueStep
<1>12. CASE TakeCode
  BY <1>12, TakeCodeStep
<1>13. CASE CallFails
  BY <1>13, CallFailsStep
<1>14. CASE Dispatch
  BY <1>14, DispatchStep
<1>15. CASE \E v \in Presses : OthersSet(v)
  BY <1>15, OthersSetStep
<1>16. QED
  BY <1>1, <1>2, <1>3, <1>4, <1>5, <1>6, <1>7, <1>8, <1>9, <1>10, <1>11, <1>12,
     <1>13, <1>14, <1>15 DEF Next, AnswerSet

LEMMA MirrorInvariant == Spec => []MirrorInv
BY MirrorInit, MirrorStep, PTL DEF Spec

\* The state of service, wire and reader stays well formed; no signal is empty.
THEOREM TypeCorrect == Spec => []TypeOK
<1>1. MirrorInv => TypeOK
  BY DEF MirrorInv
<1>2. QED
  BY <1>1, MirrorInvariant, PTL

\* Once a reader has handled everything sent to it, every value it has read
\* or been told is the service's own: no reply that overtook a signal and no
\* write of another client leaves an older one behind.
THEOREM ReaderIsExact == Spec => []MirrorExact
<1>1. MirrorInv => MirrorExact
  BY DEF MirrorInv, CacheInv, MirrorExact, Silent
<1>2. QED
  BY <1>1, MirrorInvariant, PTL

----------------------------------------------------------------------------
(* A reader that has been in step.  What it shows and what it will show     *)
(* after each signal that waits are all whole banks: together they are a    *)
(* history that leads from its caches to the values of the service.         *)
(* /Redetect, which no scan writes, is left out of it.                      *)

Whole(v) == \E s \in Scans : \A p \in DOMAIN s : v[p] = s[p]

Alike(v, w) == \A p \in Paths \ {Redetect} : v[p] = w[p]

\* h tells what a reader that shows c has shown after each signal of w; in
\* the end that is val.
History(h, c, w, val) ==
  /\ Alike(h[0], c) /\ Alike(h[Len(w)], val)
  /\ \A k \in 1 .. Len(w) : Alike(h[k], Over(w[k], h[k - 1]))
  /\ \A k \in 0 .. Len(w) : Whole(h[k])

AlwaysWhole(c, w, val) ==
  \E h \in [0 .. Len(w) -> Valuation] : History(h, c, w, val)

Importing == doing # Idle /\ doing[1] = "reading"

\* Once a cycle has run the exported values are a scan's.  Only a write of
\* /Redetect is ever accepted, so only /Redetect is read back.

SteadyInv ==
  /\ service = "running" => Whole(value)
  /\ doing # Idle /\ doing[1] = "refreshing" => doing[2] = Redetect
  /\ doing # Idle /\ doing[1] = "setting" /\ reply = << 0 >> => doing[2] = Redetect
  /\ steady => /\ service = "running" /\ tracked = Paths /\ unread = {}
               /\ ~Importing
               /\ AlwaysWhole(cache, wire, value)

LEMMA AlikeIsAsWhole ==
  ASSUME NEW v, NEW w, Alike(v, w), Whole(v)
  PROVE  Whole(w)
BY ConstantsAssumption DEF Alike, Whole

\* A history stays one if the ends change in /Redetect only.
LEMMA HistoryOfAlike ==
  ASSUME NEW c, NEW c2, NEW w, NEW val, NEW val2,
         AlwaysWhole(c, w, val), Alike(c, c2), Alike(val, val2)
  PROVE  AlwaysWhole(c2, w, val2)
BY DEF AlwaysWhole, History, Alike

LEMMA HistoryStarts ==
  ASSUME NEW c \in Valuation, NEW val, Alike(c, val), Whole(val)
  PROVE  AlwaysWhole(c, <<>>, val)
<1> DEFINE h == [k \in {0} |-> c]
<1>1. Len(<<>>) = 0 /\ 0 .. 0 = {0} /\ 1 .. 0 = {}
  OBVIOUS
<1>2. h \in [{0} -> Valuation] /\ h[0] = c
  OBVIOUS
<1>3. Alike(val, c) /\ Alike(c, c)
  BY DEF Alike
<1>4. Whole(c)
  BY <1>3, AlikeIsAsWhole
<1> HIDE DEF h
<1>5. History(h, c, <<>>, val)
  BY <1>1, <1>2, <1>3, <1>4 DEF History
<1>6. QED
  BY <1>1, <1>2, <1>5 DEF AlwaysWhole

\* One more signal, after which the bank is whole.
LEMMA HistoryGrows ==
  ASSUME NEW c, NEW w \in Wires, NEW val \in Valuation, NEW n \in Signal,
         NEW val2 \in Valuation, AlwaysWhole(c, w, val),
         Alike(val2, Over(n, val)), Whole(val2)
  PROVE  AlwaysWhole(c, w \o <<n>>, val2)
<1> DEFINE u == w \o <<n>>
           l == Len(w)
<1>1. PICK h \in [0 .. l -> Valuation] : History(h, c, w, val)
  BY DEF AlwaysWhole
<1>2. /\ l \in Nat /\ Len(u) = l + 1 /\ u[l + 1] = n
      /\ \A k \in 1 .. l : u[k] = w[k]
  BY DEF Wires
<1>3. /\ Alike(h[0], c) /\ Alike(h[l], val)
      /\ \A k \in 1 .. l : Alike(h[k], Over(w[k], h[k - 1]))
      /\ \A k \in 0 .. l : Whole(h[k])
  BY <1>1 DEF History
<1> HIDE DEF u, l
<1> DEFINE g == [k \in 0 .. l + 1 |-> IF k = l + 1 THEN val2 ELSE h[k]]
<1>4. /\ g \in [0 .. l + 1 -> Valuation]
      /\ g[l + 1] = val2
      /\ \A k \in 0 .. l : g[k] = h[k]
  BY <1>2
<1> HIDE DEF g
<1>5. Alike(g[0], c) /\ Alike(g[l + 1], val2)
  BY <1>2, <1>3, <1>4 DEF Alike
<1>6. ASSUME NEW k \in 1 .. l + 1
      PROVE  Alike(g[k], Over(u[k], g[k - 1]))
  <2>1. CASE k = l + 1
    <3>1. /\ g[k] = val2 /\ g[k - 1] = h[l] /\ u[k] = n
      BY <1>2, <1>4, <2>1
    <3>2. Alike(Over(n, val), Over(n, h[l]))
      BY <1>3 DEF Alike, Over
    <3>3. QED
      BY <3>1, <3>2 DEF Alike
  <2>2. CASE k # l + 1
    <3>1. k \in 1 .. l /\ k \in 0 .. l /\ k - 1 \in 0 .. l
      BY <1>2, <2>2
    <3>2. g[k] = h[k] /\ g[k - 1] = h[k - 1] /\ u[k] = w[k]
      BY <1>2, <1>4, <3>1
    <3>3. QED
      BY <1>3, <3>1, <3>2
  <2>3. QED
    BY <2>1, <2>2
<1>7. ASSUME NEW k \in 0 .. l + 1
      PROVE  Whole(g[k])
  <2>1. k = l + 1 \/ k \in 0 .. l
    BY <1>2
  <2>2. QED
    BY <1>3, <1>4, <2>1
<1>8. History(g, c, u, val2)
  BY <1>2, <1>5, <1>6, <1>7 DEF History
<1>9. QED
  BY <1>2, <1>4, <1>8 DEF AlwaysWhole, u

\* The first signal is handled.
LEMMA HistoryPasses ==
  ASSUME NEW c, NEW w \in Wires, w # <<>>, NEW val, NEW c2,
         AlwaysWhole(c, w, val), Alike(c2, Over(Head(w), c))
  PROVE  AlwaysWhole(c2, Tail(w), val)
<1> DEFINE t == Tail(w)
           l == Len(w)
<1>1. PICK h \in [0 .. l -> Valuation] : History(h, c, w, val)
  BY DEF AlwaysWhole
<1>2. /\ l \in Nat /\ l > 0 /\ Len(t) = l - 1 /\ w[1] = Head(w)
      /\ \A k \in 1 .. l - 1 : t[k] = w[k + 1]
  BY DEF Wires
<1>3. /\ Alike(h[0], c) /\ Alike(h[l], val)
      /\ \A k \in 1 .. l : Alike(h[k], Over(w[k], h[k - 1]))
      /\ \A k \in 0 .. l : Whole(h[k])
  BY <1>1 DEF History
<1> HIDE DEF t, l
<1> DEFINE g == [k \in 0 .. l - 1 |-> h[k + 1]]
<1>4. /\ g \in [0 .. l - 1 -> Valuation]
      /\ \A k \in 0 .. l - 1 : g[k] = h[k + 1]
  BY <1>2
<1> HIDE DEF g
<1>5. Alike(g[0], c2)
  <2>1. g[0] = h[1] /\ Alike(h[1], Over(w[1], h[0]))
    <3>1. 0 \in 0 .. l - 1 /\ 1 \in 1 .. l /\ 1 - 1 = 0 /\ 0 + 1 = 1
      BY <1>2
    <3>2. QED
      BY <1>3, <1>4, <3>1
  <2>2. Alike(Over(w[1], h[0]), Over(w[1], c))
    BY <1>3 DEF Alike, Over
  <2>3. QED
    BY <1>2, <2>1, <2>2 DEF Alike
<1>6. Alike(g[l - 1], val)
  <2>1. l - 1 \in 0 .. l - 1 /\ (l - 1) + 1 = l
    BY <1>2
  <2>2. QED
    BY <1>3, <1>4, <2>1
<1>7. ASSUME NEW k \in 1 .. l - 1
      PROVE  Alike(g[k], Over(t[k], g[k - 1]))
  <2>1. /\ k \in 0 .. l - 1 /\ k - 1 \in 0 .. l - 1 /\ k + 1 \in 1 .. l
        /\ (k - 1) + 1 = k /\ (k + 1) - 1 = k
    BY <1>2
  <2>2. g[k] = h[k + 1] /\ g[k - 1] = h[k] /\ t[k] = w[k + 1]
    BY <1>2, <1>4, <2>1
  <2>3. Alike(h[k + 1], Over(w[k + 1], h[k]))
    BY <1>3, <2>1
  <2>4. QED
    BY <2>2, <2>3
<1>8. ASSUME NEW k \in 0 .. l - 1
      PROVE  Whole(g[k])
  <2>1. k + 1 \in 0 .. l
    BY <1>2
  <2>2. QED
    BY <1>3, <1>4, <2>1
<1>9. History(g, c2, t, val)
  BY <1>2, <1>5, <1>6, <1>7, <1>8 DEF History
<1>10. QED
  BY <1>2, <1>4, <1>9 DEF AlwaysWhole, t

\* A scan is written and its changes are heard.
LEMMA ScanIsHeard ==
  ASSUME NEW w \in Wires, NEW val \in Valuation, NEW s \in Scans, NEW c
  PROVE  LET val2 == Over(s, val) IN
         /\ val2 \in Valuation /\ Whole(val2)
         /\ tracked = Paths /\ AlwaysWhole(c, w, val)
              => AlwaysWhole(c, w \o ItemsHeard(Changes(val, s)), val2)
<1> DEFINE n == Changes(val, s)
           val2 == Over(s, val)
<1>1. DOMAIN s \subseteq Paths \ {Redetect} /\ Paths # {}
  BY ConstantsAssumption
<1>2. \A p \in DOMAIN s : s[p] \in Values
  BY DEF Values, Written
<1>3. /\ val2 \in Valuation
      /\ \A p \in Paths : val2[p] = IF p \in DOMAIN s THEN s[p] ELSE val[p]
  BY <1>2 DEF Over, Valuation
<1>4. Whole(val2)
  BY <1>1, <1>3 DEF Whole
<1>5. /\ DOMAIN n \subseteq DOMAIN s
      /\ \A p \in DOMAIN n : n[p] = s[p]
      /\ \A p \in DOMAIN s : p \notin DOMAIN n => s[p] = val[p]
      /\ n = [p \in DOMAIN n |-> n[p]]
  BY DEF Changes
<1> HIDE DEF n, val2
<1>6. ASSUME tracked = Paths, AlwaysWhole(c, w, val)
      PROVE  AlwaysWhole(c, w \o ItemsHeard(n), val2)
  <2>1. ItemsHeard(n) = Flushed(n)
    BY <1>1, <1>6 DEF ItemsHeard
  <2>2. \A p \in Paths : val2[p] = IF p \in DOMAIN n THEN n[p] ELSE val[p]
    BY <1>3, <1>5
  <2>3. Alike(val2, Over(n, val))
    BY <2>2 DEF Alike, Over
  <2>4. CASE DOMAIN n = {}
    <3>1. w \o ItemsHeard(n) = w
      BY <2>1, <2>4 DEF Flushed, Wires
    <3>2. Alike(val, val2) /\ Alike(c, c)
      BY <2>2, <2>4 DEF Alike
    <3>3. QED
      BY <1>6, <3>1, <3>2, HistoryOfAlike
  <2>5. CASE DOMAIN n # {}
    <3>1. n \in [DOMAIN n -> Values]
      BY <1>2, <1>5
    <3>2. n \in News
      BY <1>1, <1>5, <3>1 DEF News
    <3>3. n \in Signal /\ Flushed(n) = <<n>>
      BY <2>5, <3>2, NewsFacts DEF Flushed
    <3>4. QED
      BY <1>3, <1>4, <1>6, <2>1, <2>3, <3>3, HistoryGrows
  <2>6. QED
    BY <2>4, <2>5
<1>7. QED
  BY <1>3, <1>4, <1>6 DEF n, val2

\* A change of /Redetect is heard: no bank is touched.
LEMMA RedetectIsHeard ==
  ASSUME NEW w \in Wires, NEW val \in Valuation, NEW v \in Values, NEW n, NEW c,
         n = RedetectIs(v) \/ n = Changes(val, RedetectIs(v)),
         Whole(val)
  PROVE  LET val2 == Over(RedetectIs(v), val) IN
         /\ val2 \in Valuation /\ Whole(val2)
         /\ AlwaysWhole(c, w, val)
              => AlwaysWhole(c, w \o PropertyHeard(n), val2)
<1> DEFINE val2 == Over(RedetectIs(v), val)
<1>1. Redetect \in Paths
  BY ConstantsAssumption
<1>2. /\ val2 \in Valuation
      /\ Alike(val, val2) /\ Alike(c, c)
  BY DEF Over, RedetectIs, Valuation, Alike
<1> HIDE DEF val2
<1>3. Whole(val2)
  BY <1>2, AlikeIsAsWhole
<1>4. /\ DOMAIN n \subseteq {Redetect}
      /\ Redetect \in DOMAIN n => n[Redetect] = v
      /\ n = [p \in DOMAIN n |-> n[p]]
  BY DEF Changes, RedetectIs
<1>5. ASSUME AlwaysWhole(c, w, val)
      PROVE  AlwaysWhole(c, w \o PropertyHeard(n), val2)
  <2>1. CASE PropertyHeard(n) = <<>>
    <3>1. w \o PropertyHeard(n) = w
      BY <2>1 DEF Wires
    <3>2. QED
      BY <1>2, <1>5, <3>1, HistoryOfAlike
  <2>2. CASE PropertyHeard(n) # <<>>
    <3>1. PropertyHeard(n) = <<n>> /\ DOMAIN n # {}
      BY <2>2 DEF PropertyHeard, Flushed
    <3>2. n \in [DOMAIN n -> Values]
      BY <1>4
    <3>3. n \in Signal
      BY <1>1, <1>4, <3>1, <3>2, NewsFacts DEF News
    <3>4. Alike(val2, Over(n, val))
      BY <1>2, <1>4 DEF Alike, Over
    <3>5. QED
      BY <1>2, <1>3, <1>5, <3>1, <3>3, <3>4, HistoryGrows
  <2>3. QED
    BY <2>1, <2>2
<1>6. QED
  BY <1>2, <1>3, <1>5 DEF val2

LEMMA SteadyInit == Init => SteadyInv
BY DEF Init, SteadyInv

\* A step of the service, or of the reader, that leaves banks, calls of the
\* reader and replies as they are.
LEMMA SteadyKept ==
  ASSUME SteadyInv, UNCHANGED <<service, tracked, unread, cache, steady>>,
         service = "running" => Whole(value'),
         steady => AlwaysWhole(cache, wire', value'),
         doing' # Idle =>
           /\ doing'[1] = "reading" => ~steady
           /\ doing'[1] = "refreshing" => doing'[2] = Redetect
           /\ doing'[1] = "setting" /\ reply' = << 0 >> => doing'[2] = Redetect
  PROVE  SteadyInv'
BY DEF SteadyInv, Importing

\* The same, if the reader's thread is where it was.
LEMMA SteadyKeptByService ==
  ASSUME SteadyInv, UNCHANGED <<service, tracked, unread, cache, doing, reply, steady>>,
         service = "running" => Whole(value'),
         steady => AlwaysWhole(cache, wire', value')
  PROVE  SteadyInv'
BY DEF SteadyInv, Importing

LEMMA SteadyFacts ==
  ASSUME SteadyInv, steady
  PROVE  /\ service = "running" /\ tracked = Paths /\ unread = {}
         /\ AlwaysWhole(cache, wire, value)
BY DEF SteadyInv

LEMMA SteadyCycles ==
  ASSUME MirrorInv, SteadyInv, FirstCycle \/ Cycle
  PROVE  SteadyInv'
<1>1. /\ service' = "running" /\ (service = "running" \/ service = "registered")
      /\ UNCHANGED <<calls, tracked, unread, cache, doing, reply, steady>>
  BY DEF FirstCycle, Cycle, mirrorVars, callerVars
<1>2. PICK s \in Scans : Update(s)
  BY DEF FirstCycle, Cycle
<1>3. wire \in Wires /\ value \in Valuation
  BY WireTypes
<1>4. Whole(value')
  BY <1>2, <1>3, ScanIsHeard DEF Update
<1>5. ASSUME steady
      PROVE  AlwaysWhole(cache, wire', value')
  BY <1>2, <1>3, <1>5, SteadyFacts, ScanIsHeard DEF Update
<1>6. QED
  BY <1>1, <1>4, <1>5 DEF SteadyInv, Importing

LEMMA SteadyReset ==
  ASSUME MirrorInv, SteadyInv, ResetRedetect
  PROVE  SteadyInv'
<1>1. /\ service = "running"
      /\ value' = Over(RedetectIs(0), value)
      /\ wire' = wire \o PropertyHeard(Changes(value, RedetectIs(0)))
      /\ UNCHANGED <<service, tracked, unread, cache, doing, reply, steady>>
  BY DEF ResetRedetect, mirrorVars, callerVars
<1>2. wire \in Wires /\ value \in Valuation /\ Whole(value)
  BY <1>1, WireTypes DEF SteadyInv
<1>3. Whole(value') /\ (AlwaysWhole(cache, wire, value) => AlwaysWhole(cache, wire', value'))
  BY <1>1, <1>2, ValuesFacts, RedetectIsHeard
<1>4. QED
  BY <1>1, <1>3, SteadyFacts, SteadyKeptByService

\* An answer for the reader: 0 is the answer to a write of /Redetect only.
LEMMA SteadyAnswered ==
  ASSUME MirrorInv, SteadyInv, NEW method, NEW r, Answer(method, r),
         method = "SetValue" /\ r = 0 => Head(calls).path = Redetect,
         Whole(value'),
         steady => AlwaysWhole(cache, wire', value')
  PROVE  SteadyInv'
<1>1. /\ service = "running"
      /\ UNCHANGED <<service, tracked, unread, cache, doing, steady>>
  BY DEF Answer, mirrorVars
<1>2. /\ Head(calls) \in Call /\ Head(calls).method = method
      /\ Head(calls).wanted =>
           /\ reply' = <<r>> /\ Head(calls).path = doing[2]
           /\ method = "GetValue" <=> doing[1] # "setting"
      /\ ~Head(calls).wanted => reply' = reply
  BY <1>1, AnswerFacts
<1>3. Head(calls).wanted \in BOOLEAN /\ method \in {"GetValue", "SetValue"}
  BY <1>2 DEF Call, Methods
<1>4. doing # Idle /\ doing[1] = "setting" /\ reply' = << 0 >> => doing[2] = Redetect
  <2> SUFFICES ASSUME doing # Idle, doing[1] = "setting", reply' = << 0 >>
               PROVE  doing[2] = Redetect
    OBVIOUS
  <2>1. CASE Head(calls).wanted
    <3>1. <<r>>[1] = << 0 >>[1]
      BY <1>2, <2>1
    <3>2. r = 0 /\ method = "SetValue"
      BY <1>2, <1>3, <2>1, <3>1
    <3>3. QED
      BY <1>2, <2>1, <3>2
  <2>2. CASE ~Head(calls).wanted
    BY <1>2, <2>2 DEF SteadyInv
  <2>3. QED
    BY <2>1, <2>2
<1>5. QED
  BY <1>1, <1>4 DEF SteadyInv, Importing

LEMMA SteadyAnswers ==
  ASSUME MirrorInv, SteadyInv, AnswerGet \/ AnswerSet
  PROVE  SteadyInv'
<1>1. /\ service = "running" /\ calls # <<>>
      /\ wire \in Wires /\ value \in Valuation /\ Whole(value)
  <2>1. service = "running" /\ calls # <<>>
    BY DEF AnswerGet, AnswerSet, AnswerSetRefused, AnswerSetSame, AnswerSetClear,
           AnswerSetRescan, Answer
  <2>2. QED
    BY <2>1, WireTypes DEF SteadyInv
<1>2. CASE AnswerGet
  <2>1. Answer("GetValue", value[Head(calls).path]) /\ UNCHANGED <<value, wire>>
    BY <1>2 DEF AnswerGet
  <2>2. QED
    BY <1>1, <2>1, SteadyFacts, SteadyAnswered
<1>3. CASE AnswerSetRefused
  <2>1. Answer("SetValue", 1) /\ UNCHANGED <<value, wire>> /\ 1 # 0
    BY <1>3 DEF AnswerSetRefused
  <2>2. QED
    BY <1>1, <2>1, SteadyFacts, SteadyAnswered
<1>4. CASE AnswerSetSame
  <2>1. Answer("SetValue", 0) /\ UNCHANGED <<value, wire>> /\ Head(calls).path = Redetect
    BY <1>4 DEF AnswerSetSame
  <2>2. QED
    BY <1>1, <2>1, SteadyFacts, SteadyAnswered
<1>5. CASE AnswerSetClear
  <2>1. /\ Answer("SetValue", 0) /\ Head(calls).path = Redetect
        /\ value' = Over(RedetectIs(0), value)
        /\ wire' = wire \o PropertyHeard(RedetectIs(0))
    BY <1>5 DEF AnswerSetClear
  <2>2. Whole(value') /\ (AlwaysWhole(cache, wire, value) => AlwaysWhole(cache, wire', value'))
    BY <1>1, <2>1, ValuesFacts, RedetectIsHeard
  <2>3. QED
    BY <2>1, <2>2, SteadyFacts, SteadyAnswered
<1>6. CASE AnswerSetRescan
  <2> DEFINE v == Head(calls).value
  <2>1. Answer("SetValue", 0) /\ Head(calls).path = Redetect
    BY <1>6 DEF AnswerSetRescan
  <2>2. PICK s \in Scans :
          /\ value' = Over(RedetectIs(v), Over(s, value))
          /\ wire' = (wire \o ItemsHeard(Changes(value, s))) \o PropertyHeard(RedetectIs(v))
    BY <1>6 DEF AnswerSetRescan
  <2>3. v \in Values
    <3>1. Head(calls) \in Call
      BY <1>1 DEF MirrorInv, TypeOK
    <3>2. QED
      BY <3>1 DEF Call
  <2> HIDE DEF v
  <2> DEFINE w1 == wire \o ItemsHeard(Changes(value, s))
             v1 == Over(s, value)
  <2>4. /\ v1 \in Valuation /\ Whole(v1)
        /\ tracked = Paths /\ AlwaysWhole(cache, wire, value) => AlwaysWhole(cache, w1, v1)
    BY <1>1, ScanIsHeard
  <2>5. w1 \in Wires
    BY WireTypes, ItemsKeepTold
  <2>6. wire' = w1 \o PropertyHeard(RedetectIs(v)) /\ value' = Over(RedetectIs(v), v1)
    BY <2>2
  <2> HIDE DEF w1, v1
  <2>7. Whole(value') /\ (AlwaysWhole(cache, w1, v1) => AlwaysWhole(cache, wire', value'))
    BY <2>3, <2>4, <2>5, <2>6, RedetectIsHeard
  <2>8. steady => AlwaysWhole(cache, wire', value')
    BY <2>4, <2>7, SteadyFacts
  <2>9. QED
    BY <2>1, <2>7, <2>8, SteadyAnswered
<1>7. QED
  BY <1>2, <1>3, <1>4, <1>5, <1>6 DEF AnswerSet

\* The reader has come to be in step: it shows the service's values, which
\* are whole.
LEMMA SteadyLatched ==
  ASSUME MirrorInv', SteadyInv, InStep, UNCHANGED <<service, value>>
  PROVE  AlwaysWhole(cache', wire', value')
<1>1. service' = "running" /\ tracked' = Paths /\ unread' = {} /\ wire' = <<>>
  BY DEF InStep
<1>2. cache' \in Valuation /\ \A p \in Paths : cache'[p] = value'[p]
  BY <1>1 DEF MirrorInv, TypeOK, CacheInv, Silent, Valuation
<1>3. Alike(cache', value') /\ Whole(value')
  BY <1>1, <1>2 DEF Alike, SteadyInv
<1>4. QED
  BY <1>1, <1>2, <1>3, HistoryStarts

LEMMA SteadyTakeValue ==
  ASSUME MirrorInv, MirrorInv', SteadyInv, TakeValue
  PROVE  SteadyInv'
<1>1. /\ doing # Idle /\ doing[1] # "setting" /\ doing' = Idle
      /\ cache' = [cache EXCEPT ![doing[2]] = reply[1]]
      /\ unread' = unread \ {doing[2]}
      /\ UNCHANGED <<service, value, tracked, wire>>
      /\ steady' = (steady \/ InStep)
  BY DEF TakeValue, Latch, serviceVars
<1>2. ASSUME steady
      PROVE  /\ service = "running" /\ tracked = Paths /\ unread' = {}
             /\ AlwaysWhole(cache', wire', value')
  <2>1. doing[1] = "refreshing"
    BY <1>1, <1>2 DEF SteadyInv, Importing, MirrorInv, TypeOK, Doing
  <2>2. doing[2] = Redetect
    BY <1>1, <2>1 DEF SteadyInv
  <2>3. cache \in [Paths -> Values]
    BY DEF MirrorInv, TypeOK
  <2>4. Alike(cache, cache') /\ Alike(value, value)
    BY <1>1, <2>2, <2>3 DEF Alike
  <2>5. QED
    BY <1>1, <1>2, <2>4, SteadyFacts, HistoryOfAlike
<1>3. ASSUME InStep
      PROVE  /\ service = "running" /\ tracked = Paths /\ unread' = {}
             /\ AlwaysWhole(cache', wire', value')
  BY <1>1, <1>3, SteadyLatched DEF InStep
<1>4. QED
  BY <1>1, <1>2, <1>3 DEF SteadyInv, Importing

LEMMA SteadyDispatch ==
  ASSUME MirrorInv, MirrorInv', SteadyInv, Dispatch
  PROVE  SteadyInv'
<1> DEFINE c == Head(wire)
           heard == DOMAIN c \cap tracked
<1>1. /\ doing = Idle /\ doing' = Idle /\ wire # <<>> /\ wire' = Tail(wire)
      /\ cache' = [p \in Paths |-> IF p \in heard THEN c[p] ELSE cache[p]]
      /\ unread' = unread \ heard
      /\ UNCHANGED <<service, value, tracked>>
      /\ steady' = (steady \/ InStep)
  BY DEF Dispatch, Latch, serviceVars, callerVars
<1>2. ASSUME steady
      PROVE  /\ service = "running" /\ tracked = Paths /\ unread' = {}
             /\ AlwaysWhole(cache', wire', value')
  <2>1. tracked = Paths /\ unread = {} /\ AlwaysWhole(cache, wire, value)
    BY <1>2, SteadyFacts
  <2>2. Alike(cache', Over(Head(wire), cache))
    BY <1>1, <2>1 DEF Alike, Over
  <2>3. AlwaysWhole(cache', wire', value)
    BY <1>1, <2>1, <2>2, WireTypes, HistoryPasses
  <2>4. QED
    BY <1>1, <1>2, <2>1, <2>3, SteadyFacts
<1>3. ASSUME InStep
      PROVE  /\ service = "running" /\ tracked = Paths /\ unread' = {}
             /\ AlwaysWhole(cache', wire', value')
  BY <1>1, <1>3, SteadyLatched DEF InStep
<1>4. QED
  BY <1>1, <1>2, <1>3 DEF SteadyInv, Importing

\* What the reader begins or gives up.
LEMMA SteadyCallers ==
  ASSUME MirrorInv, SteadyInv,
         \/ \E p \in Paths : Import(p) \/ ImportAbsent(p)
         \/ \E p \in Paths, v \in Presses : Press(p, v)
         \/ \E v \in Presses : OthersSet(v)
         \/ TakeCode \/ CallFails
  PROVE  SteadyInv'
<1>1. CASE \E p \in Paths : Import(p) \/ ImportAbsent(p)
  <2>1. PICK p \in Paths : Import(p) \/ ImportAbsent(p)
    BY <1>1
  <2>2. /\ p \notin tracked /\ UNCHANGED <<service, value, wire, steady>>
        /\ doing' = Idle \/ doing' = <<"reading", p>>
    BY <2>1 DEF Import, ImportAbsent, serviceVars, callerVars
  <2>3. ~steady
    BY <2>2, SteadyFacts
  <2>4. QED
    BY <2>2, <2>3 DEF SteadyInv
<1>2. CASE \E p \in Paths, v \in Presses : Press(p, v)
  <2>1. PICK p \in Paths, v \in Presses : Press(p, v)
    BY <1>2
  <2>2. /\ UNCHANGED <<service, value, tracked, unread, cache, wire, reply, steady>>
        /\ doing = Idle /\ doing' = <<"setting", p>>
    BY <2>1 DEF Press, serviceVars, mirrorVars
  <2>3. reply' # << 0 >>
    BY <2>2 DEF MirrorInv, ReplyInv, NoReply
  <2>4. QED
    BY <2>2, <2>3, SteadyFacts, SteadyKept DEF SteadyInv
<1>3. CASE \E v \in Presses : OthersSet(v)
  <2>1. UNCHANGED <<service, value, tracked, unread, cache, wire, doing, reply, steady>>
    BY <1>3 DEF OthersSet, serviceVars, mirrorVars, callerVars
  <2>2. QED
    BY <2>1, SteadyFacts, SteadyKeptByService DEF SteadyInv
<1>4. CASE TakeCode
  <2>1. /\ doing # Idle /\ doing[1] = "setting" /\ reply # NoReply
        /\ \/ reply[1] = 0 /\ doing' = <<"refreshing", doing[2]>>
           \/ doing' = Idle
        /\ UNCHANGED <<service, value, tracked, unread, cache, wire, steady>>
    BY <1>4 DEF TakeCode, serviceVars, mirrorVars
  <2>2. ASSUME reply[1] = 0
        PROVE  doing[2] = Redetect
    <3>1. reply = << 0 >>
      BY <2>1, <2>2 DEF MirrorInv, TypeOK
    <3>2. QED
      BY <2>1, <3>1 DEF SteadyInv
  <2>3. doing' # Idle => /\ doing'[1] = "refreshing" /\ doing'[2] = Redetect
    BY <2>1, <2>2
  <2>4. QED
    BY <2>1, <2>3, SteadyFacts, SteadyKept DEF SteadyInv
<1>5. CASE CallFails
  <2>1. /\ doing' = Idle
        /\ UNCHANGED <<service, value, tracked, unread, cache, wire, steady>>
    BY <1>5 DEF CallFails, serviceVars, mirrorVars
  <2>2. QED
    BY <2>1, SteadyFacts, SteadyKept DEF SteadyInv
<1>6. QED
  BY <1>1, <1>2, <1>3, <1>4, <1>5

LEMMA SteadyRestarts ==
  ASSUME MirrorInv, SteadyInv, Register \/ Kill \/ StartOver
  PROVE  SteadyInv'
<1>1. CASE Register
  <2>1. /\ service = "down" /\ service' = "registered"
        /\ UNCHANGED <<doing, reply, steady>>
    BY <1>1 DEF Register, callerVars
  <2>2. QED
    BY <2>1, SteadyFacts DEF SteadyInv
<1>2. CASE Kill \/ StartOver
  <2>1. /\ steady' = FALSE /\ doing' = Idle /\ UNCHANGED value
        /\ service' = "down" \/ service' = service
    BY <1>2 DEF Kill, StartOver, Forget, serviceVars, callerVars
  <2>2. QED
    BY <2>1 DEF SteadyInv
<1>3. QED
  BY <1>1, <1>2

LEMMA SteadyStep == MirrorInv /\ MirrorInv' /\ SteadyInv /\ [Next]_vars => SteadyInv'
<1> SUFFICES ASSUME MirrorInv, MirrorInv', SteadyInv, [Next]_vars PROVE SteadyInv'
  OBVIOUS
<1>1. CASE UNCHANGED vars
  BY <1>1 DEF vars, serviceVars, mirrorVars, callerVars, SteadyInv, Importing
<1>2. CASE FirstCycle \/ Cycle
  BY <1>2, SteadyCycles
<1>3. CASE ResetRedetect
  BY <1>3, SteadyReset
<1>4. CASE AnswerGet \/ AnswerSet
  BY <1>4, SteadyAnswers
<1>5. CASE TakeValue
  BY <1>5, SteadyTakeValue
<1>6. CASE Dispatch
  BY <1>6, SteadyDispatch
<1>7. CASE Register \/ Kill \/ StartOver
  BY <1>7, SteadyRestarts
<1>8. CASE \/ \E p \in Paths : Import(p) \/ ImportAbsent(p)
           \/ \E p \in Paths, v \in Presses : Press(p, v)
           \/ \E v \in Presses : OthersSet(v)
           \/ TakeCode \/ CallFails
  BY <1>8, SteadyCallers
<1>9. QED
  BY <1>1, <1>2, <1>3, <1>4, <1>5, <1>6, <1>7, <1>8 DEF Next, AnswerSet

LEMMA SteadyInvariant == Spec => []SteadyInv
BY SteadyInit, SteadyStep, MirrorInvariant, PTL DEF Spec

\* A reader that has once been in step with the service never again shows
\* half of a bank: not between two signals, not across a rescan, a reset of
\* /Redetect or the read-back of a write.
THEOREM BanksStayWhole == Spec => []WholeBank
<1>1. MirrorInv /\ SteadyInv => WholeBank
  <2> SUFFICES ASSUME MirrorInv, SteadyInv, steady PROVE Whole(cache)
    BY DEF WholeBank, Whole
  <2>1. AlwaysWhole(cache, wire, value)
    BY SteadyFacts
  <2>2. PICK h \in [0 .. Len(wire) -> Valuation] : History(h, cache, wire, value)
    BY <2>1 DEF AlwaysWhole
  <2>3. Alike(h[0], cache) /\ \A k \in 0 .. Len(wire) : Whole(h[k])
    BY <2>2 DEF History
  <2>4. Len(wire) \in Nat
    BY DEF MirrorInv, TypeOK
  <2>5. QED
    BY <2>3, <2>4, AlikeIsAsWhole
<1>2. QED
  BY <1>1, MirrorInvariant, SteadyInvariant, PTL

=============================================================================
