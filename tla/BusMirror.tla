------------------------------ MODULE BusMirror ------------------------------
(***************************************************************************)
(* dbusservice.py and both halves of vedbus.py: the values the daemon       *)
(* exports, and a reader on the same bus that mirrors them with             *)
(* VeDbusItemImport.                                                        *)
(*                                                                         *)
(* The service is one thread: it answers calls only from its main loop,     *)
(* which runs after the first cycle.  The signals of one connection reach   *)
(* a reader in order.  A reader that waits for a reply takes it as soon as  *)
(* it is there, past the signals that arrived before it: these it handles   *)
(* when the call has returned.  A signal is handed to the bus and matched   *)
(* in one step.                                                             *)
(***************************************************************************)
EXTENDS Integers, Sequences, FiniteSets, SequencesExt

CONSTANTS
  Paths,      \* exported paths, /Redetect one of them
  Redetect,
  Unknown,    \* the value None
  Default,    \* what _add_paths() gives each path
  Scans,      \* what a scan writes: functions on some of the other paths
  Presses,    \* values clients write to /Redetect
  MaxCalls,   \* bound: calls and resets waiting at the service
  MaxWire     \* bound: signals waiting at the reader when new work is begun

Written == UNION {{s[p] : p \in DOMAIN s} : s \in Scans}
Values == {Unknown} \cup Presses \cup Written \cup {Default[p] : p \in Paths}

ASSUME ConstantsAssumption ==
  /\ Redetect \in Paths
  /\ Default = [p \in Paths |-> Default[p]]
  /\ Default[Redetect] = 0
  /\ \A s \in Scans : DOMAIN s \subseteq Paths \ {Redetect}
  /\ MaxCalls \in Nat /\ MaxWire \in Nat

Methods == {"GetValue", "SetValue"}
Call == [method : Methods, path : Paths, value : Values, wanted : BOOLEAN]

\* What the reader's thread is in, and for which path: the constructor's
\* GetValue, set_value()'s SetValue or the GetValue that follows it.
Idle == <<>>
Doing == {Idle} \cup ({"reading", "setting", "refreshing"} \X Paths)

\* A signal gives some paths their new values.
Signal == UNION {[dom -> Values] : dom \in (SUBSET Paths) \ {{}}}

VARIABLES
  service,   \* "down", "registered" or "running", with its main loop
  value,     \* _value of every exported path
  resets,    \* reset_redetect() callbacks queued by GLib.idle_add
  calls,     \* method calls that wait at the service
  tracked,   \* paths the reader has an importer for
  unread,    \* those that have had neither a value nor a change of it yet
  cache,     \* _cachedvalue of every importer
  wire,      \* signals that wait at the reader
  doing,     \* what the reader's thread is in
  reply,     \* the reply it waits for, once that is there
  steady     \* it has been in step with the service

serviceVars == <<service, value, resets>>
mirrorVars == <<tracked, unread, cache>>
callerVars == <<doing, reply>>
vars == <<serviceVars, calls, mirrorVars, wire, callerVars, steady>>

NoReply == <<>>

----------------------------------------------------------------------------
(* Signals.                                                                *)

\* _local_set_value(), path by path: a value that does not change is not
\* announced.  Variant: neither is one that becomes None.
ChangesToKnown(old, new) ==
  [p \in {q \in DOMAIN new : new[q] # old[q] /\ new[q] # Unknown} |-> new[p]]

Changes(old, new) == [p \in {q \in DOMAIN new : new[q] # old[q]} |-> new[p]]

\* Variant: flush() without its test.
FlushedAlways(changes) == <<changes>>

\* Variant: no with-block, so that every path is announced by itself.
FlushedOneByOne(changes) ==
  LET ps == SetToSeq(DOMAIN changes) IN
  [i \in DOMAIN ps |-> [p \in {ps[i]} |-> changes[p]]]

\* ServiceContext.flush(): all changes of a with-block in one ItemsChanged.
Flushed(changes) == IF DOMAIN changes = {} THEN <<>> ELSE <<changes>>

\* ItemsChanged comes from the root: any importer makes the reader hear it.
ItemsHeard(changes) == IF tracked = {} THEN <<>> ELSE Flushed(changes)

\* PropertiesChanged comes from the item: only its own importer hears it.
PropertyHeard(changes) ==
  IF DOMAIN changes \subseteq tracked THEN Flushed(changes) ELSE <<>>

Over(new, old) == [p \in Paths |-> IF p \in DOMAIN new THEN new[p] ELSE old[p]]

RedetectIs(v) == [p \in {Redetect} |-> v]

----------------------------------------------------------------------------
(* The service.                                                            *)

Init ==
  /\ service = "down" /\ value = Default /\ resets = 0
  /\ calls = <<>>
  /\ tracked = {} /\ unread = {} /\ cache = [p \in Paths |-> Unknown]
  /\ wire = <<>>
  /\ doing = Idle /\ reply = NoReply
  /\ steady = FALSE

\* VeDbusService(), _add_paths() and register().
Register ==
  /\ service = "down"
  /\ service' = "registered" /\ value' = Default /\ resets' = 0
  /\ UNCHANGED <<calls, mirrorVars, wire, callerVars, steady>>

\* update() of one scan.  Cells a pack does not report keep their value.
Update(s) ==
  /\ value' = Over(s, value)
  /\ wire' = wire \o ItemsHeard(Changes(value, s))

\* The cycle that ends the daemon's __init__(); the main loop runs after it.
FirstCycle ==
  /\ service = "registered"
  /\ service' = "running"
  /\ \E s \in Scans : Update(s)
  /\ UNCHANGED <<resets, calls, mirrorVars, callerVars, steady>>

Cycle ==
  /\ service = "running" /\ Len(wire) < MaxWire
  /\ \E s \in Scans : Update(s)
  /\ UNCHANGED <<service, resets, calls, mirrorVars, callerVars, steady>>

\* reset_redetect(), outside of any with-block.
ResetRedetect ==
  /\ service = "running" /\ resets > 0
  /\ resets' = resets - 1
  /\ value' = Over(RedetectIs(0), value)
  /\ wire' = wire \o PropertyHeard(Changes(value, RedetectIs(0)))
  /\ UNCHANGED <<service, calls, mirrorVars, callerVars, steady>>

\* The main loop takes the next call and answers it with r.
Answer(method, r) ==
  /\ service = "running"
  /\ calls # <<>> /\ Head(calls).method = method
  /\ calls' = Tail(calls)
  /\ reply' = IF Head(calls).wanted THEN <<r>> ELSE reply
  /\ UNCHANGED <<service, mirrorVars, doing, steady>>

AnswerGet ==
  /\ calls # <<>>
  /\ Answer("GetValue", value[Head(calls).path])
  /\ UNCHANGED <<value, resets, wire>>

\* SetValue of a path that is not writeable, or of the value it has.
AnswerSetRefused ==
  /\ calls # <<>> /\ Head(calls).path # Redetect
  /\ Answer("SetValue", 1)
  /\ UNCHANGED <<value, resets, wire>>

AnswerSetSame ==
  /\ calls # <<>> /\ Head(calls).path = Redetect
  /\ Head(calls).value = value[Redetect]
  /\ Answer("SetValue", 0)
  /\ UNCHANGED <<value, resets, wire>>

\* 0 is stored and announced.
AnswerSetClear ==
  /\ calls # <<>> /\ Head(calls).path = Redetect
  /\ Head(calls).value = 0 /\ value[Redetect] # 0
  /\ Answer("SetValue", 0)
  /\ value' = Over(RedetectIs(0), value)
  /\ wire' = wire \o PropertyHeard(RedetectIs(0))
  /\ UNCHANGED resets

\* Any other value: the callback rescans and publishes, then it is stored
\* and announced.
AnswerSetRescan ==
  /\ calls # <<>> /\ Head(calls).path = Redetect
  /\ Head(calls).value # 0 /\ Head(calls).value # value[Redetect]
  /\ Answer("SetValue", 0)
  /\ \E s \in Scans :
       /\ value' = Over(RedetectIs(Head(calls).value), Over(s, value))
       /\ wire' = wire \o ItemsHeard(Changes(value, s))
                       \o PropertyHeard(RedetectIs(Head(calls).value))
  /\ resets' = resets + 1

\* The reader drops its importers and all it has heard.
Forget ==
  /\ tracked' = {} /\ unread' = {} /\ cache' = [p \in Paths |-> Unknown]
  /\ wire' = <<>>
  /\ steady' = FALSE

\* The process dies with the calls it has not answered; a call in progress
\* raises, and on NameOwnerChanged, as vedbus.py demands, the reader forgets.
\* What it shows in between is not followed.
Kill ==
  /\ service # "down"
  /\ service' = "down" /\ resets' = 0 /\ calls' = <<>>
  /\ doing' = Idle /\ reply' = NoReply
  /\ Forget
  /\ UNCHANGED value

----------------------------------------------------------------------------
(* The reader.                                                             *)

Room == Len(calls) + resets < MaxCalls /\ Len(wire) < MaxWire

\* Steady: every path imported and read, nothing on its way.
InStep ==
  /\ tracked' = Paths /\ unread' = {} /\ wire' = <<>>
  /\ doing' = Idle /\ service' = "running"

Latch == steady' = (steady \/ InStep)

Ask(method, p, v) ==
  calls' = Append(calls, [method |-> method, path |-> p, value |-> v, wanted |-> TRUE])

\* VeDbusItemImport(): subscribe, then GetValue.
Import(p) ==
  /\ doing = Idle /\ p \notin tracked
  /\ service # "down" /\ Room
  /\ tracked' = tracked \cup {p}
  /\ unread' = unread \cup {p}
  /\ cache' = [cache EXCEPT ![p] = Unknown]
  /\ Ask("GetValue", p, Unknown)
  /\ doing' = <<"reading", p>>
  /\ UNCHANGED <<serviceVars, wire, reply, steady>>

\* Nobody has the name: GetValue raises, the importer is kept.
ImportAbsent(p) ==
  /\ doing = Idle /\ p \notin tracked
  /\ service = "down"
  /\ tracked' = tracked \cup {p}
  /\ unread' = unread \cup {p}
  /\ cache' = [cache EXCEPT ![p] = Unknown]
  /\ UNCHANGED <<serviceVars, calls, wire, callerVars, steady>>

\* set_value().
Press(p, v) ==
  /\ doing = Idle /\ p \in tracked
  /\ service # "down" /\ Room
  /\ Ask("SetValue", p, v)
  /\ doing' = <<"setting", p>>
  /\ UNCHANGED <<serviceVars, mirrorVars, wire, reply, steady>>

\* The reply of a GetValue becomes the cached value.
TakeValue ==
  /\ doing # Idle /\ doing[1] # "setting" /\ reply # NoReply
  /\ cache' = [cache EXCEPT ![doing[2]] = reply[1]]
  /\ unread' = unread \ {doing[2]}
  /\ doing' = Idle /\ reply' = NoReply
  /\ UNCHANGED <<serviceVars, calls, tracked, wire>>
  /\ Latch

\* A write that was accepted is read back, any other is done with.
TakeCode ==
  /\ doing # Idle /\ doing[1] = "setting" /\ reply # NoReply
  /\ reply' = NoReply
  /\ IF reply[1] = 0
     THEN Ask("GetValue", doing[2], Unknown) /\ doing' = <<"refreshing", doing[2]>>
     ELSE doing' = Idle /\ UNCHANGED calls
  /\ UNCHANGED <<serviceVars, mirrorVars, wire, steady>>

\* No reply in time: a DBusException.  What the service still answers is
\* dropped.
CallFails ==
  /\ doing # Idle /\ reply = NoReply
  /\ calls' = [i \in DOMAIN calls |-> [calls[i] EXCEPT !.wanted = FALSE]]
  /\ doing' = Idle
  /\ UNCHANGED <<serviceVars, mirrorVars, wire, reply, steady>>

\* _items_changed_handler() and _properties_changed_handler(): the importers
\* of the paths it names store the new values.
Dispatch ==
  /\ doing = Idle /\ wire # <<>>
  /\ LET heard == DOMAIN Head(wire) \cap tracked IN
       /\ cache' = [p \in Paths |-> IF p \in heard THEN Head(wire)[p] ELSE cache[p]]
       /\ unread' = unread \ heard
  /\ wire' = Tail(wire)
  /\ UNCHANGED <<serviceVars, calls, tracked, callerVars>>
  /\ Latch

\* Another client writes to /Redetect.
OthersSet(v) ==
  /\ service # "down" /\ Room
  /\ calls' = Append(calls, [method |-> "SetValue", path |-> Redetect,
                             value |-> v, wanted |-> FALSE])
  /\ UNCHANGED <<serviceVars, mirrorVars, wire, callerVars, steady>>

\* The reader itself is restarted.
StartOver ==
  /\ doing = Idle /\ tracked # {}
  /\ Forget
  /\ UNCHANGED <<serviceVars, calls, callerVars>>

AnswerSet == AnswerSetRefused \/ AnswerSetSame \/ AnswerSetClear \/ AnswerSetRescan

Next ==
  \/ Register \/ FirstCycle \/ Cycle \/ ResetRedetect \/ Kill
  \/ AnswerGet \/ AnswerSetRefused \/ AnswerSetSame \/ AnswerSetClear \/ AnswerSetRescan
  \/ TakeValue \/ TakeCode \/ CallFails \/ Dispatch \/ StartOver
  \/ \E p \in Paths : Import(p) \/ ImportAbsent(p)
  \/ \E p \in Paths, v \in Presses : Press(p, v)
  \/ \E v \in Presses : OthersSet(v)

Spec == Init /\ [][Next]_vars

\* daemontools starts the daemon, whose loop answers every call; the reader's
\* loop handles its signals between its calls.
FairSpec ==
  Spec /\ WF_vars(Register) /\ WF_vars(FirstCycle)
       /\ WF_vars(AnswerGet \/ AnswerSet)
       /\ WF_vars(TakeValue \/ TakeCode) /\ SF_vars(Dispatch)

----------------------------------------------------------------------------
(* Properties.                                                             *)

\* Types; a signal always names a path.
TypeOK ==
  /\ service \in {"down", "registered", "running"}
  /\ value \in [Paths -> Values] /\ resets \in Nat
  /\ calls \in Seq(Call)
  /\ tracked \subseteq Paths /\ unread \subseteq tracked
  /\ cache \in [Paths -> Values]
  /\ wire \in Seq(Signal)
  /\ doing \in Doing /\ reply \in {NoReply} \cup {<<v>> : v \in Values \cup {0, 1}}
  /\ steady \in BOOLEAN

\* A reader that has handled everything sent to it shows exactly what the
\* service has: no order of subscription, reply and signals, of its own
\* writes and those of others, leaves an older value in a cache.
MirrorExact ==
  doing = Idle /\ wire = <<>>
    => \A p \in tracked \ unread : cache[p] = value[p]

\* What update() says of its with-block: a reader that has once been in step
\* never shows half of a bank, nor the values _add_paths() starts with.
WholeBank ==
  steady => \E s \in Scans : \A p \in DOMAIN s : cache[p] = s[p]

\* A value that stays is shown in the end and from then on, however much the
\* other values go on changing.
MirrorCatchesUp ==
  \A p \in Paths :
    <>[][value'[p] = value[p]]_vars
      => <>[](p \in tracked \ unread => cache[p] = value[p])

=============================================================================
