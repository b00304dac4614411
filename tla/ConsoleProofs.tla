----------------------------- MODULE ConsoleProofs --------------------------
(***************************************************************************)
(* Theorems about Console.  ConsoleInv is preserved: a step of the page    *)
(* leaves the server alone, and each part of the page is left alone too or *)
(* takes over something that was sound (PageStep); a step of the server    *)
(* leaves the page alone and only adds versions (Grows), so that what was  *)
(* sound stays so.                                                         *)
(***************************************************************************)
EXTENDS ConsoleInvariant, FiniteSetTheorems, TLAPS

-----------------------------------------------------------------------------
(* What is sound stays so as versions and sightings are added.             *)

Grows(h, k, seen, late) ==
  /\ h \in [Slots -> Seq(Writers)] /\ k \in [Slots -> Seq(Writers)]
  /\ \A s \in Slots : Len(h[s]) <= Len(k[s])
  /\ seen \subseteq late

\* A row stays sound.
LEMMA SoundLater ==
  ASSUME NEW h, NEW k, NEW seen, NEW late, Grows(h, k, seen, late), NEW r, Sound(r, h)
  PROVE  Sound(r, k)
<1>1. ASSUME r.id \in Slots PROVE Len(h[r.id]) \in Nat /\ Len(k[r.id]) \in Nat /\ Len(h[r.id]) <= Len(k[r.id])
  BY <1>1 DEF Grows
<1> QED BY <1>1 DEF Sound

\* A call stays sound.
LEMMA CallLater ==
  ASSUME NEW h, NEW k, NEW seen, NEW late, Grows(h, k, seen, late), NEW c, CallSound(c, h, seen)
  PROVE  CallSound(c, k, late)
<1>1. seen \subseteq late
  BY DEF Grows
<1>2. AskSound(c.ask, k, late)
  BY <1>1, SoundLater DEF CallSound, AskSound
<1> QED BY <1>2, SoundLater DEF CallSound

LEMMA CallsLater ==
  ASSUME NEW h, NEW k, NEW seen, NEW late, Grows(h, k, seen, late), NEW now, NEW count, CallsSound(now, count, h, seen)
  PROVE  CallsSound(now, count, k, late)
BY CallLater DEF CallsSound

-----------------------------------------------------------------------------
(* Calls in flight.                                                        *)

\* A call gets a number of its own.
LEMMA Fresh ==
  ASSUME IsFiniteSet(DOMAIN calls)
  PROVE  FreshCall \notin DOMAIN calls
<1> DEFINE c == Cardinality(DOMAIN calls)
<1>1. c \in Nat
  BY FS_CardinalityType
<1>2. \E n \in 1 .. c + 1 : n \notin DOMAIN calls
  <2>1. IsFiniteSet(1 .. c + 1) /\ Cardinality(1 .. c + 1) = c + 1
    BY <1>1, FS_Interval
  <2>2. ASSUME 1 .. c + 1 \subseteq DOMAIN calls PROVE FALSE
    <3>1. Cardinality(1 .. c + 1) <= c
      BY <2>2, FS_Subset
    <3> QED BY <1>1, <2>1, <3>1
  <2> QED BY <2>2
<1> QED BY <1>2 DEF FreshCall

\* Sending a call leaves those in flight as they are.
LEMMA SentShape ==
  ASSUME NEW now, NEW ask, IsFiniteSet(DOMAIN calls), DOMAIN now \subseteq DOMAIN calls
  PROVE  /\ FreshCall \notin DOMAIN now
         /\ DOMAIN Sent(now, ask) = DOMAIN now \cup {FreshCall}
         /\ \A n \in DOMAIN now : Sent(now, ask)[n] = now[n]
         /\ Sent(now, ask)[FreshCall] = [ask |-> ask, attached |-> TRUE, reply |-> "none", rows |-> {}]
<1>1. FreshCall \notin DOMAIN now
  BY Fresh
<1> QED BY <1>1 DEF Sent, Put

LEMMA SentEnvCalls ==
  ASSUME NEW now, NEW ask, IsFiniteSet(DOMAIN calls), DOMAIN now \subseteq DOMAIN calls
  PROVE  EnvCalls(Sent(now, ask)) = EnvCalls(now) \cup (IF ask.op \in EnvOps THEN {FreshCall} ELSE {})
<1>1. /\ FreshCall \notin DOMAIN now /\ DOMAIN Sent(now, ask) = DOMAIN now \cup {FreshCall}
      /\ \A n \in DOMAIN now : Sent(now, ask)[n] = now[n]
  BY SentShape
<1>2. Sent(now, ask)[FreshCall] = [ask |-> ask, attached |-> TRUE, reply |-> "none", rows |-> {}]
  BY SentShape
<1>3. Sent(now, ask)[FreshCall].ask = ask
  BY <1>2
<1> QED BY <1>1, <1>3 DEF EnvCalls

\* It adds one, which counts unless it is a tab's listing.
LEMMA SentSound ==
  ASSUME NEW now, NEW count \in Nat, NEW h, NEW seen, CallsSound(now, count, h, seen), NEW ask, AskSound(ask, h, seen),
         IsFiniteSet(DOMAIN calls), DOMAIN now \subseteq DOMAIN calls
  PROVE  CallsSound(Sent(now, ask), IF ask.op = "list" THEN count ELSE count + 1, h, seen)
<1> DEFINE new == [ask |-> ask, attached |-> TRUE, reply |-> "none", rows |-> {}]
<1>1. /\ FreshCall \notin DOMAIN now /\ DOMAIN Sent(now, ask) = DOMAIN now \cup {FreshCall}
      /\ \A n \in DOMAIN now : Sent(now, ask)[n] = now[n]
      /\ Sent(now, ask)[FreshCall] = new
  BY SentShape
<1>2. CallSound(new, h, seen)
  BY DEF CallSound
<1>3. \A n \in DOMAIN Sent(now, ask) : CallSound(Sent(now, ask)[n], h, seen)
  BY <1>1, <1>2 DEF CallsSound
<1>4. IsFiniteSet(DOMAIN Sent(now, ask))
  BY <1>1, FS_AddElement DEF CallsSound
<1>5. Counted(Sent(now, ask)) = Counted(now) \cup (IF ask.op = "list" THEN {} ELSE {FreshCall})
  BY <1>1 DEF Counted
<1>6. IsFiniteSet(Counted(now)) /\ Cardinality(Counted(now)) \in Nat /\ Cardinality(Counted(now)) <= count
  BY FS_Subset, FS_CardinalityType DEF CallsSound, Counted
<1>7. CASE ask.op = "list"
  BY <1>3, <1>4, <1>5, <1>6, <1>7 DEF CallsSound
<1>8. CASE ask.op # "list"
  <2>1. Counted(Sent(now, ask)) = Counted(now) \cup {FreshCall}
    BY <1>5, <1>8
  <2>2. IsFiniteSet(Counted(now) \cup {FreshCall}) /\ Cardinality(Counted(now) \cup {FreshCall}) <= Cardinality(Counted(now)) + 1
    BY <1>6, FS_AddElement
  <2>3. Cardinality(Counted(now) \cup {FreshCall}) \in Nat
    BY <2>2, FS_CardinalityType
  <2>4. Cardinality(Counted(Sent(now, ask))) <= count + 1
    BY <1>6, <2>1, <2>2, <2>3
  <2> QED BY <1>3, <1>4, <1>8, <2>4 DEF CallsSound
<1> QED BY <1>7, <1>8

\* The calls `later` are the calls `now`, some of them detached.
Loosened(later, now) ==
  /\ DOMAIN later = DOMAIN now
  /\ \A n \in DOMAIN now : later[n] = now[n] \/ later[n] = [now[n] EXCEPT !.attached = FALSE]

LEMMA LoosenedSound ==
  ASSUME NEW now, NEW later, NEW count, NEW h, NEW seen, CallsSound(now, count, h, seen), Loosened(later, now)
  PROVE  /\ CallsSound(later, count, h, seen)
         /\ EnvCalls(later) = EnvCalls(now)
         /\ \A n \in DOMAIN now : later[n].ask = now[n].ask /\ later[n].reply = now[n].reply
<1>1. \A n \in DOMAIN now : DOMAIN now[n] = {"ask", "attached", "reply", "rows"}
  BY DEF CallsSound, CallSound
<1>2. ASSUME NEW n \in DOMAIN now
      PROVE  DOMAIN later[n] = DOMAIN now[n] /\ later[n].ask = now[n].ask /\ later[n].reply = now[n].reply /\ later[n].rows = now[n].rows
  BY <1>1 DEF Loosened
<1>3. \A n \in DOMAIN later : CallSound(later[n], h, seen)
  BY <1>2 DEF CallsSound, CallSound, Loosened
<1>4. Counted(later) = Counted(now) /\ EnvCalls(later) = EnvCalls(now)
  BY <1>2 DEF Counted, EnvCalls, Loosened
<1> QED BY <1>2, <1>3, <1>4 DEF CallsSound, Loosened

LEMMA DetachedSound ==
  ASSUME NEW ops, NEW count, NEW h, NEW seen, CallsSound(calls, count, h, seen)
  PROVE  /\ CallsSound(Detached(ops), count, h, seen)
         /\ EnvCalls(Detached(ops)) = EnvCalls(calls)
         /\ \A n \in DOMAIN calls : Detached(ops)[n].ask = calls[n].ask /\ Detached(ops)[n].reply = calls[n].reply
<1>1. Loosened(Detached(ops), calls)
  BY DEF Loosened, Detached
<1> QED BY <1>1, LoosenedSound

\* A tab's listing is asked for beside the calls there are.
LEMMA ListingSound ==
  ASSUME NEW now, NEW count \in Nat, NEW h, NEW seen, CallsSound(now, count, h, seen), NEW env \in Envs \cup {NoEnv},
         IsFiniteSet(DOMAIN calls), DOMAIN now \subseteq DOMAIN calls
  PROVE  /\ CallsSound(Listing(now, env), count, h, seen)
         /\ EnvCalls(Listing(now, env)) = EnvCalls(now)
         /\ \A n \in DOMAIN now : Listing(now, env)[n].ask = now[n].ask /\ Listing(now, env)[n].reply = now[n].reply
<1> DEFINE left == [n \in DOMAIN now |-> IF now[n].ask.op = "list" THEN [now[n] EXCEPT !.attached = FALSE] ELSE now[n]]
           ask == [op |-> "list", env |-> env]
<1>1. Loosened(left, now)
  BY DEF Loosened
<1>2. /\ CallsSound(left, count, h, seen) /\ EnvCalls(left) = EnvCalls(now)
      /\ \A n \in DOMAIN now : left[n].ask = now[n].ask /\ left[n].reply = now[n].reply
  BY <1>1, LoosenedSound
<1>3. DOMAIN left = DOMAIN now
  OBVIOUS
<1>4. Listing(now, env) = IF env = NoEnv THEN left ELSE Sent(left, ask)
  BY DEF Listing
<1> HIDE DEF left
<1>5. CASE env = NoEnv
  BY <1>2, <1>4, <1>5
<1>6. CASE env # NoEnv
  <2>1. AskSound(ask, h, seen)
    BY <1>6 DEF AskSound, Ops, EnvOps
  <2>2. ask.op = "list" /\ ask.op \notin EnvOps
    BY DEF EnvOps
  <2> HIDE DEF ask
  <2>3. /\ CallsSound(Sent(left, ask), count, h, seen)
        /\ EnvCalls(Sent(left, ask)) = EnvCalls(left)
        /\ \A n \in DOMAIN left : Sent(left, ask)[n] = left[n]
    <3>1. CallsSound(left, count, h, seen) /\ DOMAIN left \subseteq DOMAIN calls
      BY <1>2, <1>3
    <3>2. CallsSound(Sent(left, ask), IF ask.op = "list" THEN count ELSE count + 1, h, seen)
      BY <2>1, <3>1, SentSound
    <3>3. EnvCalls(Sent(left, ask)) = EnvCalls(left) \cup (IF ask.op \in EnvOps THEN {FreshCall} ELSE {})
      BY <3>1, SentEnvCalls
    <3>4. \A n \in DOMAIN left : Sent(left, ask)[n] = left[n]
      BY <3>1, SentShape
    <3> QED BY <2>2, <3>2, <3>3, <3>4
  <2> QED BY <1>2, <1>3, <1>4, <1>6, <2>3
<1> QED BY <1>5, <1>6

\* A call that was answered is gone.
LEMMA DroppedSound ==
  ASSUME NEW n, NEW count \in Nat, NEW h, NEW seen, CallsSound(calls, count, h, seen)
  PROVE  /\ CallsSound(Dropped(calls, n), count, h, seen)
         /\ DOMAIN Dropped(calls, n) = DOMAIN calls \ {n}
         /\ EnvCalls(Dropped(calls, n)) = EnvCalls(calls) \ {n}
         /\ \A m \in DOMAIN calls \ {n} : Dropped(calls, n)[m] = calls[m]
<1>1. /\ DOMAIN Dropped(calls, n) = DOMAIN calls \ {n}
      /\ \A m \in DOMAIN calls \ {n} : Dropped(calls, n)[m] = calls[m]
  BY DEF Dropped
<1>2. EnvCalls(Dropped(calls, n)) = EnvCalls(calls) \ {n}
  BY <1>1 DEF EnvCalls
<1>3. IsFiniteSet(DOMAIN Dropped(calls, n))
  BY <1>1, FS_Subset DEF CallsSound
<1>4. \A m \in DOMAIN Dropped(calls, n) : CallSound(Dropped(calls, n)[m], h, seen)
  BY <1>1 DEF CallsSound
<1>5. Cardinality(Counted(Dropped(calls, n))) <= count
  <2>1. IsFiniteSet(Counted(calls)) /\ Cardinality(Counted(calls)) <= count /\ Cardinality(Counted(calls)) \in Nat
    BY FS_Subset, FS_CardinalityType DEF CallsSound, Counted
  <2>2. Counted(Dropped(calls, n)) \subseteq Counted(calls)
    BY <1>1 DEF Counted
  <2>3. /\ Cardinality(Counted(Dropped(calls, n))) <= Cardinality(Counted(calls))
        /\ Cardinality(Counted(Dropped(calls, n))) \in Nat
    BY <2>1, <2>2, FS_Subset, FS_CardinalityType
  <2> QED BY <2>1, <2>3
<1> QED BY <1>1, <1>2, <1>3, <1>4, <1>5 DEF CallsSound

-----------------------------------------------------------------------------
(* Steps of the page: each part of it stays, or becomes something sound.   *)

TabsNext == shown' \in Seq(Envs) /\ active' \in Envs \cup {NoEnv} /\ diffSource' \in Envs \cup {NoEnv}
RowsNext == \A r \in rows' : Sound(r, vault)
EditorNext ==
  /\ DOMAIN editor' = DOMAIN NoEditor
  /\ editor'.mode = "edit" => Sound(editor'.row, vault) /\ Seen(editor'.row, settled)
RevealedNext == revealed' \subseteq Slots \X Nat
SheetNext ==
  /\ DOMAIN sheet' = DOMAIN NoSheet
  /\ {sheet'.text, sheet'.preview} \subseteq Texts \cup {NoText} /\ sheet'.selected \subseteq Keys
  /\ sheet'.preview # NoText => sheet'.selected \subseteq sheet'.preview.keys
DrawerNext == DOMAIN drawer' = DOMAIN NoDrawer /\ (drawer'.open => Sound(drawer'.row, vault))
CallsNext == clicks' \in Nat /\ CallsSound(calls', clicks', vault, settled)

TableStep == TabsNext /\ RowsNext /\ EditorNext /\ RevealedNext
PageStep == TableStep /\ SheetNext /\ DrawerNext /\ CallsNext

\* The manager's calls and what they are about stay as they are.
TabsKept ==
  /\ shown' = shown /\ order' = order
  /\ EnvCalls(calls') = EnvCalls(calls)
  /\ \A n \in EnvCalls(calls) : calls'[n].ask = calls[n].ask /\ calls'[n].reply = calls[n].reply

LEMMA Still ==
  ASSUME ConsoleInv
  PROVE  /\ UNCHANGED <<shown, active, diffSource>> => TabsNext
         /\ UNCHANGED rows => RowsNext
         /\ UNCHANGED editor => EditorNext
         /\ UNCHANGED revealed => RevealedNext
         /\ UNCHANGED sheet => SheetNext
         /\ UNCHANGED drawer => DrawerNext
         /\ UNCHANGED wire => CallsNext
         /\ UNCHANGED <<wire, shown, order>> => TabsKept
<1>1. UNCHANGED <<shown, active, diffSource>> => TabsNext
  BY DEF ConsoleInv, PageSound, TabsNext
<1>2. UNCHANGED rows => RowsNext
  BY DEF ConsoleInv, PageSound, RowsNext
<1>3. UNCHANGED editor => EditorNext
  BY DEF ConsoleInv, PageSound, EditorNext
<1>4. UNCHANGED revealed => RevealedNext
  BY DEF ConsoleInv, PageSound, RevealedNext
<1>5. UNCHANGED sheet => SheetNext
  BY DEF ConsoleInv, PageSound, SheetNext
<1>6. UNCHANGED drawer => DrawerNext
  BY DEF ConsoleInv, PageSound, DrawerNext
<1>7. UNCHANGED wire => CallsNext
  BY DEF ConsoleInv, CallsNext, wire
<1>8. UNCHANGED <<wire, shown, order>> => TabsKept
  BY DEF TabsKept, wire
<1> QED BY <1>1, <1>2, <1>3, <1>4, <1>5, <1>6, <1>7, <1>8

\* Watch records what is settled, and whether the manager's calls get tangled.
LEMMA Watched ==
  ASSUME ConsoleInv, Watch, IsFiniteSet(DOMAIN calls')
  PROVE  /\ settled \subseteq settled'
         /\ \A r \in rows' : Seen(r, settled')
         /\ drawer'.open => Seen(drawer'.row, settled')
         /\ ~tangled' => /\ ~tangled
                         /\ \A m, n \in EnvCalls(calls') : m = n
                         /\ \A n \in EnvCalls(calls') : calls'[n].reply # "failed"
<1>1. settled \subseteq settled'
  BY DEF Watch
<1>2. \A r \in rows' : Seen(r, settled')
  BY DEF Watch, Showing, Seen
<1>3. drawer'.open => Seen(drawer'.row, settled')
  BY DEF Watch, Showing, Seen
<1>4. ASSUME ~tangled' PROVE ~tangled /\ Cardinality(EnvCalls(calls')) <= 1 /\ \A n \in EnvCalls(calls') : calls'[n].reply # "failed"
  <2>1. IsFiniteSet(EnvCalls(calls'))
    BY FS_Subset DEF EnvCalls
  <2>2. Cardinality(EnvCalls(calls')) \in Nat
    BY <2>1, FS_CardinalityType
  <2>3. /\ ~tangled /\ ~(Cardinality(EnvCalls(calls')) > 1)
        /\ ~(\E n \in EnvCalls(calls') : calls'[n].reply = "failed")
    BY <1>4, Zenon DEF Watch
  <2> QED BY <2>2, <2>3
<1>5. ASSUME ~tangled', NEW m \in EnvCalls(calls'), NEW n \in EnvCalls(calls') PROVE m = n
  <2>1. IsFiniteSet(EnvCalls(calls'))
    BY FS_Subset DEF EnvCalls
  <2>2. Cardinality(EnvCalls(calls')) = 1
    BY <1>4, <1>5, <2>1, FS_EmptySet, FS_CardinalityType
  <2>3. \E x : EnvCalls(calls') = {x}
    BY <2>1, <2>2, FS_Singleton
  <2> QED BY <1>5, <2>3
<1> QED BY <1>1, <1>2, <1>3, <1>4, <1>5

\* A step of the page keeps what it shows and asks for sound.
LEMMA PageStepSound ==
  ASSUME ConsoleInv, PageStep, UNCHANGED server, Watch
  PROVE  clicks' \in Nat /\ ServerSound' /\ PageSound' /\ CallsSound(calls', clicks', vault', settled')
<1>1. IsFiniteSet(DOMAIN calls') /\ CallsSound(calls', clicks', vault, settled) /\ clicks' \in Nat
  BY DEF PageStep, CallsNext, CallsSound
<1>2. /\ settled \subseteq settled'
      /\ \A r \in rows' : Seen(r, settled')
      /\ drawer'.open => Seen(drawer'.row, settled')
  BY <1>1, Watched
<1>3. vault' = vault /\ deleted' = deleted /\ order' = order /\ retired' = retired
  BY DEF server
<1>4. Grows(vault, vault, settled, settled')
  <2>1. ASSUME NEW s \in Slots PROVE Len(vault[s]) <= Len(vault[s])
    <3>1. vault[s] \in Seq(Writers)
      BY DEF ConsoleInv, ServerSound
    <3> QED BY <3>1
  <2> QED BY <1>2, <2>1 DEF Grows, ConsoleInv, ServerSound
<1>5. CallsSound(calls', clicks', vault', settled')
  BY <1>1, <1>3, <1>4, CallsLater
<1>6. ServerSound'
  BY <1>2, <1>3 DEF ConsoleInv, ServerSound, EditsSighted
<1>7. PageSound'
  BY <1>2, <1>3 DEF PageStep, TableStep, TabsNext, RowsNext, EditorNext, RevealedNext, SheetNext, DrawerNext, PageSound, Seen
<1> QED BY <1>1, <1>5, <1>6, <1>7

\* The tabs follow as long as nothing of the manager moves.
LEMMA TabsKeptSound ==
  ASSUME ConsoleInv, TabsKept, Watch, IsFiniteSet(DOMAIN calls')
  PROVE  TabsFollow'
<1> SUFFICES ASSUME ~tangled' PROVE TabsFollow'
  BY DEF TabsFollow
<1>1. /\ ~tangled
      /\ \A m, n \in EnvCalls(calls') : m = n
      /\ \A n \in EnvCalls(calls') : calls'[n].reply # "failed"
  BY Watched
<1> QED BY <1>1 DEF ConsoleInv, TabsFollow, TabsKept

\* A click that sends a sound call, which is no listing.
LEMMA SendNext ==
  ASSUME ConsoleInv, NEW ask, Send(ask), AskSound(ask, vault, settled), ask.op # "list"
  PROVE  /\ CallsNext
         /\ EnvCalls(calls') = EnvCalls(calls) \cup (IF ask.op \in EnvOps THEN {FreshCall} ELSE {})
         /\ FreshCall \notin EnvCalls(calls)
         /\ \A n \in EnvCalls(calls) : calls'[n] = calls[n]
         /\ calls'[FreshCall] = [ask |-> ask, attached |-> TRUE, reply |-> "none", rows |-> {}]
<1>1. clicks \in Nat /\ CallsSound(calls, clicks, vault, settled) /\ IsFiniteSet(DOMAIN calls)
  BY DEF ConsoleInv, CallsSound
<1>2. clicks' = clicks + 1 /\ calls' = Sent(calls, ask)
  BY DEF Send, Click
<1>3. CallsSound(Sent(calls, ask), IF ask.op = "list" THEN clicks ELSE clicks + 1, vault, settled)
  BY <1>1, SentSound
<1>4. CallsNext
  BY <1>1, <1>2, <1>3 DEF CallsNext
<1>5. EnvCalls(Sent(calls, ask)) = EnvCalls(calls) \cup (IF ask.op \in EnvOps THEN {FreshCall} ELSE {})
  BY <1>1, SentEnvCalls
<1>6. /\ FreshCall \notin DOMAIN calls
      /\ \A n \in DOMAIN calls : Sent(calls, ask)[n] = calls[n]
      /\ Sent(calls, ask)[FreshCall] = [ask |-> ask, attached |-> TRUE, reply |-> "none", rows |-> {}]
  BY <1>1, SentShape
<1> QED BY <1>2, <1>4, <1>5, <1>6 DEF EnvCalls

LEMMA PageSend ==
  ASSUME ConsoleInv, NEW ask, Send(ask), AskSound(ask, vault, settled), ask.op \notin {"list"} \cup EnvOps,
         UNCHANGED <<shown, server>>
  PROVE  CallsNext /\ TabsKept
<1>1. /\ CallsNext
      /\ EnvCalls(calls') = EnvCalls(calls) \cup (IF ask.op \in EnvOps THEN {FreshCall} ELSE {})
      /\ \A n \in EnvCalls(calls) : calls'[n] = calls[n]
  BY SendNext
<1> QED BY <1>1 DEF TabsKept, server

\* A click that changes the tab asks for its listing.
LEMMA PageList ==
  ASSUME ConsoleInv, Click, NEW env \in Envs, calls' = Listing(calls, env), UNCHANGED <<shown, server>>
  PROVE  CallsNext /\ TabsKept
<1>1. clicks \in Nat /\ CallsSound(calls, clicks, vault, settled) /\ IsFiniteSet(DOMAIN calls)
  BY DEF ConsoleInv, CallsSound
<1>2. /\ CallsSound(Listing(calls, env), clicks, vault, settled)
      /\ EnvCalls(Listing(calls, env)) = EnvCalls(calls)
      /\ \A n \in DOMAIN calls : Listing(calls, env)[n].ask = calls[n].ask /\ Listing(calls, env)[n].reply = calls[n].reply
  BY <1>1, ListingSound
<1>3. clicks' = clicks + 1
  BY DEF Click
<1>4. Cardinality(Counted(calls')) \in Nat
  BY <1>2, FS_Subset, FS_CardinalityType DEF CallsSound, Counted
<1>5. CallsNext
  BY <1>1, <1>2, <1>3, <1>4 DEF CallsNext, CallsSound
<1> QED BY <1>2, <1>5 DEF TabsKept, EnvCalls, server

\* Closing a dialog detaches it from its calls.
LEMMA PageDetach ==
  ASSUME ConsoleInv, NEW ops, calls' = Detached(ops), UNCHANGED <<clicks, shown, server>>
  PROVE  CallsNext /\ TabsKept
<1>1. clicks \in Nat /\ CallsSound(calls, clicks, vault, settled)
  BY DEF ConsoleInv
<1>2. /\ CallsSound(Detached(ops), clicks, vault, settled)
      /\ EnvCalls(Detached(ops)) = EnvCalls(calls)
      /\ \A n \in DOMAIN calls : Detached(ops)[n].ask = calls[n].ask /\ Detached(ops)[n].reply = calls[n].reply
  BY <1>1, DetachedSound
<1> QED BY <1>1, <1>2 DEF CallsNext, TabsKept, EnvCalls, server

\* The answer of a call that is not the manager's has been handled.
LEMMA PageAnswered ==
  ASSUME ConsoleInv, NEW n \in DOMAIN calls, calls[n].ask.op \notin EnvOps, calls' = Dropped(calls, n),
         UNCHANGED <<clicks, shown, server>>
  PROVE  CallsNext /\ TabsKept
<1>1. clicks \in Nat /\ CallsSound(calls, clicks, vault, settled)
  BY DEF ConsoleInv
<1>2. /\ CallsSound(Dropped(calls, n), clicks, vault, settled)
      /\ EnvCalls(Dropped(calls, n)) = EnvCalls(calls) \ {n}
      /\ \A m \in DOMAIN calls \ {n} : Dropped(calls, n)[m] = calls[m]
  BY <1>1, DroppedSound
<1>3. n \notin EnvCalls(calls)
  BY DEF EnvCalls
<1> QED BY <1>1, <1>2, <1>3 DEF CallsNext, TabsKept, EnvCalls, server

-----------------------------------------------------------------------------
(* Clicks on the table.                                                    *)

LEMMA SelectTabStep ==
  ASSUME ConsoleInv, NEW e \in Envs, SelectTab(e), UNCHANGED <<dialogs, manager, server>>
  PROVE  PageStep /\ TabsKept
<1>1. CallsNext /\ TabsKept
  BY PageList DEF SelectTab
<1>2. TabsNext
  BY DEF SelectTab, TabsNext, ConsoleInv, PageSound
<1> QED BY <1>1, <1>2, Still DEF SelectTab, PageStep, TableStep, dialogs

LEMMA SelectSourceStep ==
  ASSUME ConsoleInv, NEW e \in Envs, SelectSource(e), UNCHANGED <<dialogs, manager, server>>
  PROVE  PageStep /\ TabsKept
<1>1. TabsNext
  BY DEF SelectSource, TabsNext, ConsoleInv, PageSound
<1> QED BY <1>1, Still DEF SelectSource, PageStep, TableStep, dialogs, server

LEMMA RevealStep ==
  ASSUME ConsoleInv, NEW r \in rows, Reveal(r), UNCHANGED <<dialogs, manager, server>>
  PROVE  PageStep /\ TabsKept
<1>1. RevealedNext
  BY DEF Reveal, Masked, RevealedNext, ConsoleInv, PageSound
<1>2. CallsNext /\ TabsKept
  <2>1. CASE UNCHANGED wire
    BY <2>1, Still DEF Reveal, server
  <2>2. CASE Send([op |-> "reveal", id |-> r.id])
    <3>1. AskSound([op |-> "reveal", id |-> r.id], vault, settled)
      BY DEF AskSound, Ops, EnvOps
    <3>2. "reveal" \notin {"list"} \cup EnvOps
      BY DEF EnvOps
    <3> QED BY <2>2, <3>1, <3>2, PageSend DEF Reveal
  <2> QED BY <2>1, <2>2 DEF Reveal
<1> QED BY <1>1, <1>2, Still DEF Reveal, PageStep, TableStep, dialogs

LEMMA EditorStep ==
  ASSUME ConsoleInv, OpenAdd \/ CloseEditor \/ (\E r \in rows : OpenEdit(r)), UNCHANGED <<dialogs, manager, server>>
  PROVE  PageStep /\ TabsKept
<1>1. EditorNext
  BY DEF OpenAdd, CloseEditor, OpenEdit, Opened, NoEditor, EditorNext, ConsoleInv, PageSound
<1> QED BY <1>1, Still DEF OpenAdd, CloseEditor, OpenEdit, Opened, PageStep, TableStep, dialogs, server

LEMMA FixHealthCellStep ==
  ASSUME ConsoleInv, NEW s \in Slots, NEW named \in BOOLEAN, FixHealthCell(s, named), UNCHANGED <<dialogs, manager, server>>
  PROVE  PageStep /\ TabsKept
<1>1. EditorNext /\ UNCHANGED <<shown, diffSource, rows, revealed, armed>>
  BY DEF FixHealthCell, Opened, NoEditor, EditorNext, ConsoleInv, PageSound
<1>2. s[1] \in Envs /\ active' = s[1]
  BY DEF Slots, FixHealthCell
<1>3. TabsNext
  BY <1>1, <1>2 DEF TabsNext, ConsoleInv, PageSound
<1>4. CallsNext /\ TabsKept
  BY <1>1, <1>2, PageList, Still DEF FixHealthCell, server
<1> QED BY <1>1, <1>3, <1>4, Still DEF PageStep, TableStep, dialogs

\* A prediction is a row.
LEMMA RowChanged ==
  ASSUME NEW h, NEW b \in TableRow, NEW v \in Nat \ {0}
  PROVE  Sound([b EXCEPT !.ver = v, !.pending = TRUE, !.conflict = FALSE], h)
<1> DEFINE a == [b EXCEPT !.ver = v, !.pending = TRUE, !.conflict = FALSE]
<1>1. a \in TableRow
  BY DEF TableRow
<1>2. a.pending
  BY DEF TableRow
<1> QED BY <1>1, <1>2 DEF Sound

\* What an edit predicts is pending; what it starts from can be put back.
LEMMA SaveEditStep ==
  ASSUME ConsoleInv, NEW replaces \in BOOLEAN, SaveEdit(replaces), UNCHANGED <<dialogs, manager, server>>
  PROVE  PageStep /\ TabsKept
<1> DEFINE before == editor.row
           after == [before EXCEPT !.ver = IF replaces THEN @ + 1 ELSE @, !.pending = TRUE, !.conflict = FALSE]
           ask == [op |-> "update", id |-> before.id, expected |-> before.ver, replaces |-> replaces,
                   before |-> before, writer |-> IF before.pending THEN "guess" ELSE "edit"]
<1>1. Sound(before, vault) /\ Seen(before, settled) /\ before \in TableRow
  BY DEF SaveEdit, ConsoleInv, PageSound, Sound
<1>2. /\ Send(ask) /\ rows' = Mapped(before.id, after) /\ editor' = NoEditor
      /\ IF replaces THEN Masked(before.id) ELSE UNCHANGED <<revealed, armed>>
      /\ UNCHANGED <<shown, active, diffSource>>
  BY DEF SaveEdit
<1>3. Sound(after, vault)
  <2>1. before.ver \in Nat \ {0} /\ before.ver + 1 \in Nat \ {0}
    BY <1>1 DEF TableRow
  <2>2. ASSUME NEW v \in Nat \ {0} PROVE Sound([before EXCEPT !.ver = v, !.pending = TRUE, !.conflict = FALSE], vault)
    BY <1>1, RowChanged
  <2>3. CASE replaces
    <3>1. after = [before EXCEPT !.ver = before.ver + 1, !.pending = TRUE, !.conflict = FALSE]
      BY <2>3
    <3> QED BY <2>1, <2>2, <3>1
  <2>4. CASE ~replaces
    <3>1. after = [before EXCEPT !.ver = before.ver, !.pending = TRUE, !.conflict = FALSE]
      BY <2>4
    <3> QED BY <2>1, <2>2, <3>1
  <2> QED BY <2>3, <2>4
<1> HIDE DEF after
<1>4. RowsNext
  BY <1>2, <1>3 DEF Mapped, RowsNext, ConsoleInv, PageSound
<1>5. AskSound(ask, vault, settled)
  BY <1>1 DEF AskSound, Ops, EnvOps, Seen
<1>6. ask.op \notin {"list"} \cup EnvOps
  BY DEF EnvOps
<1> HIDE DEF ask
<1>7. CallsNext /\ TabsKept
  BY <1>2, <1>5, <1>6, PageSend
<1>8. RevealedNext
  BY <1>2 DEF Masked, RevealedNext, ConsoleInv, PageSound
<1>9. EditorNext
  BY <1>2 DEF EditorNext, NoEditor
<1> QED BY <1>2, <1>4, <1>7, <1>8, <1>9, Still DEF PageStep, TableStep, dialogs

LEMMA EnvironmentOf ==
  ASSUME ConsoleInv, Environment # NoEnv
  PROVE  Environment \in Envs
BY DEF ConsoleInv, PageSound, Environment, ShownEnvs, FirstOf

LEMMA SaveAddStep ==
  ASSUME ConsoleInv, NEW k \in Keys, SaveAdd(k), UNCHANGED <<dialogs, manager, server>>
  PROVE  PageStep /\ TabsKept
<1> DEFINE temporary == <<Environment, k, clicks>>
           ask == [op |-> "create", slot |-> <<Environment, k>>, temporary |-> temporary]
<1>1. /\ Send(ask) /\ rows' = rows \cup {Row(temporary, 1, TRUE)} /\ editor' = NoEditor
      /\ UNCHANGED <<shown, active, diffSource, revealed, armed>>
  BY DEF SaveAdd
<1>2. Environment \in Envs /\ clicks \in Nat
  BY EnvironmentOf DEF SaveAdd, ConsoleInv
<1>3. Sound(Row(temporary, 1, TRUE), vault)
  BY <1>2 DEF Row, Sound, TableRow
<1>4. RowsNext
  BY <1>1, <1>3 DEF RowsNext, ConsoleInv, PageSound
<1>5. AskSound(ask, vault, settled)
  BY <1>2 DEF AskSound, Ops, EnvOps, Slots
<1>6. ask.op \notin {"list"} \cup EnvOps
  BY DEF EnvOps
<1> HIDE DEF ask
<1>7. CallsNext /\ TabsKept
  BY <1>1, <1>5, <1>6, PageSend
<1>8. EditorNext
  BY <1>1 DEF EditorNext, NoEditor
<1> QED BY <1>1, <1>4, <1>7, <1>8, Still DEF PageStep, TableStep, dialogs

-----------------------------------------------------------------------------
(* Clicks in the dialogs.                                                  *)

LEMMA SheetStep ==
  ASSUME ConsoleInv, UNCHANGED <<table, drawer>>, SheetNext, CallsNext
  PROVE  PageStep
BY Still DEF PageStep, TableStep, table

LEMMA DrawerStep ==
  ASSUME ConsoleInv, UNCHANGED <<table, sheet>>, DrawerNext, CallsNext
  PROVE  PageStep
BY Still DEF PageStep, TableStep, table

LEMMA ImportTyped ==
  ASSUME ConsoleInv, OpenImport \/ (\E t \in Texts : Type(t)) \/ Back
                     \/ (\E strategy \in {"skip", "overwrite", "merge"} : Choose(strategy)) \/ (\E k \in Keys : Toggle(k)),
         UNCHANGED <<manager, server>>
  PROVE  PageStep /\ TabsKept
<1>1. UNCHANGED <<table, drawer, wire>>
  BY DEF OpenImport, Type, Back, Choose, Toggle, Sheet
<1>2. SheetNext
  <2>0. /\ DOMAIN sheet = DOMAIN NoSheet
        /\ {sheet.text, sheet.preview} \subseteq Texts \cup {NoText} /\ sheet.selected \subseteq Keys
        /\ sheet.preview # NoText => sheet.selected \subseteq sheet.preview.keys
    BY DEF ConsoleInv, PageSound
  <2>1. CASE OpenImport
    BY <2>1 DEF OpenImport, Sheet, SheetNext, NoSheet
  <2>2. ASSUME NEW t \in Texts, Type(t) PROVE SheetNext
    BY <2>0, <2>2 DEF Type, Sheet, SheetNext, NoSheet
  <2>3. CASE Back
    BY <2>0, <2>3 DEF Back, Sheet, SheetNext, NoSheet
  <2>4. ASSUME NEW strategy \in {"skip", "overwrite", "merge"}, Choose(strategy) PROVE SheetNext
    BY <2>0, <2>4 DEF Choose, Sheet, SheetNext, NoSheet
  <2>5. ASSUME NEW k \in Keys, Toggle(k) PROVE SheetNext
    BY <2>0, <2>5 DEF Toggle, Sheet, SheetNext, NoSheet
  <2> QED BY <2>1, <2>2, <2>3, <2>4, <2>5
<1>3. CallsNext /\ TabsKept
  BY <1>1, Still DEF table, server
<1> QED BY <1>1, <1>2, <1>3, SheetStep

LEMMA CloseImportStep ==
  ASSUME ConsoleInv, CloseImport, UNCHANGED <<manager, server>>
  PROVE  PageStep /\ TabsKept
<1>1. SheetNext
  BY DEF CloseImport, Sheet, SheetNext, NoSheet
<1>2. CallsNext /\ TabsKept
  BY PageDetach DEF CloseImport, Sheet, table
<1> QED BY <1>1, <1>2, SheetStep DEF CloseImport, Sheet

LEMMA ReviewStep ==
  ASSUME ConsoleInv, Review, UNCHANGED <<manager, server>>
  PROVE  PageStep /\ TabsKept
<1> DEFINE ask == [op |-> "preview", text |-> sheet.text]
<1>0. /\ DOMAIN sheet = DOMAIN NoSheet
      /\ {sheet.text, sheet.preview} \subseteq Texts \cup {NoText} /\ sheet.selected \subseteq Keys
      /\ sheet.preview # NoText => sheet.selected \subseteq sheet.preview.keys
  BY DEF ConsoleInv, PageSound
<1>1. SheetNext
  BY <1>0 DEF Review, Sheet, SheetNext, NoSheet
<1>2. sheet.text \in Texts /\ sheet.text.keys \subseteq Keys
  BY <1>0, TextsAssumption DEF Review
<1>3. AskSound(ask, vault, settled)
  BY <1>2 DEF AskSound, Ops, EnvOps
<1>4. ask.op \notin {"list"} \cup EnvOps
  BY DEF EnvOps
<1>5. Send(ask)
  BY DEF Review
<1> HIDE DEF ask
<1>6. CallsNext /\ TabsKept
  BY <1>3, <1>4, <1>5, PageSend DEF Review, Sheet, table
<1> QED BY <1>1, <1>6, SheetStep DEF Review, Sheet

LEMMA CommitImportStep ==
  ASSUME ConsoleInv, CommitImport, UNCHANGED <<manager, server>>
  PROVE  PageStep /\ TabsKept
<1> DEFINE chosen == IF sheet.strategy = "merge" THEN sheet.selected ELSE {}
           ask == [op |-> "import", env |-> Environment, text |-> sheet.text, strategy |-> sheet.strategy,
                   selected |-> chosen, reviewed |-> sheet.preview]
<1>0. /\ DOMAIN sheet = DOMAIN NoSheet
      /\ {sheet.text, sheet.preview} \subseteq Texts \cup {NoText} /\ sheet.selected \subseteq Keys
      /\ sheet.preview # NoText => sheet.selected \subseteq sheet.preview.keys
  BY DEF ConsoleInv, PageSound
<1>1. SheetNext
  BY <1>0 DEF CommitImport, Sheet, SheetNext, NoSheet
<1>2. sheet.text.keys \subseteq Keys
  BY <1>0, TextsAssumption DEF NoText
<1>3. AskSound(ask, vault, settled)
  BY <1>0, <1>2 DEF CommitImport, AskSound, Ops, EnvOps
<1>4. ask.op \notin {"list"} \cup EnvOps
  BY DEF EnvOps
<1>5. Send(ask)
  BY DEF CommitImport
<1> HIDE DEF ask
<1>6. CallsNext /\ TabsKept
  BY <1>3, <1>4, <1>5, PageSend DEF CommitImport, Sheet, table
<1> QED BY <1>1, <1>6, SheetStep DEF CommitImport, Sheet

LEMMA HistoryShown ==
  ASSUME ConsoleInv, (\E r \in rows : OpenHistory(r)) \/ MaskComparison, UNCHANGED <<manager, server>>
  PROVE  PageStep /\ TabsKept
<1>1. UNCHANGED <<table, sheet, wire>>
  BY DEF OpenHistory, MaskComparison, Drawer
<1>2. DrawerNext
  <2>1. ASSUME NEW r \in rows, OpenHistory(r) PROVE DrawerNext
    BY <2>1 DEF OpenHistory, Drawer, DrawerNext, NoDrawer, ConsoleInv, PageSound
  <2>2. CASE MaskComparison
    BY <2>2 DEF MaskComparison, Drawer, DrawerNext, NoDrawer, ConsoleInv, PageSound
  <2> QED BY <2>1, <2>2
<1>3. CallsNext /\ TabsKept
  BY <1>1, Still DEF table, server
<1> QED BY <1>1, <1>2, <1>3, DrawerStep

LEMMA CloseHistoryStep ==
  ASSUME ConsoleInv, CloseHistory, UNCHANGED <<manager, server>>
  PROVE  PageStep /\ TabsKept
<1>1. DrawerNext
  BY DEF CloseHistory, Drawer, DrawerNext, NoDrawer
<1>2. CallsNext /\ TabsKept
  BY PageDetach DEF CloseHistory, Drawer, table
<1> QED BY <1>1, <1>2, DrawerStep DEF CloseHistory, Drawer

LEMMA CompareStep ==
  ASSUME ConsoleInv, NEW reveal \in BOOLEAN, Compare(reveal), UNCHANGED <<manager, server>>
  PROVE  PageStep /\ TabsKept
<1> DEFINE ask == [op |-> "compare", id |-> drawer.row.id, reveal |-> reveal]
<1>1. DrawerNext
  BY DEF Compare, Drawer, DrawerNext, NoDrawer, ConsoleInv, PageSound
<1>2. AskSound(ask, vault, settled)
  BY DEF AskSound, Ops, EnvOps
<1>3. ask.op \notin {"list"} \cup EnvOps
  BY DEF EnvOps
<1>4. Send(ask)
  BY DEF Compare
<1> HIDE DEF ask
<1>5. CallsNext /\ TabsKept
  BY <1>2, <1>3, <1>4, PageSend DEF Compare, Drawer, table
<1> QED BY <1>1, <1>5, DrawerStep DEF Compare, Drawer

\* A rollback is of what the drawer shows, which has been shown.
LEMMA RollBackStep ==
  ASSUME ConsoleInv, RollBack, UNCHANGED <<manager, server>>
  PROVE  PageStep /\ TabsKept
<1> DEFINE ask == [op |-> "rollback", id |-> drawer.row.id, expected |-> drawer.row.ver, replaces |-> TRUE,
                   writer |-> IF drawer.row.pending THEN "guess" ELSE "edit"]
<1>1. DrawerNext
  BY DEF RollBack, Drawer, DrawerNext, NoDrawer, ConsoleInv, PageSound
<1>2. Seen(drawer.row, settled)
  BY DEF RollBack, ConsoleInv, PageSound
<1>3. AskSound(ask, vault, settled)
  BY <1>2 DEF AskSound, Ops, EnvOps, Seen
<1>4. ask.op \notin {"list"} \cup EnvOps
  BY DEF EnvOps
<1>5. Send(ask)
  BY DEF RollBack
<1> HIDE DEF ask
<1>6. CallsNext /\ TabsKept
  BY <1>3, <1>4, <1>5, PageSend DEF RollBack, Drawer, table
<1> QED BY <1>1, <1>6, DrawerStep DEF RollBack, Drawer

LEMMA PromotionStep ==
  ASSUME ConsoleInv, PromotionClick
  PROVE  PageStep /\ TabsKept
<1>0. UNCHANGED <<table, sheet, drawer, server>>
  BY DEF PromotionClick, Opening, InDialog, OpenPromotion, ClosePromotion, CommitPromotion, Promotion
<1>1. CallsNext /\ TabsKept
  <2>1. CASE UNCHANGED wire
    BY <1>0, <2>1, Still DEF table, server
  <2>2. CASE ClosePromotion
    BY <1>0, <2>2, PageDetach DEF ClosePromotion, table
  <2>3. CASE CommitPromotion
    <3> DEFINE ask == [op |-> "promote", source |-> promotion.source, target |-> promotion.target, keys |-> promotion.keys]
    <3>1. AskSound(ask, vault, settled)
      BY DEF AskSound, Ops, EnvOps
    <3>2. ask.op \notin {"list"} \cup EnvOps
      BY DEF EnvOps
    <3>3. Send(ask)
      BY <2>3 DEF CommitPromotion
    <3> HIDE DEF ask
    <3> QED BY <1>0, <3>1, <3>2, <3>3, PageSend DEF table
  <2> QED BY <2>1, <2>2, <2>3 DEF PromotionClick, Opening, InDialog, OpenPromotion
<1> QED BY <1>0, <1>1, Still DEF PageStep, TableStep, table

-----------------------------------------------------------------------------
(* Clicks in the manager of environments.                                  *)

\* A list without one of its environments is a list of environments.
LEMMA WithoutType ==
  ASSUME NEW list \in Seq(Envs), NEW e \in Envs, \E i \in DOMAIN list : list[i] = e
  PROVE  Without(list, e) \in Seq(Envs)
<1> DEFINE i == CHOOSE i \in DOMAIN list : list[i] = e
<1>1. i \in DOMAIN list
  OBVIOUS
<1> HIDE DEF i
<1>2. Len(list) \in Nat /\ i \in 1 .. Len(list)
  BY <1>1
<1>3. SubSeq(list, 1, i - 1) \in Seq(Envs) /\ SubSeq(list, i + 1, Len(list)) \in Seq(Envs)
  BY <1>2
<1>4. SubSeq(list, 1, i - 1) \o SubSeq(list, i + 1, Len(list)) \in Seq(Envs)
  BY <1>3
<1> QED BY <1>4 DEF Without, i

\* A call that is the only one of the manager proposes a change of the project's list.
LEMMA RunStep ==
  ASSUME ConsoleInv, NEW op \in EnvOps, NEW env \in Envs, NEW list \in Seq(Envs), NEW confirm, Run(op, env, list, confirm),
         UNCHANGED server, Watch,
         op = "envCreate" => list = Append(shown, env), op = "envUpdate" => list = shown,
         op = "envRemove" => list = Without(shown, env)
  PROVE  PageStep /\ TabsFollow'
<1> DEFINE ask == [op |-> op, env |-> env, list |-> list, confirm |-> confirm, tab |-> active, source |-> diffSource]
<1>1. Send(ask) /\ UNCHANGED <<table, dialogs>>
  BY DEF Run, Manager
<1>2. ask.op = op /\ ask.op \in EnvOps /\ ask.op # "list"
  BY DEF EnvOps
<1>3. AskSound(ask, vault, settled)
  BY DEF AskSound, Ops, EnvOps
<1>4. Proposes(ask, shown)
  BY DEF Proposes
<1> HIDE DEF ask
<1>5. /\ CallsNext
      /\ EnvCalls(calls') = EnvCalls(calls) \cup {FreshCall}
      /\ FreshCall \notin EnvCalls(calls)
      /\ calls'[FreshCall] = [ask |-> ask, attached |-> TRUE, reply |-> "none", rows |-> {}]
  BY <1>1, <1>2, <1>3, SendNext
<1>6. PageStep
  BY <1>1, <1>5, Still DEF PageStep, TableStep, table, dialogs
<1>7. ASSUME ~tangled' PROVE TabsFollow'
  <2>1. IsFiniteSet(DOMAIN calls')
    BY <1>5 DEF CallsNext, CallsSound
  <2>2. /\ ~tangled
        /\ \A m, n \in EnvCalls(calls') : m = n
        /\ \A n \in EnvCalls(calls') : calls'[n].reply # "failed"
    BY <1>7, <2>1, Watched
  <2>3. EnvCalls(calls) = {} /\ EnvCalls(calls') = {FreshCall}
    BY <1>5, <2>2
  <2>4. shown = order /\ shown' = shown /\ order' = order
    BY <1>1, <2>2, <2>3 DEF ConsoleInv, TabsFollow, table, server
  <2>5. calls'[FreshCall].reply = "none" /\ calls'[FreshCall].ask = ask
    BY <1>5
  <2>6. Proposes(calls'[FreshCall].ask, shown')
    BY <1>4, <2>4, <2>5
  <2> QED BY <2>2, <2>3, <2>4, <2>5, <2>6 DEF TabsFollow
<1> QED BY <1>6, <1>7 DEF TabsFollow

LEMMA MoveStep ==
  ASSUME ConsoleInv, NEW i \in DOMAIN shown, NEW j \in DOMAIN shown, Move(i, j), UNCHANGED server, Watch
  PROVE  PageStep /\ TabsFollow'
<1>1. shown \in Seq(Envs)
  BY DEF ConsoleInv, PageSound
<1>2. shown[i] \in Envs /\ shown[j] \in Envs
  BY <1>1
<1>3. [shown EXCEPT ![i] = shown[j], ![j] = shown[i]] \in Seq(Envs)
  BY <1>1, <1>2
<1>4. "envReorder" \in EnvOps
  BY DEF EnvOps
<1> QED BY <1>2, <1>3, <1>4, RunStep DEF Move

LEMMA ManagerStep ==
  ASSUME ConsoleInv, ManagerClick
  PROVE  PageStep /\ TabsFollow'
<1>0. shown \in Seq(Envs) /\ IsFiniteSet(DOMAIN calls)
  BY DEF ConsoleInv, PageSound, CallsSound
<1>1. UNCHANGED server /\ Watch
  BY DEF ManagerClick, InManager
<1>2. ASSUME OpenManager \/ CloseManager PROVE PageStep /\ TabsFollow'
  <2>1. UNCHANGED <<table, dialogs>>
    BY <1>2 DEF OpenManager, CloseManager, Manager
  <2>2. CallsNext /\ TabsKept
    <3>1. CASE OpenManager
      BY <1>1, <2>1, <3>1, Still DEF OpenManager, table, server
    <3>2. CASE CloseManager
      BY <1>1, <2>1, <3>2, PageDetach DEF CloseManager, table
    <3> QED BY <1>2, <3>1, <3>2
  <2>3. PageStep
    BY <2>1, <2>2, Still DEF PageStep, TableStep, table, dialogs
  <2> QED BY <1>1, <2>2, <2>3, TabsKeptSound DEF CallsNext, CallsSound
<1>3. ASSUME NEW i \in DOMAIN shown, NEW j \in DOMAIN shown, Move(i, j) PROVE PageStep /\ TabsFollow'
  BY <1>1, <1>3, MoveStep
<1>4. ASSUME NEW e \in Envs, SaveEnvironment(e) PROVE PageStep /\ TabsFollow'
  <2>1. "envUpdate" \in EnvOps
    BY DEF EnvOps
  <2> QED BY <1>0, <1>1, <1>4, <2>1, RunStep DEF SaveEnvironment
<1>5. ASSUME NEW e \in Envs, CreateEnvironment(e) PROVE PageStep /\ TabsFollow'
  <2>1. "envCreate" \in EnvOps /\ Append(shown, e) \in Seq(Envs)
    BY <1>0 DEF EnvOps
  <2> QED BY <1>1, <1>5, <2>1, RunStep DEF CreateEnvironment
<1>6. ASSUME NEW e \in Envs, RemoveEnvironment(e) PROVE PageStep /\ TabsFollow'
  <2>1. \E i \in DOMAIN shown : shown[i] = e
    BY <1>6 DEF RemoveEnvironment, ShownEnvs
  <2>2. "envRemove" \in EnvOps /\ Without(shown, e) \in Seq(Envs)
    BY <1>0, <2>1, WithoutType DEF EnvOps
  <2> QED BY <1>1, <1>6, <2>2, RunStep DEF RemoveEnvironment
<1> QED BY <1>2, <1>3, <1>4, <1>5, <1>6 DEF ManagerClick, InManager

-----------------------------------------------------------------------------
(* Timers and answers.                                                     *)

LEMMA RemaskStep ==
  ASSUME ConsoleInv, NEW id, Remask(id), UNCHANGED <<dialogs, manager, server>>
  PROVE  PageStep /\ TabsKept
<1>1. RevealedNext
  BY DEF Remask, Masked, RevealedNext, ConsoleInv, PageSound
<1> QED BY <1>1, Still DEF Remask, PageStep, TableStep, dialogs, server

\* Rows that were on the page or came with a sound call are sound.
LEMMA RowsFrom ==
  ASSUME ConsoleInv, NEW n \in DOMAIN calls, rows' \subseteq rows \cup calls[n].rows
  PROVE  RowsNext
BY DEF RowsNext, ConsoleInv, PageSound, CallsSound, CallSound

LEMMA ListAnsweredStep ==
  ASSUME ConsoleInv, NEW n \in DOMAIN calls, InTable(n, ListAnswered(n))
  PROVE  PageStep /\ TabsKept
<1>1. rows' \subseteq rows \cup calls[n].rows
  BY DEF InTable, Handled, ListAnswered
<1>2. CallsNext /\ TabsKept
  BY PageAnswered DEF InTable, Handled, ListAnswered, EnvOps
<1> QED BY <1>1, <1>2, RowsFrom, Still DEF InTable, Handled, ListAnswered, PageStep, TableStep, dialogs

LEMMA RevealAnsweredStep ==
  ASSUME ConsoleInv, NEW n \in DOMAIN calls, InTable(n, RevealAnswered(n))
  PROVE  PageStep /\ TabsKept
<1>1. RevealedNext
  <2>1. ASSUME NEW r \in calls[n].rows, calls[n].ask.op = "reveal" PROVE <<calls[n].ask.id, r.ver>> \in Slots \X Nat
    <3>1. Sound(r, vault) /\ calls[n].ask.id \in Slots
      BY <2>1 DEF ConsoleInv, CallsSound, CallSound
    <3>2. r.ver \in Nat
      BY <3>1 DEF Sound, TableRow
    <3> QED BY <3>1, <3>2
  <2>2. revealed \subseteq Slots \X Nat
    BY DEF ConsoleInv, PageSound
  <2> QED BY <2>1, <2>2 DEF InTable, Handled, RevealAnswered, RevealedNext
<1>2. CallsNext /\ TabsKept
  BY PageAnswered DEF InTable, Handled, RevealAnswered, EnvOps
<1> QED BY <1>1, <1>2, Still DEF InTable, Handled, RevealAnswered, PageStep, TableStep, dialogs

\* A refused edit puts the row back that the editor was opened on.
LEMMA UpdateAnsweredStep ==
  ASSUME ConsoleInv, NEW n \in DOMAIN calls, InTable(n, UpdateAnswered(n))
  PROVE  PageStep /\ TabsKept
<1> DEFINE before == calls[n].ask.before
           back == [before EXCEPT !.conflict = TRUE]
<1>1. CallsNext /\ TabsKept
  BY PageAnswered DEF InTable, Handled, UpdateAnswered, EnvOps
<1>2. RowsNext
  <2>1. CASE Done(n)
    <3>1. rows' \subseteq rows \cup calls[n].rows
      BY <2>1 DEF InTable, Handled, UpdateAnswered
    <3> QED BY <3>1, RowsFrom
  <2>2. CASE ~Done(n)
    <3>1. rows' = Mapped(calls[n].ask.id, back)
      BY <2>2 DEF InTable, Handled, UpdateAnswered
    <3>2. Sound(before, vault)
      BY DEF InTable, Handled, UpdateAnswered, ConsoleInv, CallsSound, CallSound, AskSound
    <3>3. Sound(back, vault)
      <4>1. back \in TableRow /\ back.pending = before.pending /\ back.id = before.id /\ back.ver = before.ver
        BY <3>2 DEF Sound, TableRow
      <4> HIDE DEF back
      <4> QED BY <3>2, <4>1 DEF Sound
    <3> HIDE DEF back
    <3> QED BY <3>1, <3>3 DEF Mapped, RowsNext, ConsoleInv, PageSound
  <2> QED BY <2>1, <2>2
<1> QED BY <1>1, <1>2, Still DEF InTable, Handled, UpdateAnswered, PageStep, TableStep, dialogs

LEMMA CreateAnsweredStep ==
  ASSUME ConsoleInv, NEW n \in DOMAIN calls, InTable(n, CreateAnswered(n))
  PROVE  PageStep /\ TabsKept
<1>1. rows' \subseteq rows \cup calls[n].rows
  BY DEF InTable, Handled, CreateAnswered
<1>2. CallsNext /\ TabsKept
  BY PageAnswered DEF InTable, Handled, CreateAnswered, EnvOps
<1> QED BY <1>1, <1>2, RowsFrom, Still DEF InTable, Handled, CreateAnswered, PageStep, TableStep, dialogs

LEMMA ReviewAnsweredStep ==
  ASSUME ConsoleInv, NEW n \in DOMAIN calls, ByDialog(n, ReviewAnswered(n))
  PROVE  PageStep /\ TabsKept
<1>0. /\ DOMAIN sheet = DOMAIN NoSheet
      /\ {sheet.text, sheet.preview} \subseteq Texts \cup {NoText} /\ sheet.selected \subseteq Keys
      /\ sheet.preview # NoText => sheet.selected \subseteq sheet.preview.keys
  BY DEF ConsoleInv, PageSound
<1>1. calls[n].ask.op = "preview" /\ UNCHANGED <<table, drawer>>
  BY DEF ByDialog, Handled, ReviewAnswered, Sheet
<1>2. calls[n].ask.text \in Texts /\ calls[n].ask.text.keys \subseteq Keys
  BY <1>1 DEF ConsoleInv, CallsSound, CallSound, AskSound
<1>3. SheetNext
  BY <1>0, <1>2 DEF ByDialog, Handled, ReviewAnswered, Sheet, SheetNext, NoSheet
<1>4. CallsNext /\ TabsKept
  BY <1>1, PageAnswered DEF ByDialog, Handled, EnvOps, table
<1> QED BY <1>1, <1>3, <1>4, SheetStep

LEMMA CompareAnsweredStep ==
  ASSUME ConsoleInv, NEW n \in DOMAIN calls, ByDialog(n, CompareAnswered(n))
  PROVE  PageStep /\ TabsKept
<1>1. calls[n].ask.op = "compare" /\ UNCHANGED <<table, sheet>>
  BY DEF ByDialog, Handled, CompareAnswered, Drawer
<1>2. DrawerNext
  BY DEF ByDialog, Handled, CompareAnswered, Drawer, DrawerNext, NoDrawer, ConsoleInv, PageSound
<1>3. CallsNext /\ TabsKept
  BY <1>1, PageAnswered DEF ByDialog, Handled, EnvOps, table
<1> QED BY <1>1, <1>2, <1>3, DrawerStep

\* Merging rows adds the ones that were saved and no others.
LEMMA MergedFrom ==
  ASSUME NEW saved, NEW merged \in Merged(saved)
  PROVE  merged \subseteq rows \cup saved
BY DEF Merged

LEMMA ImportAnsweredStep ==
  ASSUME ConsoleInv, NEW n \in DOMAIN calls, ByDialog(n, ImportAnswered(n))
  PROVE  PageStep /\ TabsKept
<1>1. calls[n].ask.op = "import" /\ UNCHANGED <<shown, active, diffSource, editor, revealed, armed, drawer>>
  BY DEF ByDialog, Handled, ImportAnswered, Sheet, table
<1>2. RowsNext
  <2>1. CASE Done(n)
    BY <2>1, MergedFrom, RowsFrom DEF ByDialog, Handled, ImportAnswered
  <2>2. CASE ~Done(n)
    BY <2>2, Still DEF ByDialog, Handled, ImportAnswered, Sheet, table
  <2> QED BY <2>1, <2>2
<1>3. SheetNext
  BY DEF ByDialog, Handled, ImportAnswered, Sheet, SheetNext, NoSheet, ConsoleInv, PageSound
<1>4. CallsNext /\ TabsKept
  BY <1>1, PageAnswered DEF ByDialog, Handled, EnvOps
<1> QED BY <1>1, <1>2, <1>3, <1>4, Still DEF PageStep, TableStep

LEMMA RollbackAnsweredStep ==
  ASSUME ConsoleInv, NEW n \in DOMAIN calls, ByDialog(n, RollbackAnswered(n))
  PROVE  PageStep /\ TabsKept
<1>1. calls[n].ask.op = "rollback" /\ UNCHANGED <<shown, active, diffSource, editor, revealed, armed, sheet>>
  BY DEF ByDialog, Handled, RollbackAnswered, Drawer, table
<1>2. RowsNext /\ DrawerNext
  <2>1. CASE Done(n)
    <3>1. PICK saved \in calls[n].rows :
            /\ rows' = Mapped(calls[n].ask.id, saved)
            /\ drawer' = IF calls[n].attached THEN [NoDrawer EXCEPT !.open = TRUE, !.row = saved]
                         ELSE [drawer EXCEPT !.open = TRUE, !.row = saved]
      BY <2>1 DEF ByDialog, Handled, RollbackAnswered
    <3>2. Sound(saved, vault)
      BY DEF ConsoleInv, CallsSound, CallSound
    <3>3. rows' \subseteq rows \cup calls[n].rows
      BY <3>1 DEF Mapped
    <3>4. DrawerNext
      BY <3>1, <3>2 DEF DrawerNext, NoDrawer, ConsoleInv, PageSound
    <3> QED BY <3>3, <3>4, RowsFrom
  <2>2. CASE ~Done(n)
    <3>1. UNCHANGED rows
      BY <2>2 DEF ByDialog, Handled, RollbackAnswered, Drawer, table
    <3>2. DrawerNext
      BY <2>2 DEF ByDialog, Handled, RollbackAnswered, Drawer, DrawerNext, NoDrawer, ConsoleInv, PageSound
    <3> QED BY <3>1, <3>2, Still
  <2> QED BY <2>1, <2>2
<1>3. CallsNext /\ TabsKept
  BY <1>1, PageAnswered DEF ByDialog, Handled, EnvOps
<1> QED BY <1>1, <1>2, <1>3, Still DEF PageStep, TableStep

LEMMA PromotionAnsweredStep ==
  ASSUME ConsoleInv, NEW n \in DOMAIN calls, ByDialog(n, PromotionAnswered(n))
  PROVE  PageStep /\ TabsKept
<1>1. calls[n].ask.op = "promote" /\ UNCHANGED <<shown, active, diffSource, editor, revealed, armed, sheet, drawer>>
  BY DEF ByDialog, Handled, PromotionAnswered, Promotion, table
<1>2. RowsNext
  <2>1. CASE Done(n)
    BY <2>1, MergedFrom, RowsFrom DEF ByDialog, Handled, PromotionAnswered
  <2>2. CASE ~Done(n)
    BY <2>2, Still DEF ByDialog, Handled, PromotionAnswered, Promotion, table
  <2> QED BY <2>1, <2>2
<1>3. CallsNext /\ TabsKept
  BY <1>1, PageAnswered DEF ByDialog, Handled, EnvOps
<1> QED BY <1>1, <1>2, <1>3, Still DEF PageStep, TableStep

\* The answer of the manager's only call leaves none, and its proposal on the page.
LEMMA EnvironmentAnsweredStep ==
  ASSUME ConsoleInv, NEW n \in DOMAIN calls, Handled(n, EnvironmentAnswered(n))
  PROVE  PageStep /\ TabsFollow'
<1> DEFINE ask == calls[n].ask
           rest == Dropped(calls, n)
<1>0. /\ clicks \in Nat /\ CallsSound(calls, clicks, vault, settled) /\ IsFiniteSet(DOMAIN calls)
      /\ ask.op \in EnvOps /\ ask.list \in Seq(Envs)
      /\ calls[n].reply \in {"done", "failed", "unconfirmed"}
      /\ UNCHANGED <<server, clicks>> /\ Watch
  BY DEF Handled, EnvironmentAnswered, ConsoleInv, CallsSound, CallSound, AskSound
<1>1. /\ CallsSound(rest, clicks, vault, settled)
      /\ DOMAIN rest \subseteq DOMAIN calls
      /\ EnvCalls(rest) = EnvCalls(calls) \ {n}
  BY <1>0, DroppedSound
<1>2. UNCHANGED <<editor, revealed, armed, sheet, drawer>> /\ rows' \subseteq rows \cup calls[n].rows
  <2>1. CASE Done(n)
    BY <2>1 DEF Handled, EnvironmentAnswered, ApplyEnvironments
  <2>2. CASE ~Done(n)
    BY <2>2 DEF Handled, EnvironmentAnswered, table, dialogs
  <2> QED BY <2>1, <2>2
<1>3. TabsNext
  <2>1. CASE Done(n)
    <3>1. /\ shown' = ask.list
          /\ active' \in {active, FirstOf(ask.list)}
          /\ diffSource' \in {diffSource, FirstOf(ask.list)}
      BY <2>1 DEF Handled, EnvironmentAnswered, ApplyEnvironments
    <3>2. FirstOf(ask.list) \in Envs \cup {NoEnv}
      BY <1>0 DEF FirstOf
    <3> QED BY <1>0, <3>1, <3>2 DEF TabsNext, ConsoleInv, PageSound
  <2>2. CASE ~Done(n)
    BY <2>2, Still DEF Handled, EnvironmentAnswered, table
  <2> QED BY <2>1, <2>2
<1>4. calls' = rest \/ calls' = Listing(rest, active')
  BY DEF Handled, EnvironmentAnswered, ApplyEnvironments
<1> HIDE DEF rest
<1>5. CallsSound(calls', clicks', vault, settled) /\ EnvCalls(calls') = EnvCalls(calls) \ {n}
  <2>1. CASE calls' = rest
    BY <1>0, <1>1, <2>1
  <2>2. CASE calls' = Listing(rest, active')
    <3>1. active' \in Envs \cup {NoEnv}
      BY <1>3 DEF TabsNext
    <3>2. CallsSound(Listing(rest, active'), clicks, vault, settled) /\ EnvCalls(Listing(rest, active')) = EnvCalls(rest)
      BY <1>0, <1>1, <3>1, ListingSound
    <3> QED BY <1>0, <1>1, <2>2, <3>2
  <2> QED BY <1>4, <2>1, <2>2
<1>6. PageStep
  <2>1. RowsNext
    BY <1>2, RowsFrom
  <2> QED BY <1>0, <1>2, <1>3, <1>5, <2>1, Still DEF PageStep, TableStep, CallsNext
<1>7. ASSUME ~tangled' PROVE TabsFollow'
  <2>0. IsFiniteSet(DOMAIN calls')
    BY <1>5 DEF CallsSound
  <2>1. ~tangled
    BY <1>0, <1>7, <2>0, Watched
  <2>2. n \in EnvCalls(calls)
    BY <1>0 DEF EnvCalls
  <2>3. /\ \A m, o \in EnvCalls(calls) : m = o
        /\ calls[n].reply # "failed"
        /\ calls[n].reply = "unconfirmed" => shown = order
        /\ calls[n].reply = "done" => order = ask.list
    BY <2>1, <2>2 DEF ConsoleInv, TabsFollow
  <2>4. EnvCalls(calls') = {}
    BY <1>5, <2>2, <2>3
  <2>5. shown' = order
    <3>1. CASE Done(n)
      BY <2>3, <3>1 DEF Done, Handled, EnvironmentAnswered, ApplyEnvironments
    <3>2. CASE ~Done(n)
      BY <1>0, <2>3, <3>2 DEF Done, Handled, EnvironmentAnswered, table
    <3> QED BY <3>1, <3>2
  <2>6. order' = order
    BY <1>0 DEF server
  <2> QED BY <2>4, <2>5, <2>6 DEF TabsFollow
<1> QED BY <1>6, <1>7 DEF TabsFollow

-----------------------------------------------------------------------------
(* Steps of the server.                                                    *)

\* The server keeps its promises, and the calls in flight theirs.
Served ==
  /\ Grows(vault, vault', settled, settled')
  /\ ServerSound'
  /\ clicks' \in Nat /\ CallsSound(calls', clicks', vault', settled')

LEMMA VaultKept ==
  ASSUME ConsoleInv, Watch, UNCHANGED vault
  PROVE  Grows(vault, vault', settled, settled')
<1>1. ASSUME NEW s \in Slots PROVE Len(vault[s]) <= Len(vault'[s])
  <2>1. vault[s] \in Seq(Writers)
    BY DEF ConsoleInv, ServerSound
  <2> QED BY <2>1
<1> QED BY <1>1 DEF Grows, ConsoleInv, ServerSound, Watch

\* A write adds a version to some secrets; as an edit only to one whose latest version has been shown.
LEMMA WriteSound ==
  ASSUME ConsoleInv, Watch, NEW W \in SUBSET Slots, NEW writer \in Writers, Write(W, writer),
         writer = "edit" => \A s \in W : <<s, Version(s)>> \in settled
  PROVE  /\ Grows(vault, vault', settled, settled')
         /\ ServerSound'
         /\ \A r \in Written(W) : Sound(r, vault') /\ ~r.pending
<1>0. vault \in [Slots -> Seq(Writers)] /\ settled \subseteq settled'
  BY DEF ConsoleInv, ServerSound, Watch
<1>1. ASSUME NEW s \in Slots
      PROVE  /\ vault'[s] = IF s \in W THEN Append(vault[s], writer) ELSE vault[s]
             /\ vault'[s] \in Seq(Writers) /\ Len(vault[s]) <= Len(vault'[s])
             /\ Version(s) \in Nat /\ (s \in W => Len(vault'[s]) = Version(s) + 1)
  <2>1. vault'[s] = IF s \in W THEN Append(vault[s], writer) ELSE vault[s]
    BY DEF Write
  <2>2. vault[s] \in Seq(Writers)
    BY <1>0
  <2> QED BY <2>1, <2>2 DEF Version
<1>2. vault' \in [Slots -> Seq(Writers)]
  <2>1. vault' = [s \in Slots |-> IF s \in W THEN Append(vault[s], writer) ELSE vault[s]]
    BY DEF Write
  <2> QED BY <1>1, <2>1
<1>3. Grows(vault, vault', settled, settled')
  BY <1>0, <1>1, <1>2 DEF Grows
<1>4. ASSUME NEW s \in Slots, NEW v \in 2 .. Len(vault'[s]), vault'[s][v] = "edit"
      PROVE  <<s, v - 1>> \in settled'
  <2>0. vault[s] \in Seq(Writers) /\ Len(vault[s]) \in Nat /\ Version(s) = Len(vault[s])
    BY <1>0 DEF Version
  <2>1. CASE s \in W /\ v = Version(s) + 1
    <3>0. vault'[s] = Append(vault[s], writer)
      BY <1>1, <2>1
    <3>1. vault'[s][v] = writer
      BY <2>0, <2>1, <3>0
    <3>2. <<s, v - 1>> \in settled
      BY <1>1, <1>4, <2>1, <3>1
    <3> QED BY <1>0, <3>2
  <2>2. CASE ~(s \in W /\ v = Version(s) + 1)
    <3>0. s \in W => vault'[s] = Append(vault[s], writer) /\ Len(vault'[s]) = Len(vault[s]) + 1
      BY <1>1, <2>0
    <3>1. v \in 2 .. Len(vault[s]) /\ vault'[s][v] = vault[s][v]
      <4>1. CASE s \in W
        BY <2>0, <2>2, <3>0, <4>1
      <4>2. CASE s \notin W
        BY <1>1, <4>2
      <4> QED BY <4>1, <4>2
    <3> QED BY <1>0, <1>4, <3>1 DEF ConsoleInv, ServerSound, EditsSighted
  <2> QED BY <2>1, <2>2
<1>5. deleted' \subseteq Slots /\ order' \in Seq(Envs) /\ retired' \subseteq Envs
  BY DEF Write, ConsoleInv, ServerSound
<1>6. ServerSound'
  BY <1>2, <1>4, <1>5 DEF ServerSound, EditsSighted
<1>7. ASSUME NEW s \in W PROVE Sound(Row(s, Version(s) + 1, FALSE), vault') /\ ~Row(s, Version(s) + 1, FALSE).pending
  <2>1. s \in Slots /\ Version(s) + 1 \in Nat \ {0} /\ Version(s) + 1 \in 1 .. Len(vault'[s])
    BY <1>1, <1>7
  <2> QED BY <2>1 DEF Sound, TableRow, Row, Slots
<1> QED BY <1>3, <1>6, <1>7 DEF Written

\* What the server has can be shown.
LEMMA ViewSound ==
  ASSUME ConsoleInv, NEW s \in Slots, Present(s)
  PROVE  Sound(View(s), vault) /\ ~View(s).pending /\ View(s).key = s[2]
<1>1. vault[s] \in Seq(Writers) /\ vault[s] # <<>>
  BY DEF ConsoleInv, ServerSound, Present
<1>2. Version(s) \in Nat \ {0} /\ Version(s) \in 1 .. Len(vault[s])
  BY <1>1 DEF Version
<1> QED BY <1>2 DEF Sound, TableRow, View, Row, Slots

LEMMA AnswerShape ==
  ASSUME ConsoleInv, NEW n \in DOMAIN calls, NEW reply, NEW got, Answer(n, reply, got)
  PROVE  /\ DOMAIN calls' = DOMAIN calls /\ EnvCalls(calls') = EnvCalls(calls) /\ Counted(calls') = Counted(calls)
         /\ \A m \in DOMAIN calls : calls'[m].ask = calls[m].ask
         /\ \A m \in DOMAIN calls \ {n} : calls'[m] = calls[m]
         /\ DOMAIN calls'[n] = DOMAIN calls[n] /\ calls'[n].reply = reply /\ calls'[n].rows = got
<1>1. DOMAIN calls[n] = {"ask", "attached", "reply", "rows"}
  BY DEF ConsoleInv, CallsSound, CallSound
<1>2. DOMAIN calls' = DOMAIN calls /\ \A m \in DOMAIN calls \ {n} : calls'[m] = calls[m]
  BY DEF Answer
<1>3. calls'[n] = [calls[n] EXCEPT !.reply = reply, !.rows = got]
  BY DEF Answer
<1>4. calls'[n].ask = calls[n].ask /\ DOMAIN calls'[n] = DOMAIN calls[n] /\ calls'[n].reply = reply /\ calls'[n].rows = got
  BY <1>1, <1>3
<1>5. \A m \in DOMAIN calls : calls'[m].ask = calls[m].ask
  BY <1>2, <1>4
<1>6. EnvCalls(calls') = EnvCalls(calls) /\ Counted(calls') = Counted(calls)
  BY <1>2, <1>5 DEF EnvCalls, Counted
<1> QED BY <1>2, <1>4, <1>5, <1>6

\* An answer is sound if the rows it carries are.
LEMMA AnswerSound ==
  ASSUME ConsoleInv, NEW n \in DOMAIN calls, NEW reply \in {"none", "done", "failed", "unconfirmed"}, NEW got,
         Answer(n, reply, got), UNCHANGED clicks, Grows(vault, vault', settled, settled'),
         \A r \in got : Sound(r, vault') /\ ~r.pending,
         calls[n].ask.op = "reveal" /\ got # {} => calls[n].ask.id \in Slots,
         calls[n].ask.op = "import" /\ calls[n].ask.strategy = "merge" => {r.key : r \in got} \subseteq calls[n].ask.reviewed.keys
  PROVE  clicks' \in Nat /\ CallsSound(calls', clicks', vault', settled')
<1>1. /\ DOMAIN calls' = DOMAIN calls /\ Counted(calls') = Counted(calls)
      /\ \A m \in DOMAIN calls : calls'[m].ask = calls[m].ask
      /\ \A m \in DOMAIN calls \ {n} : calls'[m] = calls[m]
      /\ DOMAIN calls'[n] = DOMAIN calls[n] /\ calls'[n].reply = reply /\ calls'[n].rows = got
  BY AnswerShape
<1>2. \A m \in DOMAIN calls : CallSound(calls[m], vault', settled')
  BY CallLater DEF ConsoleInv, CallsSound
<1>3. CallSound(calls'[n], vault', settled')
  <2>1. CallSound(calls[n], vault', settled') /\ calls'[n].ask = calls[n].ask
    BY <1>1, <1>2
  <2> QED BY <1>1, <2>1 DEF CallSound
<1>4. \A m \in DOMAIN calls' : CallSound(calls'[m], vault', settled')
  BY <1>1, <1>2, <1>3
<1> QED BY <1>1, <1>4 DEF ConsoleInv, CallsSound

\* Refusing changes nothing.
LEMMA RefuseSound ==
  ASSUME ConsoleInv, Watch, NEW n \in DOMAIN calls, NEW reply \in {"failed", "unconfirmed"}, Refuse(n, reply), UNCHANGED clicks
  PROVE  Served
<1>1. Grows(vault, vault', settled, settled')
  BY VaultKept DEF Refuse
<1>2. ServerSound'
  BY DEF Refuse, ConsoleInv, ServerSound, EditsSighted, Watch
<1>3. clicks' \in Nat /\ CallsSound(calls', clicks', vault', settled')
  BY <1>1, AnswerSound DEF Refuse
<1> QED BY <1>1, <1>2, <1>3 DEF Served

LEMMA ServeReadSound ==
  ASSUME ConsoleInv, Watch, NEW n \in DOMAIN calls, ServeRead(n), UNCHANGED clicks
  PROVE  Served
<1> DEFINE ask == calls[n].ask
<1>0. UNCHANGED <<vault, deleted, order, retired>>
  BY DEF ServeRead
<1>1. Grows(vault, vault', settled, settled')
  BY <1>0, VaultKept
<1>2. ServerSound'
  BY <1>0 DEF ConsoleInv, ServerSound, EditsSighted, Watch
<1>3. clicks' \in Nat /\ CallsSound(calls', clicks', vault', settled')
  <2>0. ask.op \in {"list", "reveal", "compare", "preview"}
    BY DEF ServeRead
  <2>1. CASE ask.op = "list"
    <3> DEFINE got == {View(s) : s \in FirstPage(ask.env)}
    <3>1. Answer(n, "done", got)
      BY <2>1 DEF ServeRead, Reads
    <3>2. \A s \in FirstPage(ask.env) : s \in Slots /\ Present(s)
      BY DEF FirstPage
    <3>3. \A r \in got : Sound(r, vault') /\ ~r.pending
      BY <1>0, <3>2, ViewSound
    <3> HIDE DEF got
    <3> QED BY <1>1, <2>1, <3>1, <3>3, AnswerSound
  <2>2. CASE ask.op \in {"reveal", "compare"} /\ ask.id \in Slots /\ Present(ask.id)
    <3> DEFINE got == {View(ask.id)}
    <3>1. Answer(n, "done", got)
      BY <2>2 DEF ServeRead, Reads
    <3>2. \A r \in got : Sound(r, vault') /\ ~r.pending
      BY <1>0, <2>2, ViewSound
    <3> HIDE DEF got
    <3> QED BY <1>1, <2>2, <3>1, <3>2, AnswerSound
  <2>3. CASE (ask.op \in {"reveal", "compare"} /\ ~(ask.id \in Slots /\ Present(ask.id))) \/ ask.op = "preview"
    <3>1. PICK reply \in {"done", "failed"} : Answer(n, reply, {})
      BY <2>3 DEF ServeRead, Reads
    <3> QED BY <1>1, <2>3, <3>1, AnswerSound
  <2> QED BY <2>0, <2>1, <2>2, <2>3
<1> QED BY <1>1, <1>2, <1>3 DEF Served

\* What the server writes for a call is sound, and so is the answer that shows it.
LEMMA WrittenSound ==
  ASSUME ConsoleInv, Watch, NEW n \in DOMAIN calls, NEW W \in SUBSET Slots, NEW writer \in Writers,
         Write(W, writer), Answer(n, "done", Written(W)), UNCHANGED clicks, calls[n].ask.op # "reveal",
         writer = "edit" => \A s \in W : <<s, Version(s)>> \in settled,
         calls[n].ask.op = "import" /\ calls[n].ask.strategy = "merge" => {s[2] : s \in W} \subseteq calls[n].ask.reviewed.keys
  PROVE  Served
<1>1. /\ Grows(vault, vault', settled, settled')
      /\ ServerSound'
      /\ \A r \in Written(W) : Sound(r, vault') /\ ~r.pending
  BY WriteSound
<1>2. {r.key : r \in Written(W)} \subseteq {s[2] : s \in W}
  <2>1. \A s \in W : Row(s, Version(s) + 1, FALSE).key = s[2]
    BY DEF Row
  <2> QED BY <2>1 DEF Written
<1>3. clicks' \in Nat /\ CallsSound(calls', clicks', vault', settled')
  BY <1>1, <1>2, AnswerSound
<1> QED BY <1>1, <1>3 DEF Served

LEMMA ServeUpdateSound ==
  ASSUME ConsoleInv, Watch, NEW n \in DOMAIN calls, ServeUpdate(n), UNCHANGED clicks
  PROVE  Served
<1> DEFINE ask == calls[n].ask
<1>0. /\ ask.op \in {"update", "rollback"}
      /\ ask.writer \in {"edit", "guess"} /\ (ask.writer = "edit" => <<ask.id, ask.expected>> \in settled)
  BY DEF ServeUpdate, ConsoleInv, CallsSound, CallSound, AskSound
<1>1. CASE ask.id \in Slots /\ Present(ask.id) /\ ask.expected = Version(ask.id) /\ ask.replaces
  <2>1. Write({ask.id}, ask.writer) /\ Answer(n, "done", Written({ask.id}))
    BY <1>1 DEF ServeUpdate
  <2>2. {ask.id} \in SUBSET Slots /\ ask.writer \in Writers
    BY <1>0, <1>1 DEF Writers
  <2>3. ask.op # "reveal" /\ ask.op # "import"
    BY <1>0
  <2>4. ask.writer = "edit" => \A s \in {ask.id} : <<s, Version(s)>> \in settled
    BY <1>0, <1>1
  <2> HIDE DEF ask
  <2> QED BY <2>1, <2>2, <2>3, <2>4, WrittenSound DEF ask
<1>2. CASE ask.id \in Slots /\ Present(ask.id) /\ ask.expected = Version(ask.id) /\ ~ask.replaces
  <2>1. Answer(n, "done", {View(ask.id)}) /\ UNCHANGED <<vault, deleted, order, retired>>
    BY <1>2 DEF ServeUpdate
  <2>2. Grows(vault, vault', settled, settled')
    BY <2>1, VaultKept
  <2>3. ServerSound'
    BY <2>1 DEF ConsoleInv, ServerSound, EditsSighted, Watch
  <2>4. \A r \in {View(ask.id)} : Sound(r, vault') /\ ~r.pending
    BY <1>2, <2>1, ViewSound
  <2>5. clicks' \in Nat /\ CallsSound(calls', clicks', vault', settled')
    BY <1>0, <2>1, <2>2, <2>4, AnswerSound
  <2> QED BY <2>2, <2>3, <2>5 DEF Served
<1>3. CASE ~(ask.id \in Slots /\ Present(ask.id) /\ ask.expected = Version(ask.id))
  BY <1>3, RefuseSound DEF ServeUpdate
<1> QED BY <1>1, <1>2, <1>3

LEMMA ServeCreateSound ==
  ASSUME ConsoleInv, Watch, NEW n \in DOMAIN calls, ServeCreate(n), UNCHANGED clicks
  PROVE  Served
<1> DEFINE ask == calls[n].ask
<1>0. ask.op = "create" /\ ask.slot \in Slots
  BY DEF ServeCreate, ConsoleInv, CallsSound, CallSound, AskSound
<1>1. CASE ask.slot[1] \in Live /\ ~Present(ask.slot)
  <2>1. Write({ask.slot}, "batch") /\ Answer(n, "done", Written({ask.slot}))
    BY <1>1 DEF ServeCreate
  <2>2. {ask.slot} \in SUBSET Slots /\ "batch" \in Writers /\ "batch" # "edit"
    BY <1>0 DEF Writers
  <2> QED BY <1>0, <2>1, <2>2, WrittenSound
<1>2. CASE ~(ask.slot[1] \in Live /\ ~Present(ask.slot))
  BY <1>2, RefuseSound DEF ServeCreate
<1> QED BY <1>1, <1>2

LEMMA LiveEnvs ==
  ASSUME ConsoleInv
  PROVE  Live \subseteq Envs
BY DEF ConsoleInv, ServerSound, Live

LEMMA ServeImportSound ==
  ASSUME ConsoleInv, Watch, NEW n \in DOMAIN calls, ServeImport(n), UNCHANGED clicks
  PROVE  Served
<1> DEFINE ask == calls[n].ask
           W == Imported(ask)
<1>0. ask.op = "import" /\ ask.text.keys \subseteq Keys /\ (ask.strategy = "merge" => ask.selected \subseteq ask.reviewed.keys)
  BY DEF ServeImport, ConsoleInv, CallsSound, CallSound, AskSound
<1>1. CASE ask.env \in Live
  <2>1. Write(W, "batch") /\ Answer(n, "done", Written(W))
    BY <1>1 DEF ServeImport
  <2>2. "batch" \in Writers /\ "batch" # "edit"
    BY DEF Writers
  <2>3. W \in SUBSET Slots
    BY <1>0, <1>1, LiveEnvs DEF Imported, Slots
  <2>4. ask.strategy = "merge" => {s[2] : s \in W} \subseteq ask.reviewed.keys
    BY <1>0 DEF Imported
  <2> HIDE DEF W
  <2> QED BY <1>0, <2>1, <2>2, <2>3, <2>4, WrittenSound
<1>2. CASE ask.env \notin Live
  BY <1>2, RefuseSound DEF ServeImport
<1> QED BY <1>1, <1>2

LEMMA ServePromoteSound ==
  ASSUME ConsoleInv, Watch, NEW n \in DOMAIN calls, ServePromote(n), UNCHANGED clicks
  PROVE  Served
<1> DEFINE ask == calls[n].ask
           W == Promoted(ask)
<1>0. ask.op = "promote"
  BY DEF ServePromote
<1>1. CASE {ask.source, ask.target} \subseteq Live /\ ask.keys \subseteq {s[2] : s \in Promoted(ask)}
  <2>1. Write(W, "batch") /\ Answer(n, "done", Written(W))
    BY <1>1 DEF ServePromote
  <2>2. "batch" \in Writers /\ "batch" # "edit"
    BY DEF Writers
  <2>3. W \in SUBSET Slots
    BY <1>1, LiveEnvs DEF Promoted, Slots
  <2> HIDE DEF W
  <2> QED BY <1>0, <2>1, <2>2, <2>3, WrittenSound
<1>2. CASE ~({ask.source, ask.target} \subseteq Live /\ ask.keys \subseteq {s[2] : s \in Promoted(ask)})
  BY <1>2, RefuseSound DEF ServePromote
<1> QED BY <1>1, <1>2

LEMMA ServeEnvironmentSound ==
  ASSUME ConsoleInv, Watch, NEW n \in DOMAIN calls, ServeEnvironment(n), UNCHANGED clicks
  PROVE  Served
<1> DEFINE ask == calls[n].ask
<1>0. ask.op \in EnvOps /\ ask.env \in Envs /\ ask.list \in Seq(Envs) /\ ask.op # "reveal" /\ ask.op # "import"
  BY DEF ServeEnvironment, ConsoleInv, CallsSound, CallSound, AskSound, EnvOps
<1>1. ASSUME NEW ids \in Seq(Envs), Reorder(n, ids) PROVE Served
  <2>1. Grows(vault, vault', settled, settled')
    BY <1>1, VaultKept DEF Reorder
  <2>2. ServerSound'
    BY <1>1 DEF Reorder, ConsoleInv, ServerSound, EditsSighted, Watch
  <2>3. clicks' \in Nat /\ CallsSound(calls', clicks', vault', settled')
    BY <1>0, <1>1, <2>1, AnswerSound DEF Reorder
  <2> QED BY <2>1, <2>2, <2>3 DEF Served
<1>2. ASSUME NEW reply \in {"failed", "unconfirmed"}, Refuse(n, reply) PROVE Served
  BY <1>2, RefuseSound
<1>3. ASSUME ask.op = "envRemove", ask.env \in Live,
             order' = Without(order, ask.env), deleted' = deleted \cup {s \in Slots : s[1] = ask.env /\ vault[s] # <<>>},
             retired' = retired \cup {ask.env}, Answer(n, "done", {}), UNCHANGED vault
      PROVE  Served
  <2>1. Grows(vault, vault', settled, settled')
    BY <1>3, VaultKept
  <2>2. order' \in Seq(Envs)
    BY <1>0, <1>3, WithoutType DEF Live, ConsoleInv, ServerSound
  <2>3. ServerSound'
    BY <1>0, <1>3, <2>2 DEF ConsoleInv, ServerSound, EditsSighted, Watch
  <2>4. clicks' \in Nat /\ CallsSound(calls', clicks', vault', settled')
    BY <1>0, <1>3, <2>1, AnswerSound
  <2> QED BY <2>1, <2>3, <2>4 DEF Served
<1>4. order \in Seq(Envs) /\ Append(order, ask.env) \in Seq(Envs)
  BY <1>0 DEF ConsoleInv, ServerSound
<1> QED BY <1>0, <1>1, <1>2, <1>3, <1>4 DEF ServeEnvironment

\* The page shows sound rows as the server goes on.
LEMMA PageLater ==
  ASSUME ConsoleInv, UNCHANGED page, Grows(vault, vault', settled, settled')
  PROVE  PageSound'
<1>1. /\ shown' = shown /\ active' = active /\ diffSource' = diffSource /\ rows' = rows /\ editor' = editor
      /\ revealed' = revealed /\ sheet' = sheet /\ drawer' = drawer
  BY DEF page, table, dialogs
<1>2. \A r : Sound(r, vault) => Sound(r, vault')
  BY SoundLater
<1>3. \A r : Seen(r, settled) => Seen(r, settled')
  BY DEF Grows, Seen
<1> QED BY <1>1, <1>2, <1>3 DEF ConsoleInv, PageSound

\* The server changes the list only when it answers a call of the manager, to what that call proposed.
LEMMA ServeTabs ==
  ASSUME ConsoleInv, Watch, NEW n \in DOMAIN calls, Serve(n), UNCHANGED page, IsFiniteSet(DOMAIN calls')
  PROVE  TabsFollow'
<1>0. PICK reply \in {"done", "failed", "unconfirmed"} : \E got : Answer(n, reply, got)
  BY Zenon DEF Serve, ServeRead, Reads, ServeUpdate, ServeCreate, ServeImport, ServePromote, ServeEnvironment, Refuse, Reorder
<1>1. PICK got : Answer(n, reply, got)
  BY <1>0
<1>2. /\ DOMAIN calls' = DOMAIN calls /\ EnvCalls(calls') = EnvCalls(calls)
      /\ \A m \in DOMAIN calls : calls'[m].ask = calls[m].ask
      /\ \A m \in DOMAIN calls \ {n} : calls'[m] = calls[m]
      /\ calls'[n].reply = reply
  BY <1>1, AnswerShape
<1>3. shown' = shown
  BY DEF page, table
<1>4. CASE n \notin EnvCalls(calls)
  <2>1. order' = order
    BY <1>4 DEF Serve, ServeRead, ServeUpdate, ServeCreate, ServeImport, ServePromote, ServeEnvironment,
                Write, Refuse, EnvCalls, EnvOps
  <2>2. TabsKept
    BY <1>2, <1>3, <1>4, <2>1 DEF TabsKept, EnvCalls
  <2> QED BY <2>2, TabsKeptSound
<1>5. ASSUME n \in EnvCalls(calls), ~tangled' PROVE TabsFollow'
  <2>1. /\ ~tangled
        /\ \A m, o \in EnvCalls(calls') : m = o
        /\ \A m \in EnvCalls(calls') : calls'[m].reply # "failed"
    BY <1>5, Watched
  <2>2. shown = order /\ Proposes(calls[n].ask, shown)
    BY <1>5, <2>1 DEF Serve, ConsoleInv, TabsFollow
  <2>3. calls'[n].reply # "failed" /\ EnvCalls(calls') = {n}
    BY <1>2, <1>5, <2>1
  <2>4. \/ calls'[n].reply = "unconfirmed" /\ order' = order
        \/ calls'[n].reply = "done" /\ order' = calls[n].ask.list
    <3>0. ServeEnvironment(n)
      BY <1>5 DEF Serve, ServeRead, ServeUpdate, ServeCreate, ServeImport, ServePromote, EnvCalls, EnvOps
    <3>1. ASSUME NEW ids, Reorder(n, ids) PROVE calls'[n].reply = "done" /\ order' = ids
      BY <3>1, AnswerShape DEF Reorder
    <3>2. ASSUME NEW r \in {"failed", "unconfirmed"}, Refuse(n, r) PROVE calls'[n].reply = r /\ order' = order
      BY <3>2, AnswerShape DEF Refuse
    <3>3. ASSUME Answer(n, "done", {}) PROVE calls'[n].reply = "done"
      BY <3>3, AnswerShape
    <3> QED BY <2>2, <2>3, <3>0, <3>1, <3>2, <3>3 DEF ServeEnvironment, Proposes
  <2> QED BY <1>2, <1>3, <2>1, <2>2, <2>3, <2>4 DEF TabsFollow
<1> QED BY <1>4, <1>5 DEF TabsFollow

LEMMA ServeSound ==
  ASSUME ConsoleInv, Watch, NEW n \in DOMAIN calls, Serve(n)
  PROVE  Served
BY ServeReadSound, ServeUpdateSound, ServeCreateSound, ServeImportSound, ServePromoteSound, ServeEnvironmentSound DEF Serve

\* A lost call of the manager tangles the tabs; another leaves them alone.
LEMMA LoseSound ==
  ASSUME ConsoleInv, Watch, NEW n \in DOMAIN calls, Lose(n), UNCHANGED page
  PROVE  Served /\ TabsFollow'
<1>1. Refuse(n, "failed") /\ UNCHANGED <<clicks, shown>>
  BY DEF Lose, Refuse, server, page, table
<1>2. Served
  BY <1>1, RefuseSound
<1>3. IsFiniteSet(DOMAIN calls')
  BY <1>2 DEF Served, CallsSound
<1>4. /\ DOMAIN calls' = DOMAIN calls /\ EnvCalls(calls') = EnvCalls(calls)
      /\ \A m \in DOMAIN calls : calls'[m].ask = calls[m].ask
      /\ \A m \in DOMAIN calls \ {n} : calls'[m] = calls[m]
      /\ calls'[n].reply = "failed"
  BY <1>1, AnswerShape DEF Refuse
<1>5. CASE n \notin EnvCalls(calls)
  <2>1. TabsKept
    BY <1>1, <1>4, <1>5 DEF TabsKept, EnvCalls, Refuse
  <2> QED BY <1>2, <1>3, <2>1, TabsKeptSound
<1>6. CASE n \in EnvCalls(calls)
  <2>1. tangled'
    BY <1>3, <1>4, <1>6, Watched
  <2> QED BY <1>2, <2>1 DEF TabsFollow
<1> QED BY <1>5, <1>6

LEMMA OthersSound ==
  ASSUME ConsoleInv, Watch, NEW s \in Slots, OtherWrites(s) \/ OtherDeletes(s), UNCHANGED page
  PROVE  Served /\ TabsFollow'
<1>1. UNCHANGED <<wire, order, shown>>
  BY DEF OtherWrites, OtherDeletes, Write, page, table
<1>2. Grows(vault, vault', settled, settled') /\ ServerSound'
  <2>1. CASE OtherWrites(s)
    <3>1. {s} \in SUBSET Slots /\ "other" \in Writers /\ "other" # "edit"
      BY DEF Writers
    <3> QED BY <2>1, <3>1, WriteSound DEF OtherWrites
  <2>2. CASE OtherDeletes(s)
    <3>1. Grows(vault, vault', settled, settled')
      BY <2>2, VaultKept DEF OtherDeletes
    <3> QED BY <2>2, <3>1 DEF OtherDeletes, ConsoleInv, ServerSound, EditsSighted, Watch
  <2> QED BY <2>1, <2>2
<1>3. clicks' \in Nat /\ CallsSound(calls', clicks', vault', settled')
  BY <1>1, <1>2, CallsLater DEF ConsoleInv, wire
<1>4. TabsKept
  BY <1>1 DEF TabsKept, wire
<1> QED BY <1>2, <1>3, <1>4, TabsKeptSound DEF Served, CallsSound

-----------------------------------------------------------------------------
(* The invariant.                                                          *)

LEMMA ConsoleInvInit ==
  ASSUME Init
  PROVE  ConsoleInv
<1> DEFINE first == [ask |-> [op |-> "list", env |-> Start.order[1]], attached |-> TRUE, reply |-> "none", rows |-> {}]
<1>0. Start.order \in Seq(Envs) /\ Start.order[1] \in Envs
  BY StartAssumption
<1>1. ServerSound
  <2>1. vault \in [Slots -> Seq({"first", "other"})]
    BY StartAssumption DEF Init
  <2>2. ASSUME NEW s \in Slots PROVE vault[s] \in Seq(Writers) /\ \A v \in 2 .. Len(vault[s]) : vault[s][v] # "edit"
    <3>1. vault[s] \in Seq({"first", "other"})
      BY <2>1
    <3>2. \A v \in 1 .. Len(vault[s]) : vault[s][v] \in {"first", "other"}
      BY <3>1
    <3>3. vault[s] \in Seq(Writers)
      BY <3>1, <3>2 DEF Writers
    <3> QED BY <3>1, <3>2, <3>3
  <2>3. vault \in [Slots -> Seq(Writers)]
    BY <2>1, <2>2
  <2> QED BY <1>0, <2>2, <2>3, StartAssumption DEF Init, ServerSound, EditsSighted
<1>2. PageSound
  BY <1>0 DEF Init, PageSound, NoEditor, NoDrawer, NoSheet
<1>3. DOMAIN calls = {1} /\ calls[1] = first
  BY DEF Init, Put
<1>4. CallsSound(calls, clicks, vault, settled)
  <2>1. AskSound(first.ask, vault, settled)
    BY <1>0 DEF AskSound, Ops, EnvOps
  <2>2. CallSound(first, vault, settled)
    BY <2>1 DEF CallSound
  <2>3. Counted(calls) = {}
    BY <1>3 DEF Counted
  <2>4. IsFiniteSet({1}) /\ Cardinality({}) = 0 /\ clicks = 0
    BY FS_EmptySet, FS_Singleton DEF Init
  <2>5. IsFiniteSet(DOMAIN calls) /\ Cardinality(Counted(calls)) <= clicks
    BY <1>3, <2>3, <2>4
  <2> HIDE DEF first
  <2> QED BY <1>3, <2>2, <2>5 DEF CallsSound
<1>5. TabsFollow
  <2>1. EnvCalls(calls) = {}
    BY <1>3 DEF EnvCalls, EnvOps
  <2> QED BY <2>1 DEF Init, TabsFollow
<1> QED BY <1>1, <1>2, <1>4, <1>5 DEF ConsoleInv, Init

LEMMA PageStepInv ==
  ASSUME ConsoleInv, PageStep, UNCHANGED server, Watch, TabsKept \/ TabsFollow'
  PROVE  ConsoleInv'
<1>1. clicks' \in Nat /\ ServerSound' /\ PageSound' /\ CallsSound(calls', clicks', vault', settled')
  BY PageStepSound
<1>2. TabsFollow'
  BY <1>1, TabsKeptSound DEF CallsSound
<1> QED BY <1>1, <1>2 DEF ConsoleInv

LEMMA TableClickSound ==
  ASSUME ConsoleInv, TableClick
  PROVE  ConsoleInv'
<1>1. PageStep /\ TabsKept
  BY SelectTabStep, SelectSourceStep, RevealStep, EditorStep, FixHealthCellStep, SaveEditStep, SaveAddStep DEF TableClick, OnTable
<1> QED BY <1>1, PageStepInv DEF TableClick, OnTable

LEMMA DialogClickSound ==
  ASSUME ConsoleInv, ImportClick \/ HistoryClick \/ ComparisonTimer
  PROVE  ConsoleInv'
<1>1. UNCHANGED <<manager, server>> /\ Watch
  BY DEF ImportClick, HistoryClick, ComparisonTimer, Opening, InDialog
<1>2. CASE ImportClick
  <2>1. PageStep /\ TabsKept
    BY <1>2, ImportTyped, CloseImportStep, ReviewStep, CommitImportStep DEF ImportClick, Opening, InDialog
  <2> QED BY <1>1, <2>1, PageStepInv
<1>3. CASE HistoryClick \/ ComparisonTimer
  <2>1. PageStep /\ TabsKept
    BY <1>3, HistoryShown, CloseHistoryStep, CompareStep, RollBackStep DEF HistoryClick, ComparisonTimer, Opening, InDialog
  <2> QED BY <1>1, <2>1, PageStepInv
<1> QED BY <1>2, <1>3

LEMMA HandleSound ==
  ASSUME ConsoleInv, NEW n \in DOMAIN calls, Handle(n)
  PROVE  ConsoleInv'
<1>1. UNCHANGED server /\ Watch
  BY DEF Handle, InTable, ByDialog, Handled
<1>2. PageStep /\ (TabsKept \/ TabsFollow')
  BY ListAnsweredStep, RevealAnsweredStep, UpdateAnsweredStep, CreateAnsweredStep, ReviewAnsweredStep, ImportAnsweredStep,
     CompareAnsweredStep, RollbackAnsweredStep, PromotionAnsweredStep, EnvironmentAnsweredStep DEF Handle
<1> QED BY <1>1, <1>2, PageStepInv

LEMMA WorldSound ==
  ASSUME ConsoleInv, World
  PROVE  ConsoleInv'
<1>1. UNCHANGED page /\ Watch
  BY DEF World, Outside
<1>2. Served /\ TabsFollow'
  <2>1. ASSUME NEW n \in DOMAIN calls, Serve(n) PROVE Served /\ TabsFollow'
    <3>1. Served
      BY <1>1, <2>1, ServeSound
    <3> QED BY <1>1, <2>1, <3>1, ServeTabs DEF Served, CallsSound
  <2>2. ASSUME NEW n \in DOMAIN calls, Lose(n) PROVE Served /\ TabsFollow'
    BY <1>1, <2>2, LoseSound
  <2>3. ASSUME NEW s \in Slots, OtherWrites(s) \/ OtherDeletes(s) PROVE Served /\ TabsFollow'
    BY <1>1, <2>3, OthersSound
  <2> QED BY <2>1, <2>2, <2>3 DEF World, Outside
<1>3. PageSound'
  BY <1>1, <1>2, PageLater DEF Served
<1> QED BY <1>2, <1>3 DEF ConsoleInv, Served

LEMMA ConsoleInvNext ==
  ASSUME ConsoleInv, Next
  PROVE  ConsoleInv'
<1>1. CASE TableClick
  BY <1>1, TableClickSound
<1>2. CASE ImportClick \/ HistoryClick \/ ComparisonTimer
  BY <1>2, DialogClickSound
<1>3. CASE PromotionClick
  BY <1>3, PromotionStep, PageStepInv DEF PromotionClick, Opening, InDialog
<1>4. CASE ManagerClick
  BY <1>4, ManagerStep, PageStepInv DEF ManagerClick, InManager
<1>5. ASSUME NEW id \in armed, Timer(id) PROVE ConsoleInv'
  BY <1>5, RemaskStep, PageStepInv DEF Timer
<1>6. ASSUME NEW n \in DOMAIN calls, Handle(n) PROVE ConsoleInv'
  BY <1>6, HandleSound
<1>7. CASE World
  BY <1>7, WorldSound
<1> QED BY <1>1, <1>2, <1>3, <1>4, <1>5, <1>6, <1>7 DEF Next

\* A page's rows, dialogs and calls in flight stay sound, its tabs follow the
\* project's environments, and an edit replaces only what has been shown.
THEOREM ConsoleInvariant == Spec => []ConsoleInv
<1>1. Init => ConsoleInv
  BY ConsoleInvInit
<1>2. ConsoleInv /\ [Next]_vars => ConsoleInv'
  <2> SUFFICES ASSUME ConsoleInv, [Next]_vars PROVE ConsoleInv'
    OBVIOUS
  <2>1. CASE UNCHANGED vars
    BY <2>1 DEF vars, server, wire, page, table, dialogs, ConsoleInv, ServerSound, PageSound, TabsFollow, EnvCalls
  <2> QED BY <2>1, ConsoleInvNext
<1> QED BY <1>1, <1>2, PTL DEF Spec

\* What the page holds has its type, and no more calls are in flight than clicks
\* have sent (SecretWorkspace, EnvironmentManager).
THEOREM ConsoleTypes == Spec => []ConsoleTypeOK
<1>1. ConsoleInv => ConsoleTypeOK
  <2> SUFFICES ASSUME ConsoleInv PROVE ConsoleTypeOK
    OBVIOUS
  <2>1. vault \in [Slots -> Seq({"first", "edit", "guess", "batch", "other"})] /\ deleted \subseteq Slots
    BY DEF ConsoleInv, ServerSound, Writers
  <2>2. {Live, ShownEnvs, retired} \subseteq SUBSET Envs
    <3>1. Live \subseteq Envs /\ ShownEnvs \subseteq Envs /\ retired \subseteq Envs
      BY LiveEnvs DEF ConsoleInv, ServerSound, PageSound, ShownEnvs
    <3> QED BY <3>1
  <2>3. /\ rows \subseteq TableRow
        /\ editor.mode = "edit" => editor.row \in TableRow
        /\ drawer.open => drawer.row \in TableRow
    BY DEF ConsoleInv, PageSound, Sound
  <2>4. /\ {active, diffSource} \subseteq Envs \cup {NoEnv}
        /\ revealed \subseteq Slots \X Nat
        /\ sheet.selected \subseteq Keys /\ {sheet.text, sheet.preview} \subseteq Texts \cup {NoText}
    BY DEF ConsoleInv, PageSound
  <2>5. Cardinality({n \in DOMAIN calls : calls[n].ask.op # "list"}) <= clicks
    BY DEF ConsoleInv, CallsSound, Counted
  <2> QED BY <2>1, <2>2, <2>3, <2>4, <2>5 DEF ConsoleTypeOK
<1> QED BY <1>1, ConsoleInvariant, PTL

\* A row that is not pending shows a version the server has: no prediction stays
\* as if it were saved (SecretWorkspace save, finishImport, finishRollback, finishPromotion).
THEOREM RowsCommittedHolds == Spec => []RowsCommitted
<1>1. ConsoleInv => RowsCommitted
  BY DEF ConsoleInv, PageSound, Sound, RowsCommitted, Version
<1> QED BY <1>1, ConsoleInvariant, PTL

\* A value saved from a settled row, or rolled back from its history, replaces a
\* version the page has shown (SecretWorkspace save, VersionDrawer rollback).
THEOREM NoBlindOverwriteHolds == Spec => []NoBlindOverwrite
<1>1. ConsoleInv => NoBlindOverwrite
  BY DEF ConsoleInv, ServerSound, EditsSighted, NoBlindOverwrite, Version
<1> QED BY <1>1, ConsoleInvariant, PTL

\* A merge writes only keys that were previewed (DotenvImport commit, selectedKeys).
THEOREM SelectionKeptHolds == Spec => []SelectionKept
<1>1. ConsoleInv => SelectionKept
  BY DEF ConsoleInv, CallsSound, CallSound, SelectionKept, Imports
<1> QED BY <1>1, ConsoleInvariant, PTL

\* While the manager's calls succeed one at a time, the tabs are the project's
\* environments in their order (EnvironmentManager, applyEnvironments).
THEOREM TabsAgreeHolds == Spec => []TabsAgree
<1>1. ConsoleInv => TabsAgree
  BY DEF ConsoleInv, TabsFollow, TabsAgree
<1> QED BY <1>1, ConsoleInvariant, PTL
=============================================================================
