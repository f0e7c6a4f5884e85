---------------------------- MODULE ClientProofs -----------------------------
(***************************************************************************)
(* Theorems about Client, for any characters, surfaces and bounds.  The    *)
(* inductive invariant is stated about a screen u, a set of calls ts and   *)
(* the saves r, so that an action that first ends a call and then goes to  *)
(* another screen can be taken in two steps.                               *)
(***************************************************************************)
EXTENDS Client, TLAPS

GoodTask(t) ==
  /\ t \in TaskType
  /\ t.char = NoCharacter <=> t.kind = "create"
  /\ t.phase = "loading" => t.kind # "create"
  /\ t.phase \in {"ok", "loading"} => t.target \in Characters

Typed(u, ts, r) ==
  /\ r \in [Characters -> Nat]
  /\ u \in UiType
  /\ u.char = NoCharacter <=> u.screen = "roster"
  /\ \A t \in ts : GoodTask(t)

(* A mounted screen waits for at most one call beside its refreshes, and   *)
(* is busy as long as it does.                                             *)
OneAtATime(u, ts) ==
  /\ \A t \in ts : Waiting(t) => u.busy
  /\ \A t1, t2 \in ts : Waiting(t1) /\ Waiting(t2) => t1 = t2

(* What the server has answered it had saved by then.                      *)
Answered(ts, r) ==
  \A t \in ts :
    /\ t.phase # "loading" => t.got = Nothing
    /\ t.phase = "ok" => t.made <= r[t.target]
    /\ t.phase = "loading" => \A s \in Surfaces : t.got[s] <= r[t.char]

(* Refreshes of one screen have different tickets.                         *)
Fetching(t) == t.live /\ t.phase = "loading"
Tickets(u, ts) ==
  /\ \A t \in ts : Fetching(t) => t.ticket <= u.seq
  /\ \A t1, t2 \in ts :
       Fetching(t1) /\ Fetching(t2) /\ t1.ticket = t2.ticket => t1 = t2

(* The refresh that holds the newest ticket has fetched nothing older than *)
(* what is shown, nor than what was acknowledged.                          *)
Newest(t, u) == Fetching(t) /\ t.ticket = u.seq
Monotone(u, ts, r) ==
  /\ u.shown \in Characters => \A s \in Surfaces : u.got[s] <= r[u.shown]
  /\ \A t \in ts : Newest(t, u) /\ t.char = u.shown
       => \A s \in Surfaces : t.got[s] = 0 \/ t.got[s] >= u.got[s]
  /\ u.char \in Characters => u.acked <= r[u.char]
  /\ \A t \in ts : Newest(t, u) /\ t.char = u.char
       => \A s \in Surfaces : t.got[s] = 0 \/ t.got[s] >= u.acked

(* If what is shown lacks an acknowledged edit, the call that made it is   *)
(* still fetching, or broke off and left the screen busy for good.         *)
UpToDate(u) == \A s \in Surfaces : u.got[s] >= u.acked
Told(u, ts) ==
  u.shown \in Characters /\ u.shown = u.char /\ ~u.failed
    => \/ UpToDate(u)
       \/ \E t \in ts : Waiting(t) /\ Newest(t, u) /\ t.char = u.char
       \/ u.busy /\ \A t \in ts : ~Waiting(t)

ScreenInv(u, ts, r) ==
  /\ Typed(u, ts, r) /\ OneAtATime(u, ts) /\ Answered(ts, r)
  /\ Tickets(u, ts) /\ Monotone(u, ts, r) /\ Told(u, ts)

(* A new or another task is well formed.                                   *)
LEMMA TaskGood ==
  ASSUME NEW kind \in {"load", "edit", "create"}, NEW id \in Nat,
         NEW c \in Characters \cup {NoCharacter}
  PROVE  Task(kind, id, c) \in TaskType
BY DEF Task, TaskType, Nothing

LEMMA LoadGood ==
  ASSUME NEW c \in Characters, NEW k \in Nat
  PROVE  /\ GoodTask(Load(c, k)) /\ Fetching(Load(c, k)) /\ ~Waiting(Load(c, k))
         /\ Load(c, k).ticket = k /\ Load(c, k).char = c
         /\ Load(c, k).got = Nothing /\ Load(c, k).phase = "loading"
BY ClientAssumption
   DEF Load, Task, TaskType, GoodTask, Nothing, Fetching, Waiting

(* A screen that has just been mounted.                                    *)
LEMMA MountedGood ==
  ASSUME NEW screen \in Screens, NEW c \in Characters \cup {NoCharacter},
         c = NoCharacter <=> screen = "roster"
  PROVE  /\ Mounted(screen, c) \in UiType
         /\ Mounted(screen, c).char = c /\ Mounted(screen, c).screen = screen
         /\ Mounted(screen, c).shown = NoCharacter /\ Mounted(screen, c).acked = 0
         /\ Mounted(screen, c).seq \in Nat
         /\ screen = "roster" => Mounted(screen, c).seq = 0
         /\ ~Mounted(screen, c).busy
BY ClientAssumption DEF Mounted, UiType, Nothing

LEMMA MountKeeps ==
  ASSUME NEW ts, NEW screen \in Screens, NEW c \in Characters \cup {NoCharacter},
         c = NoCharacter <=> screen = "roster",
         rev \in [Characters -> Nat], \A t \in ts : GoodTask(t), Answered(ts, rev)
  PROVE  ScreenInv(Mounted(screen, c),
                   Orphaned(ts) \cup {Load(c, k) : k \in 1..Mounted(screen, c).seq}, rev)
<1> DEFINE u == Mounted(screen, c)
           loads == {Load(c, k) : k \in 1..u.seq}
           new == Orphaned(ts) \cup loads
<1>1. \A t \in Orphaned(ts) : GoodTask(t) /\ ~t.live
  BY DEF Orphaned, GoodTask, TaskType
<1>2. Answered(Orphaned(ts), rev)
  <2>1. \A t \in Orphaned(ts) : \E x \in ts :
           /\ t.phase = x.phase /\ t.got = x.got /\ t.made = x.made
           /\ t.target = x.target /\ t.char = x.char
    BY DEF Orphaned, GoodTask, TaskType
  <2> QED BY <2>1 DEF Answered
<1>3. \A t \in loads : \E k \in 1..u.seq : t = Load(c, k) /\ k \in Nat /\ c \in Characters
  BY MountedGood DEF UiType
<1>4. \A t \in loads : /\ GoodTask(t) /\ Fetching(t) /\ ~Waiting(t) /\ t.phase = "loading"
                       /\ t.ticket <= u.seq /\ t.char = c /\ t.got = Nothing
                       /\ t = Load(c, t.ticket)
  <2> SUFFICES ASSUME NEW t \in loads
               PROVE  /\ GoodTask(t) /\ Fetching(t) /\ ~Waiting(t) /\ t.phase = "loading"
                      /\ t.ticket <= u.seq /\ t.char = c /\ t.got = Nothing
                      /\ t = Load(c, t.ticket)
    OBVIOUS
  <2>1. PICK k \in 1..u.seq : t = Load(c, k) /\ k \in Nat /\ c \in Characters
    BY <1>3
  <2> HIDE DEF u
  <2> QED BY <2>1, LoadGood
<1>5. \A t \in new : ~Waiting(t) /\ (Fetching(t) => t \in loads)
  BY <1>1, <1>4 DEF Waiting, Fetching
<1>6. Typed(u, new, rev)
  BY <1>1, <1>4, MountedGood DEF Typed
<1>7. OneAtATime(u, new)
  BY <1>5 DEF OneAtATime
<1>8. Answered(new, rev)
  <2>1. Answered(loads, rev)
    BY <1>3, <1>4 DEF Answered, Nothing
  <2> QED BY <1>2, <2>1 DEF Answered
<1>9. Tickets(u, new)
  BY <1>4, <1>5 DEF Tickets
<1>10. Monotone(u, new, rev)
  BY <1>4, <1>5, MountedGood, ClientAssumption DEF Monotone, Newest, Nothing, Typed
<1>11. Told(u, new)
  BY MountedGood, ClientAssumption DEF Told
<1> QED BY <1>6, <1>7, <1>8, <1>9, <1>10, <1>11 DEF ScreenInv

(* Going to a screen keeps the invariant, and what is still shown after it *)
(* was shown before.                                                       *)
LEMMA ShowKeeps ==
  ASSUME NEW u, NEW ts, NEW screen \in Screens, NEW c \in Characters \cup {NoCharacter},
         c = NoCharacter <=> screen = "roster",
         ScreenInv(u, ts, rev), Show(u, ts, screen, c)
  PROVE  /\ ScreenInv(ui', tasks', rev)
         /\ ui'.shown \in Characters => ui'.shown = u.shown /\ ui'.got = u.got
<1>1. CASE u.screen # screen
  <2>1. ui' = Mounted(screen, c)
        /\ tasks' = Orphaned(ts) \cup {Load(c, k) : k \in 1..Mounted(screen, c).seq}
    BY <1>1 DEF Show
  <2>2. rev \in [Characters -> Nat] /\ (\A t \in ts : GoodTask(t)) /\ Answered(ts, rev)
    BY DEF ScreenInv, Typed
  <2>3. ScreenInv(ui', tasks', rev)
    BY <2>1, <2>2, MountKeeps
  <2>4. ui'.shown = NoCharacter
    BY <2>1, MountedGood
  <2> QED BY <2>3, <2>4, ClientAssumption
<1>2. CASE u.screen = screen /\ u.char # c
  <2> DEFINE l == Load(c, u.seq + 1)
  <2>1. /\ ui' = [Mounted(screen, c) EXCEPT !.seq = u.seq + 1, !.busy = u.busy,
                                              !.torn = u.torn]
        /\ tasks' = ts \cup {l}
    BY <1>2 DEF Show
  <2>2. /\ u \in UiType /\ u.seq \in Nat /\ c \in Characters
        /\ u.char = NoCharacter <=> u.screen = "roster"
    BY <1>2 DEF ScreenInv, Typed, UiType
  <2>3. /\ ui' \in UiType /\ ui'.char = c /\ ui'.screen = screen /\ ui'.seq = u.seq + 1
        /\ ui'.shown = NoCharacter /\ ui'.busy = u.busy /\ ui'.acked = 0
    <3> DEFINE m == Mounted(screen, c)
    <3>1. m \in UiType /\ m.char = c /\ m.screen = screen /\ m.shown = NoCharacter /\ m.acked = 0
      BY MountedGood
    <3>2. ui' = [m EXCEPT !.seq = u.seq + 1, !.busy = u.busy, !.torn = u.torn]
      BY <2>1
    <3> HIDE DEF m
    <3>3. u.seq + 1 \in Nat /\ u.busy \in BOOLEAN /\ u.torn \in BOOLEAN
      BY <2>2 DEF UiType
    <3>4. ui' \in UiType
      BY <3>1, <3>2, <3>3 DEF UiType
    <3>5. /\ ui'.char = c /\ ui'.screen = screen /\ ui'.shown = NoCharacter /\ ui'.acked = 0
          /\ ui'.seq = u.seq + 1 /\ ui'.busy = u.busy
      BY <3>1, <3>2 DEF UiType
    <3> QED BY <3>4, <3>5
  <2>4. /\ GoodTask(l) /\ Fetching(l) /\ ~Waiting(l) /\ l.phase = "loading"
        /\ l.ticket = u.seq + 1 /\ l.char = c /\ l.got = Nothing
    BY <2>2, LoadGood
  <2>5. Typed(ui', tasks', rev)
    BY <2>1, <2>2, <2>3, <2>4 DEF ScreenInv, Typed
  <2>6. OneAtATime(ui', tasks')
    BY <2>1, <2>3, <2>4 DEF ScreenInv, OneAtATime
  <2>7. Answered(tasks', rev)
    BY <2>1, <2>2, <2>4 DEF ScreenInv, Answered, Nothing, Typed
  <2>8. /\ \A t \in ts : Fetching(t) => t.ticket <= u.seq /\ t.ticket \in Nat
        /\ \A t \in ts : ~Newest(t, ui')
    BY <2>2, <2>3 DEF ScreenInv, Tickets, Typed, GoodTask, TaskType, Newest
  <2>9. Tickets(ui', tasks')
    BY <2>1, <2>2, <2>3, <2>4, <2>8 DEF ScreenInv, Tickets
  <2>10. Monotone(ui', tasks', rev)
    BY <2>1, <2>2, <2>3, <2>4, <2>8, ClientAssumption
       DEF ScreenInv, Monotone, Nothing, Typed
  <2>11. Told(ui', tasks')
    BY <2>3, ClientAssumption DEF Told
  <2> QED BY <2>3, <2>5, <2>6, <2>7, <2>9, <2>10, <2>11, ClientAssumption DEF ScreenInv
<1>3. CASE u.screen = screen /\ u.char = c
  BY <1>3 DEF Show
<1> QED BY <1>1, <1>2, <1>3

(* Ending a call, and freeing the screen it was made on, keeps the         *)
(* invariant if the edit that was still to be shown has been shown.        *)
LEMMA FreedKeeps ==
  ASSUME NEW u, NEW t \in tasks, ScreenInv(u, tasks, rev),
         Waiting(t) /\ Newest(t, u) /\ t.char = u.char
           /\ u.shown = u.char /\ ~u.failed => UpToDate(u)
  PROVE  ScreenInv(Freed(t, u), tasks \ {t}, rev)
<1> DEFINE new == tasks \ {t}
           v == Freed(t, u)
<1>1. u \in UiType
  BY DEF ScreenInv, Typed
<1>2. t.live \in BOOLEAN
  BY DEF ScreenInv, Typed, GoodTask, TaskType
<1>3. /\ v \in UiType /\ v.screen = u.screen /\ v.char = u.char /\ v.seq = u.seq
      /\ v.shown = u.shown /\ v.got = u.got /\ v.failed = u.failed /\ v.acked = u.acked
  BY <1>1, <1>2 DEF Freed, UiType
<1>4. v.busy = (u.busy /\ ~Waiting(t))
  BY <1>1, <1>2 DEF Freed, UiType, Waiting
<1> HIDE DEF v
<1>5. Typed(v, new, rev)
  BY <1>3 DEF ScreenInv, Typed
<1>6. OneAtATime(v, new)
  BY <1>4 DEF ScreenInv, OneAtATime
<1>7. Answered(new, rev)
  BY DEF ScreenInv, Answered
<1>8. Tickets(v, new)
  BY <1>3 DEF ScreenInv, Tickets
<1>9. Monotone(v, new, rev)
  BY <1>3 DEF ScreenInv, Monotone, Newest
<1>10. Told(v, new)
  <2> SUFFICES ASSUME u.shown \in Characters, u.shown = u.char, ~u.failed, ~UpToDate(u)
               PROVE  \/ \E x \in new : Waiting(x) /\ Newest(x, v) /\ x.char = v.char
                      \/ v.busy /\ \A x \in new : ~Waiting(x)
    BY <1>3 DEF Told, UpToDate
  <2>1. CASE \E x \in tasks : Waiting(x) /\ Newest(x, u) /\ x.char = u.char
    BY <1>3, <2>1 DEF Newest
  <2>2. CASE u.busy /\ \A x \in tasks : ~Waiting(x)
    BY <1>4, <2>2
  <2> QED BY <2>1, <2>2 DEF ScreenInv, Told
<1> QED BY <1>5, <1>6, <1>7, <1>8, <1>9, <1>10 DEF ScreenInv, v

LEMMA FinishKeeps ==
  ASSUME NEW u, NEW t \in tasks, ScreenInv(u, tasks, rev), t.phase = "loading",
         Waiting(t) /\ Newest(t, u) /\ t.char = u.char
           /\ u.shown = u.char /\ ~u.failed => UpToDate(u),
         Finish(t, u)
  PROVE  /\ ScreenInv(ui', tasks', rev)
         /\ ui'.shown \in Characters => ui'.shown = u.shown /\ ui'.got = u.got
<1>1. ScreenInv(Freed(t, u), tasks \ {t}, rev)
  BY FreedKeeps
<1>2. Freed(t, u).shown = u.shown /\ Freed(t, u).got = u.got
  BY DEF ScreenInv, Typed, UiType, Freed
<1>3. t.char \in Characters /\ t.char # NoCharacter
  BY ClientAssumption DEF ScreenInv, Typed, GoodTask, TaskType
<1>4. CASE t.last
  <2>1. Show(Freed(t, u), tasks \ {t}, "atelier", t.char)
    BY <1>4 DEF Finish
  <2> QED BY <1>1, <1>2, <1>3, <2>1, ShowKeeps DEF Screens
<1>5. CASE ~t.last
  BY <1>1, <1>2, <1>5 DEF Finish
<1> QED BY <1>4, <1>5

(* The invariant of the specification.                                     *)
ClientInv == clicks \in Nat /\ ScreenInv(ui, tasks, rev)

LEMMA ClientInit == Init => ClientInv
<1> SUFFICES ASSUME Init PROVE ClientInv
  OBVIOUS
<1>1. rev \in [Characters -> Nat]
  BY DEF Init
<1>2. {Load(NoCharacter, k) : k \in 1..Mounted("roster", NoCharacter).seq} = {}
  BY DEF Mounted
<1>3. Orphaned({}) = {}
  BY DEF Orphaned
<1>4. Answered({}, rev)
  BY DEF Answered
<1>5. ScreenInv(Mounted("roster", NoCharacter),
        Orphaned({}) \cup {Load(NoCharacter, k) : k \in 1..Mounted("roster", NoCharacter).seq}, rev)
  BY <1>1, <1>4, MountKeeps DEF Screens
<1> QED BY <1>2, <1>3, <1>5 DEF Init, ClientInv

(* A call goes on, or the server saves, and the screen stays.              *)
LEMMA ReplaceKeeps ==
  ASSUME ScreenInv(ui, tasks, rev), NEW t \in tasks, NEW n,
         ui' = ui, rev' \in [Characters -> Nat],
         \A c \in Characters : rev[c] <= rev'[c],
         Replace(t, n),
         GoodTask(n), n.live = t.live, n.kind = t.kind, n.char = t.char,
         n.ticket = t.ticket, n.phase = "loading" <=> t.phase = "loading",
         Answered({n}, rev'),
         \A s \in Surfaces : n.got[s] # t.got[s] => n.got[s] = rev[n.char]
  PROVE  ScreenInv(ui', tasks', rev')
<1>1. tasks' = (tasks \ {t}) \cup {n}
  BY DEF Replace
<1>2. /\ Waiting(n) <=> Waiting(t)
      /\ Fetching(n) <=> Fetching(t)
      /\ Newest(n, ui) <=> Newest(t, ui)
  BY DEF Waiting, Fetching, Newest
<1>3. Typed(ui', tasks', rev')
  BY <1>1 DEF ScreenInv, Typed
<1>4. OneAtATime(ui', tasks')
  BY <1>1, <1>2 DEF ScreenInv, OneAtATime
<1>5. Answered(tasks', rev')
  <2> SUFFICES ASSUME NEW x \in tasks, x # t
               PROVE  /\ x.phase # "loading" => x.got = Nothing
                      /\ x.phase = "ok" => x.made <= rev'[x.target]
                      /\ x.phase = "loading" => \A s \in Surfaces : x.got[s] <= rev'[x.char]
    BY <1>1 DEF Answered
  <2>1. GoodTask(x) /\ rev \in [Characters -> Nat]
    BY DEF ScreenInv, Typed
  <2>2. /\ x.made \in Nat /\ x.got \in [Surfaces -> Nat]
        /\ x.phase = "ok" => x.target \in Characters
        /\ x.phase = "loading" => x.char \in Characters
    BY <2>1 DEF GoodTask, TaskType
  <2>3. CASE x.phase = "ok"
    BY <2>1, <2>2, <2>3 DEF ScreenInv, Answered
  <2>4. CASE x.phase = "loading"
    BY <2>1, <2>2, <2>4 DEF ScreenInv, Answered
  <2> QED BY <2>3, <2>4 DEF ScreenInv, Answered
<1>6. Tickets(ui', tasks')
  BY <1>1, <1>2 DEF ScreenInv, Tickets
<1>7. Monotone(ui', tasks', rev')
  <2>1. /\ ui \in UiType /\ rev \in [Characters -> Nat]
        /\ GoodTask(n) /\ GoodTask(t)
    BY DEF ScreenInv, Typed
  <2>2. /\ ui.got \in [Surfaces -> Nat] /\ ui.acked \in Nat
        /\ n.got \in [Surfaces -> Nat] /\ t.got \in [Surfaces -> Nat]
    BY <2>1 DEF UiType, GoodTask, TaskType
  <2>3. /\ ui.shown \in Characters => \A s \in Surfaces : ui.got[s] <= rev'[ui.shown]
        /\ ui.char \in Characters => ui.acked <= rev'[ui.char]
    BY <2>1, <2>2 DEF ScreenInv, Monotone
  <2>4. ASSUME Newest(n, ui), NEW s \in Surfaces
        PROVE  /\ n.char = ui.shown => n.got[s] = 0 \/ n.got[s] >= ui.got[s]
               /\ n.char = ui.char => n.got[s] = 0 \/ n.got[s] >= ui.acked
    <3>1. n.char \in Characters
      BY <2>1, <2>4 DEF Newest, Fetching, GoodTask, TaskType
    <3>2. CASE n.got[s] = t.got[s]
      BY <1>2, <2>4, <3>2 DEF ScreenInv, Monotone
    <3>3. CASE n.got[s] = rev[n.char]
      BY <2>1, <2>2, <3>1, <3>3 DEF ScreenInv, Monotone
    <3> QED BY <3>2, <3>3
  <2> QED BY <1>1, <2>3, <2>4 DEF ScreenInv, Monotone, Newest
<1>8. Told(ui', tasks')
  <2> SUFFICES ASSUME ui.shown \in Characters, ui.shown = ui.char, ~ui.failed, ~UpToDate(ui)
               PROVE  \/ \E x \in tasks' : Waiting(x) /\ Newest(x, ui) /\ x.char = ui.char
                      \/ ui.busy /\ \A x \in tasks' : ~Waiting(x)
    BY DEF Told
  <2>1. CASE \E x \in tasks : Waiting(x) /\ Newest(x, ui) /\ x.char = ui.char
    BY <1>1, <1>2, <2>1
  <2>2. CASE ui.busy /\ \A x \in tasks : ~Waiting(x)
    BY <1>1, <1>2, <2>2
  <2> QED BY <2>1, <2>2 DEF ScreenInv, Told
<1> QED BY <1>3, <1>4, <1>5, <1>6, <1>7, <1>8 DEF ScreenInv

LEMMA ServeStep ==
  ASSUME ClientInv, NEW t \in tasks, Serve(t)
  PROVE  ScreenInv(ui', tasks', rev') /\ ui' = ui
<1>1. /\ GoodTask(t) /\ rev \in [Characters -> Nat] /\ ScreenInv(ui, tasks, rev)
      /\ t.got = Nothing
  BY DEF ClientInv, ScreenInv, Typed, Serve, Answered
<1>2. PICK c \in Characters :
        /\ rev' = [rev EXCEPT ![c] = @ + 1]
        /\ Replace(t, [t EXCEPT !.phase = "ok", !.target = c, !.made = rev[c] + 1])
  BY DEF Serve
<1> DEFINE n == [t EXCEPT !.phase = "ok", !.target = c, !.made = rev[c] + 1]
<1>3. /\ rev' \in [Characters -> Nat] /\ rev'[c] = rev[c] + 1
      /\ \A d \in Characters : rev[d] <= rev'[d]
  BY <1>1, <1>2
<1>4. /\ GoodTask(n) /\ n.live = t.live /\ n.kind = t.kind /\ n.char = t.char
      /\ n.ticket = t.ticket /\ n.phase = "ok" /\ n.got = t.got
      /\ n.made = rev[c] + 1 /\ n.target = c
  <2>1. PICK m \in Nat : m = rev[c] + 1
    BY <1>1
  <2>2. n = [t EXCEPT !.phase = "ok", !.target = c, !.made = m]
    BY <2>1
  <2> HIDE DEF n
  <2> QED BY <1>1, <2>1, <2>2 DEF GoodTask, TaskType
<1>5. t.phase # "loading"
  BY DEF Serve
<1> HIDE DEF n
<1>6. Answered({n}, rev')
  BY <1>1, <1>3, <1>4 DEF Answered
<1>7. Replace(t, n) /\ ui' = ui
  BY <1>2 DEF n, Serve
<1> QED BY <1>1, <1>3, <1>4, <1>5, <1>6, <1>7, ReplaceKeeps

LEMMA NoAnswerStep ==
  ASSUME ClientInv, NEW t \in tasks, Refuse(t) \/ LoseReply(t)
  PROVE  ScreenInv(ui', tasks', rev') /\ ui' = ui
<1> DEFINE n == [t EXCEPT !.phase = "no"]
<1>1. /\ GoodTask(t) /\ rev \in [Characters -> Nat] /\ ScreenInv(ui, tasks, rev)
      /\ t.phase # "loading" /\ t.got = Nothing
  BY DEF ClientInv, ScreenInv, Typed, Answered, Refuse, LoseReply
<1>2. Replace(t, n) /\ ui' = ui /\ rev' = rev
  BY DEF Refuse, LoseReply
<1>3. /\ GoodTask(n) /\ n.live = t.live /\ n.kind = t.kind /\ n.char = t.char
      /\ n.ticket = t.ticket /\ n.phase = "no" /\ n.got = t.got
  BY <1>1 DEF GoodTask, TaskType
<1> HIDE DEF n
<1>4. Answered({n}, rev')
  BY <1>1, <1>3 DEF Answered
<1> QED BY <1>1, <1>2, <1>3, <1>4, ReplaceKeeps

LEMMA ServeGetStep ==
  ASSUME ClientInv, NEW t \in tasks, NEW s \in Surfaces, ServeGet(t, s)
  PROVE  ScreenInv(ui', tasks', rev') /\ ui' = ui
<1> DEFINE n == [t EXCEPT !.got[s] = rev[t.char]]
<1>1. /\ GoodTask(t) /\ rev \in [Characters -> Nat] /\ ScreenInv(ui, tasks, rev)
      /\ t.phase = "loading" /\ t.char \in Characters
      /\ \A x \in Surfaces : t.got[x] <= rev[t.char]
  BY DEF ClientInv, ScreenInv, Typed, Answered, ServeGet, GoodTask, TaskType
<1>2. Replace(t, n) /\ ui' = ui /\ rev' = rev
  BY DEF ServeGet
<1>3. /\ GoodTask(n) /\ n.live = t.live /\ n.kind = t.kind /\ n.char = t.char
      /\ n.ticket = t.ticket /\ n.phase = "loading"
      /\ n.got = [t.got EXCEPT ![s] = rev[t.char]] /\ t.got \in [Surfaces -> Nat]
  BY <1>1 DEF GoodTask, TaskType
<1> HIDE DEF n
<1>4. Answered({n}, rev')
  BY <1>1, <1>2, <1>3 DEF Answered
<1>5. \A x \in Surfaces : n.got[x] # t.got[x] => n.got[x] = rev[n.char]
  BY <1>3
<1>6. \A c \in Characters : rev[c] <= rev'[c]
  BY <1>1, <1>2
<1> QED BY <1>1, <1>2, <1>3, <1>4, <1>5, <1>6, ReplaceKeeps

LEMMA OtherWriteStep ==
  ASSUME ClientInv, NEW c \in Characters, OtherWrite(c)
  PROVE  ScreenInv(ui', tasks', rev') /\ ui' = ui
<1>1. /\ rev \in [Characters -> Nat] /\ ui \in UiType /\ \A t \in tasks : GoodTask(t)
  BY DEF ClientInv, ScreenInv, Typed
<1>2. /\ ui' = ui /\ tasks' = tasks /\ rev' \in [Characters -> Nat]
      /\ \A d \in Characters : rev[d] <= rev'[d]
  BY <1>1 DEF OtherWrite
<1>3. Typed(ui', tasks', rev')
  BY <1>2 DEF ClientInv, ScreenInv, Typed
<1>4. OneAtATime(ui', tasks') /\ Tickets(ui', tasks') /\ Told(ui', tasks')
  BY <1>2 DEF ClientInv, ScreenInv
<1>5. Answered(tasks', rev')
  <2> SUFFICES ASSUME NEW x \in tasks
               PROVE  /\ x.phase # "loading" => x.got = Nothing
                      /\ x.phase = "ok" => x.made <= rev'[x.target]
                      /\ x.phase = "loading" => \A s \in Surfaces : x.got[s] <= rev'[x.char]
    BY <1>2 DEF Answered
  <2>1. /\ x.made \in Nat /\ x.got \in [Surfaces -> Nat]
        /\ x.phase = "ok" => x.target \in Characters
        /\ x.phase = "loading" => x.char \in Characters
    BY <1>1 DEF GoodTask, TaskType
  <2>2. CASE x.phase = "ok"
    BY <1>1, <1>2, <2>1, <2>2 DEF ClientInv, ScreenInv, Answered
  <2>3. CASE x.phase = "loading"
    BY <1>1, <1>2, <2>1, <2>3 DEF ClientInv, ScreenInv, Answered
  <2> QED BY <2>2, <2>3 DEF ClientInv, ScreenInv, Answered
<1>6. Monotone(ui', tasks', rev')
  <2>1. /\ ui.shown \in Characters => \A s \in Surfaces : ui.got[s] <= rev'[ui.shown]
        /\ ui.char \in Characters => ui.acked <= rev'[ui.char]
    BY <1>1, <1>2 DEF ClientInv, ScreenInv, Monotone, UiType
  <2> QED BY <1>2, <2>1 DEF ClientInv, ScreenInv, Monotone, Newest
<1> QED BY <1>2, <1>3, <1>4, <1>5, <1>6 DEF ScreenInv

(* The user starts a call; the screen was not busy.                        *)
LEMMA StartKeeps ==
  ASSUME ClientInv, ~ui.busy, NEW n,
         ui' = [ui EXCEPT !.busy = TRUE], tasks' = tasks \cup {n}, rev' = rev,
         GoodTask(n), n.phase = "sent", n.got = Nothing
  PROVE  ScreenInv(ui', tasks', rev')
<1>1. ui \in UiType /\ ScreenInv(ui, tasks, rev)
  BY DEF ClientInv, ScreenInv, Typed
<1>2. /\ ui' \in UiType /\ ui'.screen = ui.screen /\ ui'.char = ui.char /\ ui'.seq = ui.seq
      /\ ui'.shown = ui.shown /\ ui'.got = ui.got /\ ui'.failed = ui.failed
      /\ ui'.acked = ui.acked /\ ui'.busy
  BY <1>1 DEF UiType
<1>3. \A t \in tasks : ~Waiting(t)
  BY <1>1 DEF ScreenInv, OneAtATime
<1>4. ~Fetching(n)
  BY DEF Fetching
<1>5. Typed(ui', tasks', rev')
  BY <1>1, <1>2 DEF ScreenInv, Typed
<1>6. OneAtATime(ui', tasks')
  BY <1>2, <1>3 DEF OneAtATime
<1>7. Answered(tasks', rev')
  BY <1>1 DEF ScreenInv, Answered
<1>8. Tickets(ui', tasks')
  BY <1>1, <1>2, <1>4 DEF ScreenInv, Tickets
<1>9. Monotone(ui', tasks', rev')
  BY <1>1, <1>2, <1>4 DEF ScreenInv, Monotone, Newest
<1>10. Told(ui', tasks')
  BY <1>1, <1>2, <1>3 DEF ScreenInv, Told, UpToDate
<1> QED BY <1>5, <1>6, <1>7, <1>8, <1>9, <1>10 DEF ScreenInv

LEMMA BeginStep ==
  ASSUME ClientInv, Begin
  PROVE  ScreenInv(ui', tasks', rev') /\ ui'.got = ui.got /\ ui'.shown = ui.shown
<1> DEFINE n == Task("create", clicks + 1, NoCharacter)
<1>1. /\ ~ui.busy /\ ui' = [ui EXCEPT !.busy = TRUE] /\ tasks' = tasks \cup {n}
      /\ rev' = rev /\ clicks + 1 \in Nat /\ ui \in UiType
  BY DEF Begin, Click, ClientInv, ScreenInv, Typed
<1>2. GoodTask(n) /\ n.phase = "sent" /\ n.got = Nothing
  <2>1. n \in TaskType
    BY <1>1, TaskGood
  <2> QED BY <2>1 DEF GoodTask, Task
<1> HIDE DEF n
<1>3. ui'.got = ui.got /\ ui'.shown = ui.shown
  BY <1>1 DEF UiType
<1> QED BY <1>1, <1>2, <1>3, StartKeeps

LEMMA EditStep ==
  ASSUME ClientInv, NEW target \in Characters, NEW last \in BOOLEAN, Edit(target, last)
  PROVE  ScreenInv(ui', tasks', rev') /\ ui'.got = ui.got /\ ui'.shown = ui.shown
<1> DEFINE b == Task("edit", clicks + 1, ui.char)
           n == [b EXCEPT !.target = target, !.last = last]
<1>1. /\ ~ui.busy /\ ui' = [ui EXCEPT !.busy = TRUE] /\ tasks' = tasks \cup {n}
      /\ rev' = rev /\ clicks + 1 \in Nat /\ ui \in UiType
  BY DEF Edit, Click, ClientInv, ScreenInv, Typed
<1>2. ui.char \in Characters
  BY DEF ClientInv, ScreenInv, Typed, UiType, Edit, Usable
<1>3. /\ b \in TaskType /\ b.phase = "sent" /\ b.got = Nothing
      /\ b.kind = "edit" /\ b.char = ui.char
  <2>1. b \in TaskType
    BY <1>1, <1>2, TaskGood
  <2> QED BY <2>1 DEF Task
<1> HIDE DEF b
<1>4. GoodTask(n) /\ n.phase = "sent" /\ n.got = Nothing
  BY <1>2, <1>3, ClientAssumption DEF GoodTask, TaskType
<1> HIDE DEF n
<1>5. ui'.got = ui.got /\ ui'.shown = ui.shown
  BY <1>1 DEF UiType
<1> QED BY <1>1, <1>4, <1>5, StartKeeps

LEMMA ReloadStep ==
  ASSUME ClientInv, Reload
  PROVE  ScreenInv(ui', tasks', rev') /\ ui'.shown = NoCharacter
<1>1. /\ ui' = Mounted("roster", NoCharacter) /\ tasks' = {} /\ rev' = rev
      /\ rev \in [Characters -> Nat]
  BY DEF Reload, ClientInv, ScreenInv, Typed
<1>2. {Load(NoCharacter, k) : k \in 1..Mounted("roster", NoCharacter).seq} = {}
  BY DEF Mounted
<1>3. Orphaned({}) = {} /\ Answered({}, rev)
  BY DEF Orphaned, Answered
<1>4. ScreenInv(Mounted("roster", NoCharacter),
        Orphaned({}) \cup {Load(NoCharacter, k) : k \in 1..Mounted("roster", NoCharacter).seq}, rev)
  BY <1>1, <1>3, MountKeeps DEF Screens
<1>5. Mounted("roster", NoCharacter).shown = NoCharacter
  BY DEF Mounted
<1> QED BY <1>1, <1>2, <1>3, <1>4, <1>5

(* The buttons that only go to another screen.                             *)
LEMMA GoStep ==
  ASSUME ClientInv,
         \/ \E c \in Characters, screen \in {"session", "atelier"} : OpenCard(screen, c)
         \/ Back \/ GuidedPass \/ Workbench
  PROVE  /\ ScreenInv(ui', tasks', rev')
         /\ ui'.shown \in Characters => ui'.shown = ui.shown /\ ui'.got = ui.got
<1>1. ScreenInv(ui, tasks, rev) /\ rev' = rev
  BY DEF ClientInv, OpenCard, Back, GuidedPass, Workbench, Click
<1>2. \E screen \in Screens, c \in Characters \cup {NoCharacter} :
        (c = NoCharacter <=> screen = "roster") /\ Show(ui, tasks, screen, c)
  BY ClientAssumption DEF OpenCard, Back, GuidedPass, Workbench, Usable, Screens,
                          ClientInv, ScreenInv, Typed, UiType
<1> QED BY <1>1, <1>2, ShowKeeps

(* The refetch of a mounted screen takes a new ticket; the one call the    *)
(* screen waits for is this one.                                           *)
LEMMA RefetchLive ==
  ASSUME ClientInv, NEW t \in tasks, Acknowledged(t), t.live
  PROVE  ScreenInv(ui', tasks', rev') /\ ui'.got = ui.got /\ ui'.shown = ui.shown
<1> DEFINE n == [t EXCEPT !.phase = "loading", !.ticket = ui.seq + 1]
           k == IF {t.target, t.char} = {ui.char} THEN t.made ELSE ui.acked
<1>1. /\ ScreenInv(ui, tasks, rev) /\ ui \in UiType /\ GoodTask(t) /\ rev \in [Characters -> Nat]
      /\ t.phase = "ok" /\ t.kind = "edit" /\ t.got = Nothing /\ t.made <= rev[t.target]
  BY DEF ClientInv, ScreenInv, Typed, Acknowledged, Answered
<1>2. /\ ui' = [ui EXCEPT !.seq = @ + 1, !.acked = k]
      /\ tasks' = (tasks \ {t}) \cup {n} /\ rev' = rev
  BY DEF Acknowledged, Refetch, Replace
<1>3. k \in Nat /\ ui.seq + 1 \in Nat
  BY <1>1 DEF UiType, GoodTask, TaskType
<1>4. /\ GoodTask(n) /\ n.live /\ n.kind = "edit" /\ n.phase = "loading" /\ n.got = Nothing
      /\ n.ticket = ui.seq + 1 /\ n.char = t.char /\ n.char \in Characters
  <2>1. PICK q \in Nat : q = ui.seq + 1
    BY <1>3
  <2>2. n = [t EXCEPT !.phase = "loading", !.ticket = q]
    BY <2>1
  <2> HIDE DEF n
  <2> QED BY <1>1, <2>1, <2>2 DEF GoodTask, TaskType
<1>5. ui.char \in Characters => k <= rev[ui.char]
  BY <1>1 DEF ScreenInv, Monotone
<1> HIDE DEF n, k
<1>6. /\ ui' \in UiType /\ ui'.screen = ui.screen /\ ui'.char = ui.char
      /\ ui'.shown = ui.shown /\ ui'.got = ui.got /\ ui'.failed = ui.failed
      /\ ui'.busy = ui.busy /\ ui'.acked = k /\ ui'.seq = ui.seq + 1
  BY <1>1, <1>2, <1>3 DEF UiType
<1>7. /\ Waiting(t) /\ Waiting(n) /\ Fetching(n) /\ Newest(n, ui')
      /\ \A x \in tasks \ {t} : ~Waiting(x)
  BY <1>1, <1>4, <1>6 DEF Waiting, Fetching, Newest, ScreenInv, OneAtATime
<1>8. \A x \in tasks : Fetching(x) => x.ticket <= ui.seq /\ x.ticket \in Nat /\ ui.seq \in Nat
  BY <1>1 DEF ScreenInv, Tickets, Typed, GoodTask, TaskType, UiType
<1>9. \A x \in tasks : ~Newest(x, ui')
  BY <1>6, <1>8 DEF Newest
<1>10. Typed(ui', tasks', rev')
  BY <1>1, <1>2, <1>4, <1>6 DEF ScreenInv, Typed
<1>11. OneAtATime(ui', tasks')
  BY <1>1, <1>2, <1>6, <1>7 DEF ScreenInv, OneAtATime
<1>12. Answered(tasks', rev')
  BY <1>1, <1>2, <1>4 DEF ScreenInv, Answered, Nothing
<1>13. Tickets(ui', tasks')
  <2>1. \A x \in tasks : Fetching(x) => x.ticket <= ui.seq + 1 /\ x.ticket # ui.seq + 1
    BY <1>8
  <2>2. \A x \in tasks' : x = n \/ x \in tasks
    BY <1>2
  <2>3. ui.seq + 1 <= ui.seq + 1
    BY <1>3
  <2>4. \A x \in tasks' : Fetching(x) => x.ticket <= ui'.seq
    BY <1>4, <1>6, <2>1, <2>2, <2>3
  <2>5. ASSUME NEW x \in tasks', NEW y \in tasks', Fetching(x), Fetching(y), x.ticket = y.ticket
        PROVE  x = y
    BY <1>1, <1>4, <2>1, <2>2, <2>5 DEF ScreenInv, Tickets
  <2> QED BY <2>4, <2>5 DEF Tickets
<1>14. Monotone(ui', tasks', rev')
  BY <1>1, <1>2, <1>4, <1>5, <1>6, <1>9 DEF ScreenInv, Monotone, Nothing
<1>15. Told(ui', tasks')
  <2> SUFFICES ASSUME ui.shown \in Characters, ui.shown = ui.char, ~ui.failed,
                      \E s \in Surfaces : ~(ui.got[s] >= k), t.char # ui.char
               PROVE  FALSE
    BY <1>2, <1>4, <1>6, <1>7 DEF Told, UpToDate
  <2>1. k = ui.acked
    BY DEF k
  <2>2. ~UpToDate(ui)
    BY <2>1 DEF UpToDate
  <2> QED BY <1>1, <1>7, <2>2 DEF ScreenInv, Told, Newest, Fetching
<1> QED BY <1>6, <1>10, <1>11, <1>12, <1>13, <1>14, <1>15 DEF ScreenInv

(* The edit of a screen that is gone touches only what history records.    *)
LEMMA RefetchDead ==
  ASSUME ClientInv, NEW t \in tasks, Acknowledged(t), ~t.live
  PROVE  ScreenInv(ui', tasks', rev') /\ ui'.got = ui.got /\ ui'.shown = ui.shown
<1> DEFINE n == [t EXCEPT !.phase = "loading"]
           h == IF t.target = ui.char THEN t.made ELSE ui.heard
<1>1. /\ ScreenInv(ui, tasks, rev) /\ ui \in UiType /\ GoodTask(t) /\ rev \in [Characters -> Nat]
      /\ t.phase = "ok" /\ t.kind = "edit" /\ t.got = Nothing
  BY DEF ClientInv, ScreenInv, Typed, Acknowledged, Answered
<1>2. /\ ui' = [ui EXCEPT !.heard = h] /\ rev' = rev
      /\ tasks' = (tasks \ {t}) \cup {x \in {n} : x.last}
  BY DEF Acknowledged, Refetch
<1>3. h \in Nat
  BY <1>1 DEF UiType, GoodTask, TaskType
<1>4. /\ GoodTask(n) /\ ~n.live /\ n.phase = "loading" /\ n.got = Nothing
      /\ n.char = t.char /\ n.char \in Characters
  BY <1>1 DEF GoodTask, TaskType
<1> HIDE DEF n, h
<1>5. /\ ui' \in UiType /\ ui'.screen = ui.screen /\ ui'.char = ui.char
      /\ ui'.shown = ui.shown /\ ui'.got = ui.got /\ ui'.failed = ui.failed
      /\ ui'.busy = ui.busy /\ ui'.acked = ui.acked /\ ui'.seq = ui.seq
  BY <1>1, <1>2, <1>3 DEF UiType
<1>6. ~Waiting(n) /\ ~Fetching(n) /\ ~Waiting(t)
  BY <1>4 DEF Waiting, Fetching
<1>7. tasks' \subseteq (tasks \ {t}) \cup {n} /\ tasks \ {t} \subseteq tasks'
  BY <1>2
<1>8. Typed(ui', tasks', rev')
  BY <1>1, <1>2, <1>4, <1>5, <1>7 DEF ScreenInv, Typed
<1>9. OneAtATime(ui', tasks')
  BY <1>1, <1>5, <1>6, <1>7 DEF ScreenInv, OneAtATime
<1>10. Answered(tasks', rev')
  BY <1>1, <1>2, <1>4, <1>7 DEF ScreenInv, Answered, Nothing
<1>11. Tickets(ui', tasks')
  BY <1>1, <1>5, <1>6, <1>7 DEF ScreenInv, Tickets
<1>12. Monotone(ui', tasks', rev')
  BY <1>1, <1>2, <1>5, <1>6, <1>7 DEF ScreenInv, Monotone, Newest
<1>13. Told(ui', tasks')
  <2> SUFFICES ASSUME ui.shown \in Characters, ui.shown = ui.char, ~ui.failed, ~UpToDate(ui)
               PROVE  \/ \E x \in tasks' : Waiting(x) /\ Newest(x, ui) /\ x.char = ui.char
                      \/ ui.busy /\ \A x \in tasks' : ~Waiting(x)
    BY <1>5 DEF Told, UpToDate, Newest
  <2> QED BY <1>1, <1>6, <1>7 DEF ScreenInv, Told
<1> QED BY <1>5, <1>8, <1>9, <1>10, <1>11, <1>12, <1>13 DEF ScreenInv

LEMMA RejectedStep ==
  ASSUME ClientInv, NEW t \in tasks, Rejected(t)
  PROVE  ScreenInv(ui', tasks', rev') /\ ui'.got = ui.got /\ ui'.shown = ui.shown
<1>1. ScreenInv(Freed(t, ui), tasks \ {t}, rev)
  BY FreedKeeps DEF ClientInv, Rejected, Newest, Fetching
<1>2. Freed(t, ui).shown = ui.shown /\ Freed(t, ui).got = ui.got
  BY DEF ClientInv, ScreenInv, Typed, UiType, Freed
<1> QED BY <1>1, <1>2 DEF Rejected

LEMMA CreatedStep ==
  ASSUME ClientInv, NEW t \in tasks, Created(t)
  PROVE  /\ ScreenInv(ui', tasks', rev')
         /\ ui'.shown \in Characters => ui'.shown = ui.shown /\ ui'.got = ui.got
<1>1. ScreenInv(Freed(t, ui), tasks \ {t}, rev)
  BY FreedKeeps DEF ClientInv, Created, Newest, Fetching
<1>2. Freed(t, ui).shown = ui.shown /\ Freed(t, ui).got = ui.got
  BY DEF ClientInv, ScreenInv, Typed, UiType, Freed
<1>3. t.target \in Characters /\ t.target # NoCharacter
  BY ClientAssumption DEF ClientInv, ScreenInv, Typed, GoodTask, Created
<1>4. Show(Freed(t, ui), tasks \ {t}, "session", t.target) /\ rev' = rev
  BY DEF Created
<1> QED BY <1>1, <1>2, <1>3, <1>4, ShowKeeps DEF Screens

(* All surfaces are there: what is shown becomes what was fetched, which   *)
(* is no older than what was shown and includes what was acknowledged.     *)
LEMMA SettleStep ==
  ASSUME ClientInv, NEW t \in tasks, Settle(t)
  PROVE  ScreenInv(ui', tasks', rev') /\ (ui'.shown = ui.shown /\ ui.shown \in Characters
           => \A s \in Surfaces : ui'.got[s] >= ui.got[s])
<1> DEFINE u == IF Current(t)
                THEN [ui EXCEPT !.shown = t.char, !.got = t.got, !.failed = FALSE]
                ELSE ui
<1>1. /\ ScreenInv(ui, tasks, rev) /\ ui \in UiType /\ GoodTask(t) /\ rev \in [Characters -> Nat]
      /\ t.phase = "loading" /\ t.char \in Characters /\ rev' = rev /\ Finish(t, u)
      /\ \A s \in Surfaces : t.got[s] > 0 /\ t.got[s] <= rev[t.char]
      /\ \A s \in Surfaces : ui.got[s] >= ui.got[s]
  BY DEF ClientInv, ScreenInv, Typed, Settle, Answered, GoodTask, TaskType, UiType
<1>2. CASE ~Current(t)
  <2>1. u = ui /\ ~Newest(t, ui)
    BY <1>1, <1>2 DEF Current, Newest, Fetching
  <2> HIDE DEF u
  <2> QED BY <1>1, <2>1, FinishKeeps, ClientAssumption
<1>3. CASE Current(t)
  <2>1. /\ u \in UiType /\ u.screen = ui.screen /\ u.char = ui.char /\ u.seq = ui.seq
        /\ u.shown = t.char /\ u.got = t.got /\ ~u.failed /\ u.busy = ui.busy
        /\ u.acked = ui.acked
    BY <1>1, <1>3 DEF UiType, GoodTask, TaskType
  <2>2. Newest(t, ui)
    BY <1>1, <1>3 DEF Current, Newest, Fetching
  <2> HIDE DEF u
  <2>3. \A x \in tasks : Newest(x, u) => x = t
    BY <1>1, <2>1, <2>2 DEF Newest, ScreenInv, Tickets
  <2>4. t.got \in [Surfaces -> Nat] /\ ui.got \in [Surfaces -> Nat] /\ ui.acked \in Nat
    BY <1>1 DEF UiType, GoodTask, TaskType
  <2>5. t.char = ui.char => UpToDate(u)
    BY <1>1, <2>1, <2>2, <2>4 DEF ScreenInv, Monotone, UpToDate
  <2>6. Typed(u, tasks, rev) /\ OneAtATime(u, tasks) /\ Answered(tasks, rev) /\ Tickets(u, tasks)
    BY <1>1, <2>1 DEF ScreenInv, Typed, OneAtATime, Tickets
  <2>7. Monotone(u, tasks, rev)
    <3>1. u.char \in Characters => u.acked <= rev[u.char]
      BY <1>1, <2>1 DEF ScreenInv, Monotone
    <3>2. \A s \in Surfaces : t.got[s] >= t.got[s]
      BY <2>4
    <3>3. t.char = u.char => \A s \in Surfaces : t.got[s] = 0 \/ t.got[s] >= u.acked
      BY <1>1, <2>1, <2>2 DEF ScreenInv, Monotone
    <3> QED BY <1>1, <2>1, <2>3, <3>1, <3>2, <3>3 DEF Monotone
  <2>8. Told(u, tasks)
    BY <2>1, <2>5 DEF Told
  <2>9. ScreenInv(u, tasks, rev)
    BY <2>6, <2>7, <2>8 DEF ScreenInv
  <2>10. /\ ScreenInv(ui', tasks', rev)
         /\ ui'.shown \in Characters => ui'.shown = u.shown /\ ui'.got = u.got
    BY <1>1, <2>5, <2>9, <2>1, FinishKeeps
  <2>11. ui.shown = t.char => \A s \in Surfaces : t.got[s] >= ui.got[s]
    BY <1>1, <2>2, <2>4 DEF ScreenInv, Monotone
  <2> QED BY <1>1, <2>1, <2>10, <2>11
<1> QED BY <1>2, <1>3

LEMMA FailGetStep ==
  ASSUME ClientInv, NEW t \in tasks, FailGet(t)
  PROVE  /\ ScreenInv(ui', tasks', rev')
         /\ ui'.shown \in Characters => ui'.shown = ui.shown /\ ui'.got = ui.got
<1> DEFINE u == IF Current(t) THEN [ui EXCEPT !.failed = TRUE] ELSE ui
<1>1. /\ ScreenInv(ui, tasks, rev) /\ ui \in UiType /\ t.phase = "loading" /\ rev' = rev
      /\ Finish(t, u)
  BY DEF ClientInv, ScreenInv, Typed, FailGet
<1>2. CASE ~Current(t)
  <2>1. u = ui /\ ~Newest(t, ui)
    BY <1>1, <1>2 DEF Current, Newest, Fetching
  <2> HIDE DEF u
  <2> QED BY <1>1, <2>1, FinishKeeps
<1>3. CASE Current(t)
  <2>1. /\ u \in UiType /\ u.screen = ui.screen /\ u.char = ui.char /\ u.seq = ui.seq
        /\ u.shown = ui.shown /\ u.got = ui.got /\ u.failed /\ u.busy = ui.busy
        /\ u.acked = ui.acked
    BY <1>1, <1>3 DEF UiType
  <2> HIDE DEF u
  <2>2. ScreenInv(u, tasks, rev)
    BY <1>1, <2>1 DEF ScreenInv, Typed, OneAtATime, Tickets, Monotone, Newest, Told
  <2> QED BY <1>1, <2>1, <2>2, FinishKeeps
<1> QED BY <1>2, <1>3

LEMMA TearStep ==
  ASSUME ClientInv, NEW t \in tasks, Tear(t)
  PROVE  ScreenInv(ui', tasks', rev') /\ ui'.got = ui.got /\ ui'.shown = ui.shown
<1>1. /\ ScreenInv(ui, tasks, rev) /\ ui \in UiType /\ rev' = rev /\ tasks' = tasks \ {t}
      /\ ui' = [ui EXCEPT !.torn = @ \/ t.live]
  BY DEF ClientInv, ScreenInv, Typed, Tear
<1>2. /\ ui' \in UiType /\ ui'.screen = ui.screen /\ ui'.char = ui.char /\ ui'.seq = ui.seq
      /\ ui'.shown = ui.shown /\ ui'.got = ui.got /\ ui'.failed = ui.failed
      /\ ui'.busy = ui.busy /\ ui'.acked = ui.acked
  BY <1>1 DEF UiType
<1>3. Typed(ui', tasks', rev') /\ OneAtATime(ui', tasks') /\ Answered(tasks', rev')
  BY <1>1, <1>2 DEF ScreenInv, Typed, OneAtATime, Answered
<1>4. Tickets(ui', tasks') /\ Monotone(ui', tasks', rev')
  BY <1>1, <1>2 DEF ScreenInv, Tickets, Monotone, Newest
<1>5. Told(ui', tasks')
  <2> SUFFICES ASSUME ui.shown \in Characters, ui.shown = ui.char, ~ui.failed, ~UpToDate(ui)
               PROVE  \/ \E x \in tasks' : Waiting(x) /\ Newest(x, ui) /\ x.char = ui.char
                      \/ ui.busy /\ \A x \in tasks' : ~Waiting(x)
    BY <1>2 DEF Told, UpToDate, Newest
  <2>1. CASE Waiting(t)
    BY <1>1, <2>1 DEF ScreenInv, OneAtATime
  <2>2. CASE ~Waiting(t)
    BY <1>1, <2>2 DEF ScreenInv, Told
  <2> QED BY <2>1, <2>2
<1> QED BY <1>2, <1>3, <1>4, <1>5 DEF ScreenInv

(* Every step keeps the invariant and never takes what is shown back.      *)
LEMMA ClientStep ==
  ASSUME ClientInv, [Next]_vars
  PROVE  ClientInv' /\ NoStepBack
<1>1. clicks' \in Nat
  <2>1. clicks \in Nat /\ clicks + 1 \in Nat
    BY DEF ClientInv
  <2>2. CASE UNCHANGED vars \/ \E c \in Characters : OtherWrite(c)
    BY <2>1, <2>2 DEF vars, OtherWrite
  <2>3. CASE Reload
    BY <2>3 DEF Reload
  <2>4. CASE \/ \E c \in Characters, screen \in {"session", "atelier"} : OpenCard(screen, c)
             \/ Begin \/ Back \/ GuidedPass \/ Workbench
             \/ \E target \in Characters, last \in BOOLEAN : Edit(target, last)
    BY <2>1, <2>4 DEF OpenCard, Begin, Back, GuidedPass, Workbench, Edit, Click
  <2>5. ASSUME NEW t \in tasks, Progress(t) \/ LoseReply(t) \/ FailGet(t) \/ Tear(t)
        PROVE  clicks' = clicks
    BY <2>5 DEF Progress, Serve, Refuse, ServeGet, Acknowledged, Created, Rejected, Settle,
                LoseReply, FailGet, Tear
  <2> QED BY <2>1, <2>2, <2>3, <2>4, <2>5 DEF Next
<1>2. \A s \in Surfaces : ui.got[s] >= ui.got[s]
  BY DEF ClientInv, ScreenInv, Typed, UiType
<1>3. ScreenInv(ui', tasks', rev') /\ NoStepBack
  <2>1. CASE UNCHANGED vars
    BY <1>2, <2>1 DEF vars, ClientInv, NoStepBack
  <2>2. CASE \/ \E c \in Characters, screen \in {"session", "atelier"} : OpenCard(screen, c)
             \/ Back \/ GuidedPass \/ Workbench
    BY <1>2, <2>2, GoStep DEF NoStepBack
  <2>3. CASE Begin
    BY <1>2, <2>3, BeginStep DEF NoStepBack
  <2>4. CASE Reload
    BY <2>4, ReloadStep, ClientAssumption DEF NoStepBack
  <2>5. CASE \E target \in Characters, last \in BOOLEAN : Edit(target, last)
    BY <1>2, <2>5, EditStep DEF NoStepBack
  <2>6. CASE \E c \in Characters : OtherWrite(c)
    BY <1>2, <2>6, OtherWriteStep DEF NoStepBack
  <2>7. ASSUME NEW t \in tasks, Progress(t) \/ LoseReply(t) \/ FailGet(t) \/ Tear(t)
        PROVE  ScreenInv(ui', tasks', rev') /\ NoStepBack
    <3>1. CASE Serve(t)
      BY <1>2, <3>1, ServeStep DEF NoStepBack
    <3>2. CASE Refuse(t) \/ LoseReply(t)
      BY <1>2, <3>2, NoAnswerStep DEF NoStepBack
    <3>3. CASE \E s \in Surfaces : ServeGet(t, s)
      BY <1>2, <3>3, ServeGetStep DEF NoStepBack
    <3>4. CASE Acknowledged(t)
      BY <1>2, <3>4, RefetchLive, RefetchDead DEF NoStepBack
    <3>5. CASE Created(t)
      BY <1>2, <3>5, CreatedStep DEF NoStepBack
    <3>6. CASE Rejected(t)
      BY <1>2, <3>6, RejectedStep DEF NoStepBack
    <3>7. CASE Settle(t)
      BY <3>7, SettleStep DEF NoStepBack
    <3>8. CASE FailGet(t)
      BY <1>2, <3>8, FailGetStep DEF NoStepBack
    <3>9. CASE Tear(t)
      BY <1>2, <3>9, TearStep DEF NoStepBack
    <3> QED BY <2>7, <3>1, <3>2, <3>3, <3>4, <3>5, <3>6, <3>7, <3>8, <3>9 DEF Progress
  <2> QED BY <2>1, <2>2, <2>3, <2>4, <2>5, <2>6, <2>7 DEF Next
<1> QED BY <1>1, <1>3 DEF ClientInv, ScreenInv, Typed, OneAtATime, Answered, Tickets,
                           Monotone, Told, UpToDate, Newest, Waiting, Fetching, GoodTask

LEMMA ClientInvariant == Spec => []ClientInv
<1>1. ClientInv /\ [Next]_vars => ClientInv'
  BY ClientStep
<1> QED BY ClientInit, <1>1, PTL DEF Spec

(* The client's variables have their types.                                *)
THEOREM ClientTypes == Spec => []TypeOK
<1>1. ClientInv => TypeOK
  BY DEF ClientInv, ScreenInv, Typed, GoodTask, TypeOK
<1> QED BY <1>1, ClientInvariant, PTL

(* What a screen shows of a character never goes back, for any number of   *)
(* overlapping refreshes.                                                  *)
THEOREM NeverShowsOlder == Spec => ShownNeverGoesBack
<1>1. ClientInv /\ [Next]_vars => [NoStepBack]_vars
  BY ClientStep
<1> QED BY <1>1, ClientInvariant, PTL DEF Spec, ShownNeverGoesBack

(* A screen that takes edits again shows the last one it reported as done. *)
THEOREM ReadsItsWrites == Spec => []ReadYourWrites
<1>1. ClientInv => ReadYourWrites
  BY DEF ClientInv, ScreenInv, OneAtATime, Told, UpToDate, ReadYourWrites
<1> QED BY <1>1, ClientInvariant, PTL
(***************************************************************************)
(* Nothing is awaited in vain.                                             *)
(***************************************************************************)
IsLoading(u) == u.char \in Characters /\ u.shown = NoCharacter /\ ~u.failed

Awaited(u, ts) ==
  ~u.torn => /\ u.busy => \E t \in ts : Waiting(t)
             /\ IsLoading(u) => \E t \in ts : Newest(t, u)

LEMMA AwaitedMounted ==
  ASSUME NEW ts, NEW screen \in Screens, NEW c \in Characters \cup {NoCharacter},
         c = NoCharacter <=> screen = "roster"
  PROVE  LET u == Mounted(screen, c)
         IN  Awaited(u, Orphaned(ts) \cup {Load(c, k) : k \in 1..u.seq})
<1> DEFINE u == Mounted(screen, c)
           loads == {Load(c, k) : k \in 1..u.seq}
<1>1. ~u.busy /\ u.char = c /\ u.seq \in Nat
  BY MountedGood
<1>2. ASSUME IsLoading(u)
      PROVE  \E t \in loads : Newest(t, u)
  <2>1. c \in Characters /\ screen # "roster"
    BY <1>1, <1>2, ClientAssumption DEF IsLoading
  <2>2. u.seq >= 1
    BY <2>1 DEF Mounted
  <2>3. Load(c, u.seq) \in loads
    BY <1>1, <2>2
  <2>4. Newest(Load(c, u.seq), u)
    BY <1>1, <2>1, LoadGood DEF Newest
  <2> QED BY <2>3, <2>4
<1> QED BY <1>1, <1>2 DEF Awaited

LEMMA AwaitedShown ==
  ASSUME NEW u \in UiType, NEW ts, Awaited(u, ts),
         NEW screen \in Screens, NEW c \in Characters \cup {NoCharacter},
         c = NoCharacter <=> screen = "roster",
         u.char = NoCharacter <=> u.screen = "roster",
         Show(u, ts, screen, c)
  PROVE  Awaited(ui', tasks')
<1>1. CASE u.screen # screen
  BY <1>1, AwaitedMounted DEF Show
<1>2. CASE u.screen = screen /\ u.char # c
  <2> DEFINE fresh == Mounted(screen, c)
             load == Load(c, u.seq + 1)
  <2>1. /\ ui' = [fresh EXCEPT !.seq = u.seq + 1, !.busy = u.busy, !.torn = u.torn]
        /\ tasks' = ts \cup {load}
    BY <1>2 DEF Show
  <2>2. fresh \in UiType /\ u.seq + 1 \in Nat
    BY MountedGood DEF UiType
  <2> HIDE DEF fresh
  <2>3. ui'.seq = u.seq + 1 /\ ui'.busy = u.busy /\ ui'.torn = u.torn
    BY <2>1, <2>2 DEF UiType
  <2>4. c \in Characters
    BY <1>2, ClientAssumption
  <2>5. Newest(load, ui')
    BY <2>2, <2>3, <2>4, LoadGood DEF Newest
  <2> HIDE DEF load
  <2> QED BY <2>1, <2>3, <2>5 DEF Awaited
<1>3. CASE u.screen = screen /\ u.char = c
  BY <1>3 DEF Show
<1> QED BY <1>1, <1>2, <1>3

(* A call that ends leaves the screen free of itself.                      *)
LEMMA AwaitedFreed ==
  ASSUME ClientInv, Awaited(ui, tasks), NEW t \in tasks, NEW u \in UiType,
         u.torn = ui.torn, u.busy = ui.busy, u.seq = ui.seq,
         IsLoading(u) => IsLoading(ui) /\ ~Newest(t, ui)
  PROVE  Awaited(Freed(t, u), tasks \ {t})
<1> DEFINE v == Freed(t, u)
<1>1. t.live \in BOOLEAN
  BY DEF ClientInv, ScreenInv, Typed, GoodTask, TaskType
<1>2. /\ v.char = u.char /\ v.seq = u.seq /\ v.shown = u.shown
      /\ v.failed = u.failed /\ v.torn = u.torn
      /\ v.busy = (u.busy /\ ~Waiting(t))
  BY <1>1 DEF Freed, UiType, Waiting
<1> HIDE DEF v
<1>3. ASSUME ~v.torn, v.busy
      PROVE  \E x \in tasks \ {t} : Waiting(x)
  BY <1>2, <1>3 DEF Awaited
<1>4. ASSUME ~v.torn, IsLoading(v)
      PROVE  \E x \in tasks \ {t} : Newest(x, v)
  <2>1. IsLoading(u)
    BY <1>2, <1>4 DEF IsLoading
  <2> QED BY <1>2, <1>4, <2>1 DEF Awaited, Newest
<1> QED BY <1>3, <1>4 DEF Awaited, v

LEMMA AwaitedFinished ==
  ASSUME ClientInv, Awaited(ui, tasks), NEW t \in tasks, t.phase = "loading",
         NEW u \in UiType,
         u.torn = ui.torn, u.busy = ui.busy, u.seq = ui.seq,
         u.char = ui.char, u.screen = ui.screen,
         IsLoading(u) => IsLoading(ui) /\ ~Newest(t, ui),
         Finish(t, u)
  PROVE  Awaited(ui', tasks')
<1>1. Awaited(Freed(t, u), tasks \ {t})
  BY AwaitedFreed
<1>2. CASE t.last
  <2>1. Show(Freed(t, u), tasks \ {t}, "atelier", t.char)
    BY <1>2 DEF Finish
  <2>2. t.char \in Characters /\ t.char # NoCharacter /\ t.live \in BOOLEAN
    BY ClientAssumption DEF ClientInv, ScreenInv, Typed, GoodTask, TaskType
  <2>3. Freed(t, u) \in UiType
    BY <2>2 DEF Freed, UiType
  <2>4. Freed(t, u).char = u.char /\ Freed(t, u).screen = u.screen
    BY DEF Freed, UiType
  <2>5. u.char = NoCharacter <=> u.screen = "roster"
    BY DEF ClientInv, ScreenInv, Typed
  <2> QED BY <1>1, <2>1, <2>2, <2>3, <2>4, <2>5, AwaitedShown DEF Screens
<1>3. CASE ~t.last
  BY <1>1, <1>3 DEF Finish
<1> QED BY <1>2, <1>3

(* A call that goes on is waited for as before.                            *)
LEMMA AwaitedReplaced ==
  ASSUME Awaited(ui, tasks), NEW t \in tasks, NEW n, ui' = ui, Replace(t, n),
         n.live = t.live, n.kind = t.kind, n.ticket = t.ticket,
         n.phase = "loading" <=> t.phase = "loading"
  PROVE  Awaited(ui', tasks')
<1>1. (Waiting(n) <=> Waiting(t)) /\ (Newest(n, ui) <=> Newest(t, ui))
  BY DEF Waiting, Newest, Fetching
<1> QED BY <1>1 DEF Awaited, Replace

(* What a click does: it shows a screen, or starts a call it waits for.    *)
LEMMA AwaitedClicked ==
  ASSUME ClientInv, Awaited(ui, tasks),
         \/ \E c \in Characters, screen \in {"session", "atelier"} : OpenCard(screen, c)
         \/ Begin \/ Back \/ GuidedPass \/ Workbench \/ Reload
         \/ \E target \in Characters, last \in BOOLEAN : Edit(target, last)
  PROVE  Awaited(ui', tasks')
<1>1. ui \in UiType /\ (ui.char = NoCharacter <=> ui.screen = "roster")
  BY DEF ClientInv, ScreenInv, Typed
<1>2. CASE \/ \E c \in Characters, screen \in {"session", "atelier"} : OpenCard(screen, c)
           \/ Back \/ GuidedPass \/ Workbench
  <2>1. PICK screen \in Screens, c \in Characters \cup {NoCharacter} :
          (c = NoCharacter <=> screen = "roster") /\ Show(ui, tasks, screen, c)
    BY <1>1, <1>2, ClientAssumption
       DEF OpenCard, Back, GuidedPass, Workbench, Usable, Screens, UiType
  <2> QED BY <1>1, <2>1, AwaitedShown
<1>3. ASSUME NEW t, tasks' = tasks \cup {t}, Waiting(t), ui' = [ui EXCEPT !.busy = TRUE]
      PROVE  Awaited(ui', tasks')
  <2>1. /\ ui'.torn = ui.torn /\ ui'.seq = ui.seq /\ ui'.char = ui.char
        /\ ui'.shown = ui.shown /\ ui'.failed = ui.failed
    BY <1>1, <1>3 DEF UiType
  <2> QED BY <1>3, <2>1 DEF Awaited, IsLoading, Newest
<1>4. CASE Begin
  <2>1. Waiting(Task("create", clicks + 1, NoCharacter))
    BY DEF Task, Waiting
  <2> QED BY <1>3, <1>4, <2>1 DEF Begin
<1>5. ASSUME NEW target \in Characters, NEW last \in BOOLEAN, Edit(target, last)
      PROVE  Awaited(ui', tasks')
  <2> DEFINE t == [Task("edit", clicks + 1, ui.char) EXCEPT !.target = target, !.last = last]
  <2>1. Waiting(t)
    BY DEF Task, Waiting
  <2>2. tasks' = tasks \cup {t} /\ ui' = [ui EXCEPT !.busy = TRUE]
    BY <1>5 DEF Edit
  <2> HIDE DEF t
  <2> QED BY <1>3, <2>1, <2>2
<1>6. CASE Reload
  <2>1. ~ui'.busy /\ ui'.char = NoCharacter
    BY <1>6, MountedGood DEF Reload, Screens
  <2> QED BY <2>1, ClientAssumption DEF Awaited, IsLoading
<1> QED BY <1>2, <1>4, <1>5, <1>6

(* A refetch takes the screen's next ticket with it.                       *)
LEMMA AwaitedRefetched ==
  ASSUME ClientInv, Awaited(ui, tasks), NEW t \in tasks, Acknowledged(t)
  PROVE  Awaited(ui', tasks')
<1>1. ui \in UiType /\ t \in TaskType /\ t.phase = "ok" /\ t.kind = "edit"
  BY DEF ClientInv, ScreenInv, Typed, GoodTask, Acknowledged
<1>2. CASE t.live
  <2> DEFINE n == [t EXCEPT !.phase = "loading", !.ticket = ui.seq + 1]
  <2>1. /\ ui'.seq = ui.seq + 1 /\ ui'.torn = ui.torn /\ ui'.busy = ui.busy
        /\ tasks' = (tasks \ {t}) \cup {n}
    BY <1>1, <1>2 DEF Acknowledged, Refetch, Replace, UiType
  <2>2. n.live /\ n.kind = "edit" /\ n.phase = "loading" /\ n.ticket = ui.seq + 1
    BY <1>1, <1>2 DEF TaskType
  <2> HIDE DEF n
  <2> QED BY <2>1, <2>2 DEF Awaited, Waiting, Newest, Fetching
<1>3. CASE ~t.live
  <2>1. /\ ui'.seq = ui.seq /\ ui'.torn = ui.torn /\ ui'.busy = ui.busy
        /\ ui'.char = ui.char /\ ui'.shown = ui.shown /\ ui'.failed = ui.failed
        /\ tasks \ {t} \subseteq tasks'
    BY <1>1, <1>3 DEF Acknowledged, Refetch, UiType
  <2>2. ~Waiting(t) /\ ~Newest(t, ui)
    BY <1>3 DEF Waiting, Newest, Fetching
  <2> QED BY <2>1, <2>2 DEF Awaited, IsLoading, Newest
<1> QED BY <1>2, <1>3

LEMMA AwaitedEnded ==
  ASSUME ClientInv, Awaited(ui, tasks), NEW t \in tasks,
         Created(t) \/ Rejected(t) \/ Settle(t) \/ FailGet(t) \/ Tear(t)
  PROVE  Awaited(ui', tasks')
<1>1. /\ ui \in UiType /\ GoodTask(t) /\ t \in TaskType
      /\ ui.char = NoCharacter <=> ui.screen = "roster"
  BY DEF ClientInv, ScreenInv, Typed, GoodTask
<1>2. t.phase # "loading" => Awaited(Freed(t, ui), tasks \ {t})
  BY <1>1, AwaitedFreed DEF Newest, Fetching
<1>3. CASE Created(t)
  <2>1. t.phase = "ok" /\ Show(Freed(t, ui), tasks \ {t}, "session", t.target)
    BY <1>3 DEF Created
  <2>2. t.target \in Characters /\ t.target # NoCharacter
    BY <1>1, <2>1, ClientAssumption DEF GoodTask
  <2>3. Freed(t, ui) \in UiType
    BY <1>1 DEF Freed, UiType, TaskType
  <2>4. Freed(t, ui).char = ui.char /\ Freed(t, ui).screen = ui.screen
    BY <1>1 DEF Freed, UiType
  <2> QED BY <1>1, <1>2, <2>1, <2>2, <2>3, <2>4, AwaitedShown DEF Screens
<1>4. CASE Rejected(t)
  BY <1>2, <1>4 DEF Rejected
<1>5. CASE Settle(t)
  <2> DEFINE u == IF Current(t)
                  THEN [ui EXCEPT !.shown = t.char, !.got = t.got, !.failed = FALSE]
                  ELSE ui
  <2>1. t.phase = "loading" /\ Finish(t, u)
    BY <1>5 DEF Settle
  <2>2. t.char \in Characters /\ t.char # NoCharacter /\ t.got \in [Surfaces -> Nat]
    BY <1>1, <2>1, ClientAssumption DEF GoodTask, TaskType
  <2>3. /\ u \in UiType /\ u.torn = ui.torn /\ u.busy = ui.busy /\ u.seq = ui.seq
        /\ u.char = ui.char /\ u.screen = ui.screen
        /\ Current(t) => u.shown = t.char
        /\ ~Current(t) => u = ui
    BY <1>1, <2>2 DEF UiType
  <2>4. IsLoading(u) => IsLoading(ui) /\ ~Newest(t, ui)
    BY <2>2, <2>3 DEF IsLoading, Newest, Fetching, Current
  <2> HIDE DEF u
  <2> QED BY <2>1, <2>3, <2>4, AwaitedFinished
<1>6. CASE FailGet(t)
  <2> DEFINE u == IF Current(t) THEN [ui EXCEPT !.failed = TRUE] ELSE ui
  <2>1. t.phase = "loading" /\ Finish(t, u)
    BY <1>6 DEF FailGet
  <2>2. /\ u \in UiType /\ u.torn = ui.torn /\ u.busy = ui.busy /\ u.seq = ui.seq
        /\ u.char = ui.char /\ u.screen = ui.screen
        /\ Current(t) => u.failed
        /\ ~Current(t) => u = ui
    BY <1>1 DEF UiType
  <2>3. IsLoading(u) => IsLoading(ui) /\ ~Newest(t, ui)
    BY <2>2 DEF IsLoading, Newest, Fetching, Current
  <2> HIDE DEF u
  <2> QED BY <2>1, <2>2, <2>3, AwaitedFinished
<1>7. CASE Tear(t)
  <2>1. /\ ui'.torn = (ui.torn \/ t.live) /\ ui'.busy = ui.busy /\ ui'.seq = ui.seq
        /\ ui'.char = ui.char /\ ui'.shown = ui.shown /\ ui'.failed = ui.failed
        /\ tasks' = tasks \ {t}
    BY <1>1, <1>7 DEF Tear, UiType, TaskType
  <2>2. ~t.live => ~Waiting(t) /\ ~Newest(t, ui)
    BY DEF Waiting, Newest, Fetching
  <2> QED BY <2>1, <2>2 DEF Awaited, IsLoading, Newest
<1> QED BY <1>3, <1>4, <1>5, <1>6, <1>7

LEMMA AwaitedStep ==
  ASSUME ClientInv, Awaited(ui, tasks), [Next]_vars
  PROVE  Awaited(ui', tasks')
<1>1. CASE UNCHANGED <<ui, tasks>>
  BY <1>1 DEF Awaited, IsLoading, Newest
<1>2. ASSUME NEW t \in tasks, Serve(t) \/ Refuse(t) \/ LoseReply(t)
                              \/ \E s \in Surfaces : ServeGet(t, s)
      PROVE  Awaited(ui', tasks')
  <2>1. PICK n : /\ ui' = ui /\ Replace(t, n)
                 /\ n.live = t.live /\ n.kind = t.kind /\ n.ticket = t.ticket
                 /\ n.phase = "loading" <=> t.phase = "loading"
    <3>1. t \in TaskType
      BY DEF ClientInv, ScreenInv, Typed, GoodTask
    <3> DEFINE Goes(n) == /\ ui' = ui /\ Replace(t, n)
                          /\ n.live = t.live /\ n.kind = t.kind /\ n.ticket = t.ticket
                          /\ n.phase = "loading" <=> t.phase = "loading"
    <3>2. ASSUME NEW c \in Characters, t.phase = "sent", ui' = ui,
                 Replace(t, [t EXCEPT !.phase = "ok", !.target = c, !.made = rev[c] + 1])
          PROVE  \E n : Goes(n)
      <4>1. Goes([t EXCEPT !.phase = "ok", !.target = c, !.made = rev[c] + 1])
        BY <3>1, <3>2 DEF TaskType
      <4> QED BY <4>1
    <3>3. ASSUME t.phase # "loading", ui' = ui, Replace(t, [t EXCEPT !.phase = "no"])
          PROVE  \E n : Goes(n)
      <4>1. Goes([t EXCEPT !.phase = "no"])
        BY <3>1, <3>3 DEF TaskType
      <4> QED BY <4>1
    <3>4. ASSUME NEW s \in Surfaces, ServeGet(t, s)
          PROVE  \E n : Goes(n)
      <4>1. Goes([t EXCEPT !.got[s] = rev[t.char]])
        BY <3>1, <3>4 DEF ServeGet, TaskType
      <4> QED BY <4>1
    <3> HIDE DEF Goes
    <3>5. \E n : Goes(n)
      BY <1>2, <3>2, <3>3, <3>4 DEF Serve, Refuse, LoseReply
    <3> QED BY <3>5 DEF Goes
  <2> QED BY <2>1, AwaitedReplaced
<1>3. CASE \E c \in Characters : OtherWrite(c)
  BY <1>1, <1>3 DEF OtherWrite
<1> QED BY <1>1, <1>2, <1>3, AwaitedClicked, AwaitedRefetched, AwaitedEnded
        DEF Next, Progress, vars

(* A busy screen has a call in flight that will give it free, a loading    *)
(* one the refresh it will accept, for any number of overlapping calls     *)
(* (App.tsx, useRecordData.ts): what is left for a screen to come to rest  *)
(* is that the calls end.                                                  *)
THEOREM NeverAwaitedInVain == Spec => []NothingAwaitedInVain
<1>1. Init => Awaited(ui, tasks)
  <2> SUFFICES ASSUME Init PROVE Awaited(ui, tasks)
    OBVIOUS
  <2>1. ~ui.busy /\ ui.char = NoCharacter
    BY MountedGood DEF Init, Screens
  <2> QED BY <2>1, ClientAssumption DEF Awaited, IsLoading
<1>2. ClientInv /\ Awaited(ui, tasks) /\ [Next]_vars => Awaited(ui, tasks)'
  BY AwaitedStep DEF Awaited, IsLoading, Newest, Waiting, Fetching
<1>3. Spec => []Awaited(ui, tasks)
  BY ClientInvariant, <1>1, <1>2, PTL DEF Spec
<1>4. Awaited(ui, tasks) => NothingAwaitedInVain
  BY DEF Awaited, IsLoading, Newest, Fetching, NothingAwaitedInVain, Loading
<1> QED BY <1>3, <1>4, PTL

=============================================================================
