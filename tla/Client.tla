------------------------------- MODULE Client --------------------------------
(***************************************************************************)
(* The client: the screens, the hook that loads a record's served surfaces *)
(* (useRecordData) and the requests it has in flight.                      *)
(*                                                                         *)
(* A record on the server is the number of its saves.  A screen is a       *)
(* mounted component; an asynchronous function that was called on it goes  *)
(* on after it is unmounted.                                               *)
(***************************************************************************)
EXTENDS Naturals, FiniteSets

CONSTANTS
  Characters,
  NoCharacter,
  Surfaces,      \* what one refresh fetches in parallel
  StrictMode,    \* the effect of a newly mounted component runs twice
  MaxRev,        \* bound: saves of one character
  MaxClicks      \* bound: clicks between two reloads of the page

ASSUME ClientAssumption ==
  /\ NoCharacter \notin Characters
  /\ StrictMode \in BOOLEAN
  /\ MaxRev \in Nat /\ MaxClicks \in Nat

VARIABLES
  rev,     \* server: the saves of each character so far, 0 before its creation
  ui,      \* the mounted screen
  tasks,   \* asynchronous calls that have not ended
  clicks

vars == <<rev, ui, tasks, clicks>>

Screens == {"roster", "session", "atelier"}

(* A surface that has not been answered is 0; a saved record is at least 1. *)
Nothing == [s \in Surfaces |-> 0]

(* The state of a newly mounted screen.  seq is the hook's ticket counter, *)
(* shown and got are the bundle, torn says that an answer broke off and    *)
(* that what waited for it waits for ever.  acked and heard are history:   *)
(* the last save of char whose success was reported to this screen, and to *)
(* one that was already gone.                                              *)
Mounted(screen, c) ==
  [screen |-> screen, char |-> c,
   seq    |-> IF screen = "roster" THEN 0 ELSE IF StrictMode THEN 2 ELSE 1,
   shown  |-> NoCharacter, got |-> Nothing,
   failed |-> FALSE, busy |-> FALSE, torn |-> FALSE,
   acked  |-> 0, heard |-> 0]

(* An asynchronous call.  live: the screen it was called on is mounted.    *)
(* phase: "sent", answered "ok" or "no", or "loading" its surfaces.        *)
(* target is the character it writes, char the one it fetches.             *)
Task(kind, id, c) ==
  [kind |-> kind, id |-> id, live |-> TRUE, phase |-> "sent",
   char |-> c, target |-> c, last |-> FALSE, made |-> 0,
   ticket |-> 0, got |-> Nothing]

Load(c, k) == [Task("load", 0, c) EXCEPT !.phase = "loading", !.ticket = k]

Init ==
  /\ rev \in [Characters -> {0, 1}]
  /\ ui = Mounted("roster", NoCharacter)
  /\ tasks = {}
  /\ clicks = 0

(***************************************************************************)
(* Screens.                                                                *)
(***************************************************************************)

(* What the calls in flight become when the mounted screen goes: a refresh *)
(* of an unmounted component has no effect any more, the rest goes on.     *)
Orphaned(ts) == {[t EXCEPT !.live = FALSE] : t \in {x \in ts : x.kind # "load"}}

(* setView: another kind of screen is mounted anew; the same kind keeps    *)
(* its component, which reloads if the character is another one.           *)
Show(u, ts, screen, c) ==
  LET fresh == Mounted(screen, c)
  IN  \/ /\ u.screen # screen
         /\ ui' = fresh
         /\ tasks' = Orphaned(ts) \cup {Load(c, k) : k \in 1..fresh.seq}
      \/ /\ u.screen = screen /\ u.char # c
         /\ ui' = [fresh EXCEPT !.seq = u.seq + 1, !.busy = u.busy, !.torn = u.torn]
         /\ tasks' = ts \cup {Load(c, u.seq + 1)}
      \/ /\ u.screen = screen /\ u.char = c
         /\ ui' = u
         /\ tasks' = ts

Replace(t, new) == tasks' = (tasks \ {t}) \cup {new}

(***************************************************************************)
(* The user.                                                               *)
(***************************************************************************)

Click == clicks < MaxClicks /\ clicks' = clicks + 1 /\ UNCHANGED rev

(* A screen of a record has controls only while it shows a bundle.         *)
Usable(screen) == ui.screen = screen /\ ui.shown # NoCharacter /\ ~ui.failed

OpenCard(screen, c) ==
  /\ Click /\ ui.screen = "roster" /\ rev[c] > 0
  /\ Show(ui, tasks, screen, c)

Begin ==
  /\ Click /\ ui.screen = "roster" /\ ~ui.busy
  /\ ui' = [ui EXCEPT !.busy = TRUE]
  /\ tasks' = tasks \cup {Task("create", clicks + 1, NoCharacter)}

(* The header buttons are not disabled while the screen is busy.           *)
Back       == Click /\ Usable("atelier") /\ Show(ui, tasks, "roster", NoCharacter)
GuidedPass == Click /\ Usable("atelier") /\ Show(ui, tasks, "session", ui.char)
Workbench  == Click /\ Usable("session") /\ Show(ui, tasks, "atelier", ui.char)

(* An edit is written to the screen's character; the text station takes    *)
(* the character of the bundle.  last: the answer to the session's last    *)
(* group, after which it goes to the workbench.                            *)
Edit(target, last) ==
  /\ Click /\ ~ui.busy
  /\ Usable("session") \/ Usable("atelier")
  /\ last => ui.screen = "session"
  /\ target = ui.char \/ (ui.screen = "atelier" /\ target = ui.shown)
  /\ ui' = [ui EXCEPT !.busy = TRUE]
  /\ tasks' = tasks \cup {[Task("edit", clicks + 1, ui.char) EXCEPT !.target = target,
                                                                   !.last = last]}

(* The page is reloaded.  A request it leaves in flight is OtherWrite.     *)
Reload ==
  /\ clicks > 0
  /\ ui' = Mounted("roster", NoCharacter) /\ tasks' = {} /\ clicks' = 0
  /\ UNCHANGED rev

(***************************************************************************)
(* The server, as the client's calls see it, and other clients.            *)
(***************************************************************************)

Serve(t) ==
  /\ t.phase = "sent"
  /\ \E c \in Characters :
       /\ IF t.kind = "create" THEN rev[c] = 0 ELSE c = t.target
       /\ rev[c] < MaxRev
       /\ rev' = [rev EXCEPT ![c] = @ + 1]
       /\ Replace(t, [t EXCEPT !.phase = "ok", !.target = c, !.made = rev[c] + 1])
  /\ UNCHANGED <<ui, clicks>>

(* The server refuses, or the request does not reach it.                   *)
Refuse(t) ==
  /\ t.phase = "sent"
  /\ Replace(t, [t EXCEPT !.phase = "no"])
  /\ UNCHANGED <<rev, ui, clicks>>

(* The answer to a call that took effect is lost.                          *)
LoseReply(t) ==
  /\ t.phase = "ok"
  /\ Replace(t, [t EXCEPT !.phase = "no"])
  /\ UNCHANGED <<rev, ui, clicks>>

ServeGet(t, s) ==
  /\ t.phase = "loading" /\ t.got[s] = 0
  /\ Replace(t, [t EXCEPT !.got[s] = rev[t.char]])
  /\ UNCHANGED <<rev, ui, clicks>>

OtherWrite(c) ==
  /\ rev[c] < MaxRev
  /\ rev' = [rev EXCEPT ![c] = @ + 1]
  /\ UNCHANGED <<ui, tasks, clicks>>

(***************************************************************************)
(* run, mutate and refresh.                                                *)
(***************************************************************************)

(* Mutant: refresh does not look at its ticket.                            *)
Current_AnyTicket(t) == t.live

(* ticket === seq.current; of an unmounted component it does not matter.   *)
Current(t) == t.live /\ t.ticket = ui.seq

(* setBusy(false), on the screen the call was made on.                     *)
Freed(t, u) == [u EXCEPT !.busy = @ /\ ~(t.live /\ t.kind # "load")]

(* run resolves: the screen is free, and after the session's last answer   *)
(* advance() goes to the workbench, mounted or not.                        *)
Finish(t, u) ==
  \/ /\ t.last
     /\ Show(Freed(t, u), tasks \ {t}, "atelier", t.char)
  \/ /\ ~t.last
     /\ ui' = Freed(t, u)
     /\ tasks' = tasks \ {t}

(* Mutant: mutate does not wait for the refetch.                           *)
Refetch_Unawaited(t) ==
  /\ ui' = [Freed(t, ui) EXCEPT !.seq = @ + 1, !.acked = t.made]
  /\ Replace(t, Load(t.char, ui.seq + 1))

(* A successful mutation starts a refresh of the character its screen was  *)
(* opened for, under the next ticket of that screen.  If the screen is     *)
(* gone the refresh changes nothing; only advance() still waits for it.    *)
Refetch(t) ==
  \/ /\ t.live
     /\ ui' = [ui EXCEPT !.seq = @ + 1,
                         !.acked = IF {t.target, t.char} = {ui.char} THEN t.made ELSE @]
     /\ Replace(t, [t EXCEPT !.phase = "loading", !.ticket = ui.seq + 1])
  \/ /\ ~t.live
     /\ ui' = [ui EXCEPT !.heard = IF t.target = ui.char THEN t.made ELSE @]
     /\ tasks' = (tasks \ {t}) \cup {x \in {[t EXCEPT !.phase = "loading"]} : x.last}

Acknowledged(t) ==
  /\ t.phase = "ok" /\ t.kind = "edit"
  /\ Refetch(t)
  /\ UNCHANGED <<rev, clicks>>

(* Mutant: the roster goes to the id it had before the answer, none.       *)
Created_Early(t) ==
  /\ t.phase = "ok" /\ t.kind = "create"
  /\ Show(Freed(t, ui), tasks \ {t}, "session", t.char)
  /\ UNCHANGED <<rev, clicks>>

(* The roster's create goes to the new character's session, wherever the   *)
(* user is by then.                                                        *)
Created(t) ==
  /\ t.phase = "ok" /\ t.kind = "create"
  /\ Show(Freed(t, ui), tasks \ {t}, "session", t.target)
  /\ UNCHANGED <<rev, clicks>>

(* Mutant: only a success gives the screen free again.                     *)
Rejected_StaysBusy(t) ==
  /\ t.phase = "no"
  /\ tasks' = tasks \ {t}
  /\ UNCHANGED <<rev, ui, clicks>>

(* A refusal or a fault is shown, and the call is over.                    *)
Rejected(t) ==
  /\ t.phase = "no"
  /\ ui' = Freed(t, ui)
  /\ tasks' = tasks \ {t}
  /\ UNCHANGED <<rev, clicks>>

(* All surfaces have arrived.                                              *)
Settle(t) ==
  /\ t.phase = "loading" /\ \A s \in Surfaces : t.got[s] > 0
  /\ Finish(t, IF Current(t)
               THEN [ui EXCEPT !.shown = t.char, !.got = t.got, !.failed = FALSE]
               ELSE ui)
  /\ UNCHANGED <<rev, clicks>>

(* Mutant: the failure of the first load is not shown.                     *)
FailGet_Silent(t) ==
  /\ t.phase = "loading" /\ \E s \in Surfaces : t.got[s] = 0
  /\ Finish(t, IF Current(t) /\ t.kind # "load" THEN [ui EXCEPT !.failed = TRUE] ELSE ui)
  /\ UNCHANGED <<rev, clicks>>

(* One of the four is refused or lost: the screen becomes a fault screen,  *)
(* and mutate reports success all the same.                                *)
FailGet(t) ==
  /\ t.phase = "loading" /\ \E s \in Surfaces : t.got[s] = 0
  /\ Finish(t, IF Current(t) THEN [ui EXCEPT !.failed = TRUE] ELSE ui)
  /\ UNCHANGED <<rev, clicks>>

(* The body of a 2xx answer breaks off: response.json() throws what        *)
(* toFailure throws again, and neither setBusy nor setFailure is reached.  *)
Tear(t) ==
  /\ \/ t.phase = "ok" /\ t.kind = "edit"
     \/ t.phase = "loading" /\ Current(t) /\ \E s \in Surfaces : t.got[s] = 0
  /\ ui' = [ui EXCEPT !.torn = @ \/ t.live]
  /\ tasks' = tasks \ {t}
  /\ UNCHANGED <<rev, clicks>>

(***************************************************************************)
(* Specification.                                                          *)
(***************************************************************************)

Progress(t) ==
  \/ Serve(t) \/ Refuse(t) \/ \E s \in Surfaces : ServeGet(t, s)
  \/ Acknowledged(t) \/ Created(t) \/ Rejected(t) \/ Settle(t)

Next ==
  \/ \E c \in Characters, screen \in {"session", "atelier"} : OpenCard(screen, c)
  \/ Begin \/ Back \/ GuidedPass \/ Workbench \/ Reload
  \/ \E target \in Characters, last \in BOOLEAN : Edit(target, last)
  \/ \E c \in Characters : OtherWrite(c)
  \/ \E t \in tasks : Progress(t) \/ LoseReply(t) \/ FailGet(t) \/ Tear(t)

Spec == Init /\ [][Next]_vars

(* Every request is answered or fails, every answer reaches its callback.  *)
FairSpec == Spec /\ WF_vars(\E t \in tasks : Progress(t))

(***************************************************************************)
(* Properties.                                                             *)
(***************************************************************************)

UiType ==
  [screen : Screens, char : Characters \cup {NoCharacter}, seq : Nat,
   shown : Characters \cup {NoCharacter}, got : [Surfaces -> Nat],
   failed : BOOLEAN, busy : BOOLEAN, torn : BOOLEAN, acked : Nat, heard : Nat]

TaskType ==
  [kind : {"load", "edit", "create"}, id : Nat, live : BOOLEAN,
   phase : {"sent", "ok", "no", "loading"}, char : Characters \cup {NoCharacter},
   target : Characters \cup {NoCharacter}, last : BOOLEAN, made : Nat,
   ticket : Nat, got : [Surfaces -> Nat]]

(* The variables have their types; a screen of a record has a character    *)
(* and the roster none, and a call that loads or edits knows its own.      *)
TypeOK ==
  /\ rev \in [Characters -> Nat] /\ clicks \in Nat
  /\ ui \in UiType
  /\ ui.char = NoCharacter <=> ui.screen = "roster"
  /\ tasks \subseteq TaskType
  /\ \A t \in tasks : /\ t.char = NoCharacter <=> t.kind = "create"
                      /\ t.phase = "loading" => t.kind # "create"
                      /\ t.phase \in {"ok", "loading"} => t.target \in Characters

(* What a screen shows of a character never goes back to an earlier save,  *)
(* in any surface, however refreshes overlap and replies are delayed.      *)
NoStepBack ==
  ui.shown \in Characters /\ ui'.shown = ui.shown
    => \A s \in Surfaces : ui'.got[s] >= ui.got[s]

ShownNeverGoesBack == [][NoStepBack]_vars

(* Once a screen accepts the next edit, all it shows includes the last     *)
(* edit of its character that it reported as done.                         *)
ReadYourWrites ==
  ~ui.busy /\ ~ui.failed /\ ui.shown \in Characters /\ ui.shown = ui.char
    => \A s \in Surfaces : ui.got[s] >= ui.acked

(* A busy screen becomes free, unless an answer it waits for broke off.    *)
BusyResolves == ui.busy ~> (~ui.busy \/ ui.torn)

(* A loading screen comes to show a bundle or a fault, unless an answer it *)
(* waits for broke off.                                                    *)
Loading == ui.char \in Characters /\ ui.shown = NoCharacter /\ ~ui.failed
LoadingResolves == Loading ~> (~Loading \/ ui.torn)

(* A call that will give the mounted screen free.                          *)
Waiting(t) == t.live /\ t.kind # "load"

(* Nothing is waited for in vain: a busy screen has a call of its own in   *)
(* flight, a loading one the refresh whose answer it will accept; unless   *)
(* an answer broke off.  No call ends, and no ticket is passed on, without *)
(* the screen being told.                                                  *)
NothingAwaitedInVain ==
  ~ui.torn =>
    /\ ui.busy => \E t \in tasks : Waiting(t)
    /\ Loading => \E t \in tasks : t.live /\ t.phase = "loading" /\ t.ticket = ui.seq

(* Opening a record loads that record: a screen shows no other one.        *)
ShownIsOpened == ui.shown \in {NoCharacter, ui.char}

(* After every 2xx mutation the client refetches: when nothing is in       *)
(* flight, a screen includes the edits of its character that succeeded     *)
(* since it was mounted, by whatever screen they were sent.                *)
AcknowledgedShown ==
  tasks = {} /\ ~ui.failed /\ ~ui.torn /\ ui.shown \in Characters /\ ui.shown = ui.char
    => \A s \in Surfaces : ui.got[s] >= ui.heard

==============================================================================
