---------------------------- MODULE SessionProofs ----------------------------
(***************************************************************************)
(* From the login screen to the session: the greeter, the selection of the *)
(* session, the Mosaic launcher and the offer to restore.  Four components *)
(* that share no state, one section each.                                  *)
(***************************************************************************)
EXTENDS Greeter, SessionSelection, MosaicSession, SessionStart, TLAPS

-----------------------------------------------------------------------------
(* labfy_greeter.py, auth.py. *)

\* What the greeter's records range over.
Screens == [account : Accounts \cup {Manual}, name : Names, session : Sessions,
            busy : BOOLEAN, startCalled : BOOLEAN, currentUser : Names,
            entry : Prompts \cup {Nothing}, shown : Prompts \cup {Nothing},
            idle : BOOLEAN, quit : BOOLEAN]
Flows == [client : BOOLEAN, username : Names, selection : Sessions,
          pending : Prompts \cup {Nothing}, authenticated : BOOLEAN]
Thens == {"none", "create", "message", "success", "error", "failure", "reset"}
Jobs == [func : {"none", "begin", "answer", "start", "reset"},
         stage : {"none", "cancel", "create", "answer", "start", "reply"}, then : Thens,
         user : Names, selection : Sessions, value : Prompts \cup {Nothing}]
Convs == [user : Names, stage : {"none", "prompt", "ready", "failed"},
          prompt : Prompts \cup {Nothing}]
Servers == [conv : Convs, convs : Nat, auths : Nat, starts : Nat,
            scheduled : {Nothing} \cup [user : Names, session : Sessions]]

Shapes ==
    /\ ui \in Screens /\ flow \in Flows /\ job \in Jobs /\ greetd \in Servers
    /\ lastUser \in Names /\ lost \in 0..MaxLost

\* The controls are frozen while the worker has an operation; what is typed
\* is typed under the prompt that is pending.
Frozen ==
    /\ ui.busy <=> job.func # "none"
    /\ job.func = "none" <=> job.stage = "none"
    /\ ui.startCalled <=> job.func = "start" \/ ui.quit
    /\ ui.quit => job.func = "none"
    /\ ui.busy \/ ui.idle => ui.entry = Nothing
    /\ ui.idle \/ job.func \in {"start", "reset"} => ui.shown = Nothing
    /\ ~ui.busy => ui.shown \in {Nothing, flow.pending}
    /\ ui.entry \in {Nothing, ui.shown}

\* The prompt that is pending is the one that greetd waits on, for the user
\* whom the screen last asked for.
Asked ==
    flow.pending # Nothing =>
      /\ greetd.conv.prompt = flow.pending
      /\ greetd.conv.user = flow.username
      /\ job.stage # "cancel" => ui.currentUser = flow.username

\* Where an operation comes from, and what the screen showed when it began.
Traced ==
    /\ job.func = "begin" =>
         job.user = Username /\ job.selection = ui.session /\ ui.currentUser = job.user
    /\ job.stage \in {"answer", "start"} => job.func = job.stage
    /\ job.stage = "create" \/ (job.stage = "cancel" /\ job.then = "create") =>
         job.func = "begin" /\ greetd.convs < MaxConvs
    /\ job.stage \in {"cancel", "reply"} /\ job.then = "reset" => job.func = "reset"
    /\ job.stage = "cancel" => job.then \in {"create", "error", "failure", "reset"}
    /\ job.stage = "reply" /\ job.then = "message" => job.func \in {"begin", "answer"}
    /\ greetd.convs <= MaxConvs

Answering ==
    job.stage = "answer" =>
      /\ flow.pending # Nothing /\ job.value \in {Nothing, flow.pending}
      /\ flow.username = Username /\ flow.selection = ui.session

\* An authentication that is not spent yet: the worker is about to start the
\* session, or the screen is about to ask for it.
Authenticated ==
    \/ job.stage = "start"
    \/ job.stage = "reply" /\ job.then = "success" /\ job.func # "start"
Starting ==
    /\ greetd.starts <= greetd.auths
    /\ Authenticated =>
         /\ greetd.starts < greetd.auths /\ flow.pending = Nothing
         /\ greetd.conv.user = Username /\ ui.currentUser = Username
         /\ flow.selection = ui.session

\* A session is remembered when greetd has been told to start it.
Remembered ==
    /\ job.stage = "reply" /\ job.then = "success" /\ job.func = "start" =>
         greetd.scheduled # Nothing /\ greetd.scheduled.user = ui.currentUser
    /\ lastUser # Nothing =>
         ui.quit /\ greetd.scheduled # Nothing /\ greetd.scheduled.user = lastUser

GreeterInv ==
    Shapes /\ Frozen /\ Asked /\ Traced /\ Answering /\ Starting /\ Remembered

-----------------------------------------------------------------------------
(* Records. *)

\* The user whom the screen shows is a name.
LEMMA UsernameIsName == ui \in Screens => Username \in Names
BY DEF Username, Screens, Names

\* What the worker is given.
LEMMA PerformedJob ==
  ASSUME NEW func \in {"begin", "answer", "start", "reset"}, NEW user \in Names,
         NEW selection \in Sessions, NEW value \in Prompts \cup {Nothing},
         Perform(func, user, selection, value)
  PROVE  /\ job' \in Jobs /\ job'.func = func /\ job'.user = user
         /\ job'.selection = selection /\ job'.value = value
         /\ job'.stage = IF func \in {"begin", "reset"} THEN "cancel" ELSE func
         /\ job'.then = IF func = "begin" THEN "create" ELSE "reset"
<1> DEFINE stage == IF func \in {"begin", "reset"} THEN "cancel" ELSE func
           then == IF func = "begin" THEN "create" ELSE "reset"
<1>1. /\ stage \in {"none", "cancel", "create", "answer", "start", "reply"}
      /\ then \in Thens
  BY DEF Thens
<1>2. job' = [func |-> func, user |-> user, selection |-> selection, value |-> value,
              stage |-> stage, then |-> then]
  BY DEF Perform
<1> HIDE DEF stage, then
<1>3. /\ job' \in Jobs /\ job'.func = func /\ job'.user = user
      /\ job'.selection = selection /\ job'.value = value
      /\ job'.stage = stage /\ job'.then = then
  BY <1>1, <1>2 DEF Jobs
<1> QED
  BY <1>3 DEF stage, then

\* What the worker goes on with.
LEMMA NextStage ==
  ASSUME job \in Jobs, NEW stage \in {"cancel", "create", "reply"}, NEW then \in Thens,
         job' = [job EXCEPT !.stage = stage, !.then = then]
  PROVE  /\ job' \in Jobs /\ job'.func = job.func /\ job'.user = job.user
         /\ job'.selection = job.selection /\ job'.value = job.value
         /\ job'.stage = stage /\ job'.then = then
BY DEF Jobs

\* The worker at rest, and no conversation.
LEMMA Rest ==
  /\ NoJob \in Jobs /\ NoJob.func = "none" /\ NoJob.stage = "none" /\ NoJob.then = "none"
  /\ NoFlow \in Flows /\ NoFlow.pending = Nothing /\ NoFlow.username = Nothing
  /\ NoConv \in Convs /\ NoConv.user = Nothing /\ NoConv.prompt = Nothing
  /\ NoConv.stage = "none"
BY DEF NoJob, NoFlow, NoConv, Jobs, Flows, Convs, Thens, Names, Sessions

-----------------------------------------------------------------------------
(* The screen. *)

\* An attempt that is begun for the account and the session on the screen.
LEMMA AttemptBegins ==
  ASSUME GreeterInv, Free, CanBegin, UNCHANGED <<flow, greetd, lastUser, lost>>,
         ui' \in Screens, ui'.busy, ui'.entry = Nothing, ~ui'.startCalled, ~ui'.quit,
         ui'.idle => ui.idle /\ ui'.shown = Nothing,
         NEW user, user = Username', ui'.currentUser = user,
         Perform("begin", user, ui'.session, Nothing)
  PROVE  GreeterInv'
<1>1. user \in Names /\ ui'.session \in Sessions
  BY UsernameIsName DEF Screens, Username, Names
<1>2. /\ job' \in Jobs /\ job'.func = "begin" /\ job'.user = user
      /\ job'.selection = ui'.session /\ job'.stage = "cancel" /\ job'.then = "create"
  BY <1>1, PerformedJob
<1>3. Shapes'
  BY <1>2 DEF GreeterInv, Shapes
<1>4. Frozen'
  BY <1>2 DEF Frozen
<1>5. Asked'
  BY <1>2 DEF GreeterInv, Asked
<1>6. Traced' /\ Answering'
  BY <1>2 DEF GreeterInv, Traced, Answering, CanBegin, Shapes, Servers
<1>7. Starting'
  BY <1>2 DEF GreeterInv, Starting, Authenticated
<1>8. Remembered'
  BY <1>2 DEF GreeterInv, Remembered, Free
<1> QED
  BY <1>3, <1>4, <1>5, <1>6, <1>7, <1>8 DEF GreeterInv

\* A choice gives up the attempt under way.
LEMMA ChooseKeeps == GreeterInv /\ Choose => GreeterInv'
<1> SUFFICES ASSUME GreeterInv, Choose PROVE GreeterInv'
  OBVIOUS
<1>1. /\ ui \in Screens /\ Free /\ UNCHANGED <<flow, greetd, lastUser, lost>>
      /\ ~ui.busy /\ ~ui.quit
  BY DEF GreeterInv, Shapes, Choose, Free
<1>2. PICK screen \in Screens : Changed(screen) /\ screen.idle = ui.idle /\ ~screen.quit
  <2>1. ASSUME NEW a \in Accounts \cup {Manual}
        PROVE  /\ [ui EXCEPT !.account = a] \in Screens
               /\ [ui EXCEPT !.account = a].idle = ui.idle
               /\ [ui EXCEPT !.account = a].quit = ui.quit
    BY <1>1 DEF Screens
  <2>2. ASSUME NEW s \in Sessions
        PROVE  /\ [ui EXCEPT !.session = s] \in Screens
               /\ [ui EXCEPT !.session = s].idle = ui.idle
               /\ [ui EXCEPT !.session = s].quit = ui.quit
    BY <1>1 DEF Screens
  <2> QED
    BY <1>1, <2>1, <2>2 DEF Choose
<1> DEFINE cleared == [screen EXCEPT !.startCalled = FALSE, !.entry = Nothing,
                                     !.shown = Nothing, !.busy = TRUE]
<1>3. /\ cleared \in Screens /\ cleared.busy /\ cleared.entry = Nothing
      /\ cleared.shown = Nothing /\ ~cleared.startCalled /\ ~cleared.quit
      /\ cleared.idle = ui.idle /\ cleared.account = screen.account
      /\ cleared.session = screen.session /\ cleared.name = screen.name
  BY <1>2 DEF Screens
<1>4. CASE /\ screen.account = Manual /\ ui' = cleared
           /\ Perform("reset", Nothing, screen.session, Nothing)
  <2>1. /\ ui' \in Screens /\ ui'.busy /\ ui'.entry = Nothing /\ ui'.shown = Nothing
        /\ ~ui'.startCalled /\ ~ui'.quit
    BY <1>3, <1>4
  <2>2. screen.session \in Sessions /\ Nothing \in Names
    BY DEF Screens, Names
  <2>3. /\ job' \in Jobs /\ job'.func = "reset" /\ job'.stage = "cancel" /\ job'.then = "reset"
    BY <1>4, <2>2, PerformedJob
  <2>4. Shapes'
    BY <1>1, <2>1, <2>3 DEF GreeterInv, Shapes
  <2>5. Frozen'
    BY <2>1, <2>3 DEF Frozen
  <2>6. Asked' /\ Traced' /\ Answering'
    BY <1>1, <2>3 DEF GreeterInv, Asked, Traced, Answering
  <2>7. Starting' /\ Remembered'
    BY <1>1, <2>3 DEF GreeterInv, Starting, Authenticated, Remembered
  <2> QED
    BY <2>4, <2>5, <2>6, <2>7 DEF GreeterInv
<1>5. CASE /\ screen.account # Manual /\ CanBegin
           /\ ui' = [cleared EXCEPT !.currentUser = screen.account]
           /\ Perform("begin", screen.account, screen.session, Nothing)
  <2> DEFINE user == screen.account
  <2>1. user \in Names
    BY <1>5 DEF Screens, Names
  <2> HIDE DEF cleared
  <2>2. /\ ui' \in Screens /\ ui'.busy /\ ui'.entry = Nothing /\ ui'.shown = Nothing
        /\ ~ui'.startCalled /\ ~ui'.quit /\ ui'.idle = ui.idle /\ ui'.currentUser = user
        /\ ui'.session = screen.session /\ ui'.account = user
    BY <1>3, <1>5, <2>1 DEF Screens
  <2>3. user = Username'
    BY <1>5, <2>2 DEF Username
  <2> QED
    BY <1>1, <1>5, <2>2, <2>3, AttemptBegins
<1> QED
  BY <1>2, <1>4, <1>5 DEF Changed

\* What is typed, under the prompt that is shown.
LEMMA TypingKeeps == GreeterInv /\ (TypeName \/ TypeAnswer) => GreeterInv'
<1> SUFFICES ASSUME GreeterInv, TypeName \/ TypeAnswer PROVE GreeterInv'
  OBVIOUS
<1>1. /\ ui \in Screens /\ ~ui.busy /\ ~ui.quit /\ Frozen
      /\ UNCHANGED <<flow, job, greetd, lastUser, lost>>
  BY DEF GreeterInv, Shapes, TypeName, TypeAnswer, Free
<1>2. job.func = "none" /\ job.stage = "none"
  BY <1>1 DEF Frozen
<1>3. /\ ui' \in Screens /\ ui'.busy = ui.busy /\ ui'.startCalled = ui.startCalled
      /\ ui'.quit = ui.quit /\ ui'.shown = ui.shown /\ ui'.idle = ui.idle
      /\ ui'.currentUser = ui.currentUser /\ ui'.entry \in {ui.entry, ui.shown}
  BY <1>1 DEF TypeName, TypeAnswer, Screens
<1>4. Shapes' /\ Frozen'
  BY <1>1, <1>3 DEF GreeterInv, Shapes, Frozen
<1>5. Asked' /\ Traced' /\ Answering' /\ Starting' /\ Remembered'
  BY <1>1, <1>2, <1>3
  DEF GreeterInv, Asked, Traced, Answering, Starting, Authenticated, Remembered
<1> QED
  BY <1>4, <1>5 DEF GreeterInv

\* The account selected at the beginning.
LEMMA OpenKeeps == GreeterInv /\ OpenSelected => GreeterInv'
<1> SUFFICES ASSUME GreeterInv, OpenSelected PROVE GreeterInv'
  OBVIOUS
<1>1. ui \in Screens /\ ~ui.quit /\ ui.idle /\ UNCHANGED <<flow, greetd, lastUser, lost>> /\ Frozen
  BY DEF GreeterInv, Shapes, OpenSelected
<1>2. CASE ui' = [ui EXCEPT !.idle = FALSE] /\ UNCHANGED job
  <2>1. /\ ui' \in Screens /\ ui'.busy = ui.busy /\ ui'.startCalled = ui.startCalled
        /\ ui'.quit = ui.quit /\ ui'.shown = ui.shown /\ ui'.entry = ui.entry /\ ~ui'.idle
        /\ ui'.currentUser = ui.currentUser /\ ui'.account = ui.account /\ ui'.name = ui.name
        /\ ui'.session = ui.session
    BY <1>1, <1>2 DEF Screens
  <2>2. Username' = Username
    BY <2>1 DEF Username
  <2>3. Shapes' /\ Frozen'
    BY <1>1, <1>2, <2>1 DEF GreeterInv, Shapes, Frozen
  <2>4. Asked' /\ Traced' /\ Answering' /\ Starting' /\ Remembered'
    BY <1>1, <1>2, <2>1, <2>2
    DEF GreeterInv, Asked, Traced, Answering, Starting, Authenticated, Remembered
  <2> QED
    BY <2>3, <2>4 DEF GreeterInv
<1>3. CASE /\ ~ui.busy /\ ui.account # Manual /\ CanBegin
           /\ ui' = [ui EXCEPT !.idle = FALSE, !.busy = TRUE, !.currentUser = ui.account]
           /\ Perform("begin", ui.account, ui.session, Nothing)
  <2> DEFINE user == ui.account
  <2>1. user \in Names
    BY <1>1, <1>3 DEF Screens, Names
  <2>2. /\ ui' \in Screens /\ ui'.busy /\ ui'.entry = ui.entry
        /\ ui'.startCalled = ui.startCalled /\ ~ui'.quit /\ ~ui'.idle
        /\ ui'.currentUser = user /\ ui'.session = ui.session /\ ui'.account = user
    BY <1>1, <1>3, <2>1 DEF Screens
  <2>3. user = Username'
    BY <1>3, <2>2 DEF Username
  <2>4. ui.entry = Nothing /\ ~ui.startCalled
    BY <1>1, <1>3 DEF Frozen
  <2> QED
    BY <1>1, <1>3, <2>2, <2>3, <2>4, AttemptBegins DEF Free
<1> QED
  BY <1>2, <1>3 DEF OpenSelected

\* An answer to the prompt that is pending, or a new attempt.
LEMMA SubmitKeeps == GreeterInv /\ Submit => GreeterInv'
<1> SUFFICES ASSUME GreeterInv, Submit PROVE GreeterInv'
  OBVIOUS
<1>1. /\ ui \in Screens /\ Free /\ ~ui.busy /\ ~ui.quit /\ Frozen
      /\ UNCHANGED <<flow, greetd, lastUser, lost>>
  BY DEF GreeterInv, Shapes, Submit, Free
<1>2. ~ui.startCalled /\ ui.entry \in {Nothing, flow.pending} /\ job.stage = "none"
      /\ (ui.idle => ui.shown = Nothing)
  BY <1>1 DEF Frozen
<1>3. CASE /\ flow.pending # Nothing /\ flow.username = Username /\ flow.selection = ui.session
           /\ ui' = [ui EXCEPT !.entry = Nothing, !.busy = TRUE]
           /\ Perform("answer", Nothing, flow.selection,
                      IF flow.pending.kind = "secret" THEN ui.entry ELSE Nothing)
  <2> DEFINE value == IF flow.pending.kind = "secret" THEN ui.entry ELSE Nothing
  <2>1. /\ value \in {Nothing, flow.pending} /\ value \in Prompts \cup {Nothing}
        /\ flow.selection \in Sessions /\ Nothing \in Names
    BY <1>1, <1>2 DEF GreeterInv, Shapes, Screens, Flows, Names
  <2>2. Perform("answer", Nothing, flow.selection, value)
    BY <1>3
  <2> HIDE DEF value
  <2>3. /\ job' \in Jobs /\ job'.func = "answer" /\ job'.stage = "answer" /\ job'.value = value
    BY <2>1, <2>2, PerformedJob
  <2>4. /\ ui' \in Screens /\ ui'.busy /\ ui'.startCalled = ui.startCalled
        /\ ui'.quit = ui.quit /\ ui'.shown = ui.shown /\ ui'.entry = Nothing
        /\ ui'.idle = ui.idle /\ ui'.currentUser = ui.currentUser
        /\ ui'.account = ui.account /\ ui'.name = ui.name /\ ui'.session = ui.session
    BY <1>1, <1>3 DEF Screens
  <2>5. Username' = Username
    BY <2>4 DEF Username
  <2>6. Shapes'
    BY <1>1, <2>3, <2>4 DEF GreeterInv, Shapes
  <2>7. Frozen'
    BY <1>1, <1>2, <2>3, <2>4 DEF Frozen
  <2>8. Asked' /\ Traced'
    BY <1>1, <1>2, <2>3, <2>4 DEF GreeterInv, Asked, Traced
  <2>9. Answering'
    BY <1>1, <1>3, <2>1, <2>3, <2>4, <2>5 DEF Answering
  <2>10. Starting' /\ Remembered'
    BY <1>1, <2>3, <2>4 DEF GreeterInv, Starting, Authenticated, Remembered
  <2> QED
    BY <2>6, <2>7, <2>8, <2>9, <2>10 DEF GreeterInv
<1>4. CASE /\ CanBegin
           /\ ui' = [ui EXCEPT !.entry = Nothing, !.busy = TRUE, !.currentUser = Username]
           /\ Perform("begin", Username, ui.session, Nothing)
  <2>1. PICK user \in Names : user = Username
    BY <1>1, UsernameIsName
  <2>2. /\ ui' \in Screens /\ ui'.busy /\ ~ui'.startCalled
        /\ ~ui'.quit /\ ui'.shown = ui.shown /\ ui'.entry = Nothing
        /\ ui'.idle = ui.idle /\ ui'.currentUser = user
        /\ ui'.account = ui.account /\ ui'.name = ui.name /\ ui'.session = ui.session
    BY <1>1, <1>2, <1>4, <2>1 DEF Screens
  <2>3. user = Username'
    BY <2>1, <2>2 DEF Username
  <2> QED
    BY <1>1, <1>2, <1>4, <2>1, <2>2, <2>3, AttemptBegins
<1> QED
  BY <1>3, <1>4 DEF Submit

-----------------------------------------------------------------------------
(* The worker. *)

\* The conversations that greetd may go on with are the user's.
LEMMA VerdictsOfUser ==
  ASSUME NEW conv \in Convs, NEW id, NEW next \in Verdicts(conv, id)
  PROVE  /\ next \in Convs /\ next.user = conv.user
         /\ next.stage \in {"prompt", "ready", "failed"}
         /\ next.stage = "prompt" => next.prompt \in Prompts
BY DEF Verdicts, Convs

\* A step of the worker keeps the invariant when it keeps what it touches.
LEMMA WorkerMoves ==
  ASSUME GreeterInv, job.func # "none", UNCHANGED <<ui, lastUser>>, lost' \in 0..MaxLost,
         job' \in Jobs, flow' \in Flows, greetd' \in Servers,
         job'.func = job.func, job'.user = job.user, job'.selection = job.selection,
         job'.stage \in {"cancel", "create", "reply"},
         Asked', greetd'.convs <= MaxConvs,
         job'.stage = "create" => job.func = "begin" /\ greetd'.convs < MaxConvs,
         job'.stage = "cancel" => job'.then \in {"error", "failure"},
         job'.then = "reset" => job.func = "reset",
         job'.stage = "reply" /\ job'.then = "message" => job.func \in {"begin", "answer"},
         Starting', Remembered'
  PROVE  GreeterInv'
<1>1. Shapes'
  BY DEF GreeterInv, Shapes
<1>2. Frozen'
  BY DEF GreeterInv, Frozen
<1>3. Username' = Username
  BY DEF Username
<1>4. Traced' /\ Answering'
  BY <1>3 DEF GreeterInv, Traced, Answering
<1> QED
  BY <1>1, <1>2, <1>4 DEF GreeterInv

\* A worker that has something to do was given it.
LEMMA WorkerBusy ==
  ASSUME GreeterInv, job.stage # "none"
  PROVE  /\ job.func # "none" /\ ui.busy /\ ~ui.quit /\ lastUser = Nothing
         /\ ui \in Screens /\ job \in Jobs /\ flow \in Flows /\ greetd \in Servers
         /\ lost \in 0..MaxLost /\ MaxLost \in Nat /\ greetd.convs <= MaxConvs /\ MaxConvs \in Nat
BY GreeterAssumption DEF GreeterInv, Frozen, Shapes, Remembered, Traced

\* reset.
LEMMA CancelKeeps == GreeterInv /\ Cancel => GreeterInv'
<1> SUFFICES ASSUME GreeterInv, Cancel PROVE GreeterInv'
  OBVIOUS
<1>1. /\ job.stage = "cancel" /\ UNCHANGED <<ui, lastUser>> /\ flow' = NoFlow
      /\ job.then \in {"create", "error", "failure", "reset"}
      /\ job.then = "create" => job.func = "begin" /\ greetd.convs < MaxConvs
      /\ job.then = "reset" => job.func = "reset"
  BY DEF Cancel, GreeterInv, Traced
<1>2. /\ job.func # "none" /\ job \in Jobs /\ greetd \in Servers /\ greetd.convs <= MaxConvs
      /\ lost \in 0..MaxLost /\ MaxLost \in Nat /\ lastUser = Nothing
  BY <1>1, WorkerBusy
<1>3. lost' \in 0..MaxLost
  BY <1>2 DEF Cancel, Kept, Loses
<1>4. /\ greetd' \in Servers /\ greetd'.convs = greetd.convs /\ greetd'.starts = greetd.starts
      /\ greetd'.auths = greetd.auths /\ greetd'.scheduled = greetd.scheduled
  BY <1>2, Rest DEF Cancel, Servers
<1>5. /\ job' \in Jobs /\ job'.func = job.func /\ job'.user = job.user
      /\ job'.selection = job.selection
      /\ \/ job'.stage = "create" /\ job'.then = "none" /\ job.then = "create"
         \/ job'.stage = "reply" /\ job'.then \in {"failure", "error", "reset"}
            /\ (job'.then = "reset" => job.then = "reset")
  <2>1. CASE job.then = "create" /\ job' = [job EXCEPT !.stage = "create", !.then = "none"]
    BY <1>2, <2>1, NextStage DEF Thens
  <2>2. CASE \E then \in {"failure", "error", "reset"} :
               Reply(then) /\ (then = "reset" => job.then = "reset")
    <3>1. PICK then \in {"failure", "error", "reset"} :
               Reply(then) /\ (then = "reset" => job.then = "reset")
      BY <2>2
    <3> QED
      BY <1>2, <3>1, NextStage DEF Reply, Thens
  <2> QED
    BY <1>1, <2>1, <2>2 DEF Cancel
<1>6. flow' \in Flows /\ flow'.pending = Nothing
  BY <1>1, Rest
<1>7. Asked'
  BY <1>6 DEF Asked
<1>8. Starting' /\ Remembered'
  BY <1>1, <1>2, <1>4, <1>5 DEF GreeterInv, Starting, Remembered, Authenticated
<1> QED
  BY <1>1, <1>2, <1>3, <1>4, <1>5, <1>6, <1>7, <1>8, WorkerMoves

\* _accept, of a reply about conversation conv, which greetd then is in.
LEMMA AcceptKeeps ==
  ASSUME GreeterInv, job.func \in {"begin", "answer"}, job.stage \in {"create", "answer"},
         UNCHANGED <<ui, lastUser, lost>>,
         NEW f \in Flows, f.username = Username, f.selection = ui.session,
         ui.currentUser = Username,
         NEW conv \in Convs, NEW reply \in {"message", "success", "error"},
         Accept(f, conv, reply),
         greetd' \in Servers, greetd'.convs <= MaxConvs, greetd'.starts = greetd.starts,
         reply # "error" => greetd'.conv = conv /\ conv.user = Username,
         greetd'.auths >= greetd.auths,
         reply = "success" => greetd'.auths > greetd.auths
  PROVE  GreeterInv'
<1>1. /\ job.func # "none" /\ job \in Jobs /\ lost \in 0..MaxLost /\ lastUser = Nothing
      /\ greetd \in Servers
  BY WorkerBusy
<1>2. /\ job' \in Jobs /\ job'.func = job.func /\ job'.user = job.user
      /\ job'.selection = job.selection
      /\ \/ reply # "error" /\ job'.stage = "reply" /\ job'.then = reply
         \/ reply = "error" /\ job'.stage = "cancel" /\ job'.then = "error"
  <2>1. CASE reply # "error"
    BY <1>1, <2>1, NextStage DEF Accept, Reply, Thens
  <2>2. CASE reply = "error"
    BY <1>1, <2>2, NextStage DEF Accept, ResetThen, Thens
  <2> QED
    BY <2>1, <2>2
<1>3. /\ flow' \in Flows /\ flow'.username = Username /\ flow'.selection = ui.session
      /\ flow'.pending = IF reply = "message" THEN conv.prompt ELSE Nothing
  <2> DEFINE pending == IF reply = "message" THEN conv.prompt ELSE Nothing
  <2>1. pending \in Prompts \cup {Nothing}
    BY DEF Convs
  <2>2. PICK authenticated \in BOOLEAN :
          flow' = [f EXCEPT !.pending = pending, !.authenticated = authenticated]
    BY DEF Accept
  <2> HIDE DEF pending
  <2>3. flow' \in Flows /\ flow'.username = f.username /\ flow'.selection = f.selection
        /\ flow'.pending = pending
    BY <2>1, <2>2 DEF Flows
  <2> QED
    BY <2>3 DEF pending
<1>4. Username' = Username
  BY DEF Username
<1>5. Asked'
  BY <1>3 DEF Asked
<1>6. greetd.starts <= greetd.auths /\ greetd.starts \in Nat /\ greetd.auths \in Nat
      /\ greetd'.auths \in Nat
  BY <1>1 DEF GreeterInv, Starting, Servers
<1>7. Starting'
  BY <1>1, <1>2, <1>3, <1>4, <1>6 DEF Starting, Authenticated
<1>8. Remembered'
  BY <1>1, <1>2 DEF Remembered
<1> QED
  BY <1>1, <1>2, <1>3, <1>5, <1>7, <1>8, WorkerMoves

\* An operation whose request or reply is lost.
LEMMA LossKeeps ==
  ASSUME GreeterInv, job.func \in {"begin", "answer", "start"}, job.stage # "none",
         UNCHANGED <<ui, lastUser>>, Loses, ResetThen("failure"),
         flow' \in Flows, flow'.pending = Nothing,
         greetd' \in Servers, greetd'.convs <= MaxConvs, greetd'.starts <= greetd'.auths
  PROVE  GreeterInv'
<1>1. /\ job.func # "none" /\ job \in Jobs /\ lost \in 0..MaxLost /\ MaxLost \in Nat
      /\ lastUser = Nothing
  BY WorkerBusy
<1>2. /\ job' \in Jobs /\ job'.func = job.func /\ job'.user = job.user
      /\ job'.selection = job.selection /\ job'.stage = "cancel" /\ job'.then = "failure"
  BY <1>1, NextStage DEF ResetThen, Thens
<1>3. lost' \in 0..MaxLost
  BY <1>1 DEF Loses
<1>4. Asked' /\ Starting' /\ Remembered'
  BY <1>1, <1>2 DEF Asked, Starting, Authenticated, Remembered
<1> QED
  BY <1>1, <1>2, <1>3, <1>4, WorkerMoves

\* What becomes of greetd when it goes on with a conversation.
LEMMA ServerMoves ==
  ASSUME greetd \in Servers, NEW conv \in Convs, NEW more \in {0, 1},
         greetd' = [greetd EXCEPT !.conv = conv, !.convs = @ + more,
                                  !.auths = IF conv.stage = "ready" THEN @ + 1 ELSE @]
  PROVE  /\ greetd' \in Servers /\ greetd'.conv = conv /\ greetd'.convs = greetd.convs + more
         /\ greetd'.starts = greetd.starts /\ greetd'.auths \in Nat /\ greetd.auths \in Nat
         /\ greetd'.auths = IF conv.stage = "ready" THEN greetd.auths + 1 ELSE greetd.auths
<1>1. /\ greetd.convs + more \in Nat
      /\ (IF conv.stage = "ready" THEN greetd.auths + 1 ELSE greetd.auths) \in Nat
      /\ greetd.auths \in Nat
  BY DEF Servers
<1> DEFINE convs == greetd.convs + more
           auths == IF conv.stage = "ready" THEN greetd.auths + 1 ELSE greetd.auths
<1>2. greetd' = [greetd EXCEPT !.conv = conv, !.convs = convs, !.auths = auths]
  OBVIOUS
<1> HIDE DEF convs, auths
<1>3. convs \in Nat /\ auths \in Nat
  BY <1>1 DEF convs, auths
<1>4. /\ greetd' \in Servers /\ greetd'.conv = conv /\ greetd'.convs = convs
      /\ greetd'.auths = auths /\ greetd'.starts = greetd.starts
  BY <1>2, <1>3 DEF Servers
<1> QED
  BY <1>1, <1>3, <1>4 DEF convs, auths

\* Create: a conversation for the account that the screen asked for.
LEMMA CreateKeeps == GreeterInv /\ Create => GreeterInv'
<1> SUFFICES ASSUME GreeterInv, Create PROVE GreeterInv'
  OBVIOUS
<1> DEFINE f == [NoFlow EXCEPT !.client = TRUE, !.username = job.user, !.selection = job.selection]
           start == [NoConv EXCEPT !.user = job.user]
<1>1. /\ job.stage = "create" /\ UNCHANGED <<ui, lastUser>> /\ job.func = "begin"
      /\ job.user = Username /\ job.selection = ui.session /\ ui.currentUser = Username
      /\ greetd.convs < MaxConvs
  BY DEF Create, GreeterInv, Traced
<1>2. /\ job \in Jobs /\ greetd \in Servers /\ greetd.convs \in Nat /\ MaxConvs \in Nat
      /\ greetd.starts \in Nat /\ greetd.auths \in Nat /\ greetd.starts <= greetd.auths
  BY <1>1, WorkerBusy DEF Servers, GreeterInv, Starting
<1>3. job.user \in Names /\ job.selection \in Sessions
  BY <1>2 DEF Jobs
<1>4. f \in Flows /\ f.username = job.user /\ f.selection = job.selection /\ f.pending = Nothing
  BY <1>3 DEF NoFlow, Flows
<1>5. start \in Convs /\ start.user = job.user
  BY <1>3, Rest DEF Convs
<1> HIDE DEF f, start
<1>6. CASE /\ Kept
           /\ \E conv \in Verdicts(start, greetd.convs + 1) :
                /\ greetd' = [greetd EXCEPT !.conv = conv, !.convs = @ + 1,
                                !.auths = IF conv.stage = "ready" THEN @ + 1 ELSE @]
                /\ Accept(f, conv, ReplyOf(conv))
  <2>1. PICK conv \in Verdicts(start, greetd.convs + 1) :
          /\ greetd' = [greetd EXCEPT !.conv = conv, !.convs = @ + 1,
                          !.auths = IF conv.stage = "ready" THEN @ + 1 ELSE @]
          /\ Accept(f, conv, ReplyOf(conv))
    BY <1>6
  <2>2. conv \in Convs /\ conv.user = Username
    BY <1>1, <1>5, VerdictsOfUser
  <2>3. /\ greetd' \in Servers /\ greetd'.conv = conv /\ greetd'.convs = greetd.convs + 1
        /\ greetd'.starts = greetd.starts
        /\ greetd'.auths = IF conv.stage = "ready" THEN greetd.auths + 1 ELSE greetd.auths
    BY <1>2, <2>1, <2>2, ServerMoves
  <2>4. /\ ReplyOf(conv) \in {"message", "success", "error"}
        /\ ReplyOf(conv) = "success" => conv.stage = "ready"
    BY DEF ReplyOf
  <2>5. /\ greetd'.convs <= MaxConvs /\ greetd'.auths >= greetd.auths
        /\ ReplyOf(conv) = "success" => greetd'.auths > greetd.auths
    BY <1>1, <1>2, <2>3, <2>4
  <2> QED
    BY <1>1, <1>4, <1>6, <2>1, <2>2, <2>3, <2>4, <2>5, AcceptKeeps DEF Kept
<1>7. CASE Kept /\ UNCHANGED greetd /\ Accept(f, NoConv, "error")
  BY <1>1, <1>2, <1>4, <1>7, Rest, AcceptKeeps DEF Kept
<1>8. CASE /\ Loses /\ flow' = f /\ ResetThen("failure")
           /\ \/ UNCHANGED greetd
              \/ \E conv \in Verdicts(start, greetd.convs + 1) :
                   greetd' = [greetd EXCEPT !.conv = conv, !.convs = @ + 1,
                                !.auths = IF conv.stage = "ready" THEN @ + 1 ELSE @]
  <2>1. greetd' \in Servers /\ greetd'.convs <= MaxConvs /\ greetd'.starts <= greetd'.auths
    <3>1. ASSUME NEW conv \in Verdicts(start, greetd.convs + 1),
                 greetd' = [greetd EXCEPT !.conv = conv, !.convs = @ + 1,
                              !.auths = IF conv.stage = "ready" THEN @ + 1 ELSE @]
          PROVE  greetd' \in Servers /\ greetd'.convs <= MaxConvs /\ greetd'.starts <= greetd'.auths
      <4>1. conv \in Convs
        BY <1>5, VerdictsOfUser
      <4>2. /\ greetd' \in Servers /\ greetd'.convs = greetd.convs + 1
            /\ greetd'.starts = greetd.starts
            /\ greetd'.auths = IF conv.stage = "ready" THEN greetd.auths + 1 ELSE greetd.auths
        BY <1>2, <3>1, <4>1, ServerMoves
      <4> QED
        BY <1>1, <1>2, <4>2
    <3>2. CASE UNCHANGED greetd
      BY <1>1, <1>2, <3>2
    <3> QED
      BY <1>8, <3>1, <3>2
  <2> QED
    BY <1>1, <1>4, <1>8, <2>1, LossKeeps
<1> QED
  BY <1>6, <1>7, <1>8 DEF Create, f, start

\* AuthFlow.answer.
LEMMA AnswerKeeps == GreeterInv /\ Answer => GreeterInv'
<1> SUFFICES ASSUME GreeterInv, Answer PROVE GreeterInv'
  OBVIOUS
<1>1. /\ job.stage = "answer" /\ UNCHANGED <<ui, lastUser>> /\ job.func = "answer"
      /\ flow.username = Username /\ flow.selection = ui.session
      /\ greetd.conv.user = Username /\ ui.currentUser = Username
  BY DEF Answer, GreeterInv, Traced, Answering, Asked
<1>2. /\ job \in Jobs /\ greetd \in Servers /\ greetd.convs \in Nat /\ MaxConvs \in Nat
      /\ greetd.convs <= MaxConvs /\ flow \in Flows /\ greetd.conv \in Convs
      /\ greetd.starts \in Nat /\ greetd.auths \in Nat /\ greetd.starts <= greetd.auths
  BY <1>1, WorkerBusy DEF Servers, GreeterInv, Starting
<1>3. ASSUME NEW conv \in Verdicts(greetd.conv, greetd.convs),
             greetd' = [greetd EXCEPT !.conv = conv,
                          !.auths = IF conv.stage = "ready" THEN @ + 1 ELSE @]
      PROVE  /\ conv \in Convs /\ conv.user = Username
             /\ greetd' \in Servers /\ greetd'.conv = conv /\ greetd'.convs = greetd.convs
             /\ greetd'.starts = greetd.starts
             /\ greetd'.auths = IF conv.stage = "ready" THEN greetd.auths + 1 ELSE greetd.auths
  <2>1. conv \in Convs /\ conv.user = Username
    BY <1>1, <1>2, VerdictsOfUser
  <2> DEFINE auths == IF conv.stage = "ready" THEN greetd.auths + 1 ELSE greetd.auths
  <2>2. auths \in Nat /\ greetd' = [greetd EXCEPT !.conv = conv, !.auths = auths]
    BY <1>2, <1>3
  <2> HIDE DEF auths
  <2>3. /\ greetd' \in Servers /\ greetd'.conv = conv /\ greetd'.convs = greetd.convs
        /\ greetd'.starts = greetd.starts /\ greetd'.auths = auths
    BY <1>2, <2>1, <2>2 DEF Servers
  <2> QED
    BY <2>1, <2>3 DEF auths
<1>4. CASE /\ Kept
           /\ \E conv \in Verdicts(greetd.conv, greetd.convs) :
                /\ greetd' = [greetd EXCEPT !.conv = conv,
                                !.auths = IF conv.stage = "ready" THEN @ + 1 ELSE @]
                /\ Accept(flow, conv, ReplyOf(conv))
  <2>1. PICK conv \in Verdicts(greetd.conv, greetd.convs) :
          /\ greetd' = [greetd EXCEPT !.conv = conv,
                          !.auths = IF conv.stage = "ready" THEN @ + 1 ELSE @]
          /\ Accept(flow, conv, ReplyOf(conv))
    BY <1>4
  <2>2. /\ conv \in Convs /\ conv.user = Username
        /\ greetd' \in Servers /\ greetd'.conv = conv /\ greetd'.convs = greetd.convs
        /\ greetd'.starts = greetd.starts
        /\ greetd'.auths = IF conv.stage = "ready" THEN greetd.auths + 1 ELSE greetd.auths
    BY <1>3, <2>1
  <2>3. /\ ReplyOf(conv) \in {"message", "success", "error"}
        /\ ReplyOf(conv) = "success" => conv.stage = "ready"
    BY DEF ReplyOf
  <2>4. /\ greetd'.convs <= MaxConvs /\ greetd'.auths >= greetd.auths
        /\ ReplyOf(conv) = "success" => greetd'.auths > greetd.auths
    BY <1>2, <2>2, <2>3
  <2> QED
    BY <1>1, <1>2, <1>4, <2>1, <2>2, <2>3, <2>4, AcceptKeeps DEF Kept
<1>5. CASE Kept /\ UNCHANGED greetd /\ Accept(flow, NoConv, "error")
  BY <1>1, <1>2, <1>5, Rest, AcceptKeeps DEF Kept
<1>6. CASE /\ Loses /\ flow' = [flow EXCEPT !.pending = Nothing] /\ ResetThen("failure")
           /\ \/ UNCHANGED greetd
              \/ \E conv \in Verdicts(greetd.conv, greetd.convs) :
                   greetd' = [greetd EXCEPT !.conv = conv,
                                !.auths = IF conv.stage = "ready" THEN @ + 1 ELSE @]
  <2>1. greetd' \in Servers /\ greetd'.convs <= MaxConvs /\ greetd'.starts <= greetd'.auths
    <3>1. CASE UNCHANGED greetd
      BY <1>2, <3>1
    <3>2. ASSUME NEW conv \in Verdicts(greetd.conv, greetd.convs),
                 greetd' = [greetd EXCEPT !.conv = conv,
                              !.auths = IF conv.stage = "ready" THEN @ + 1 ELSE @]
          PROVE  greetd' \in Servers /\ greetd'.convs <= MaxConvs /\ greetd'.starts <= greetd'.auths
      <4>1. /\ greetd' \in Servers /\ greetd'.convs = greetd.convs
            /\ greetd'.starts = greetd.starts
            /\ greetd'.auths = greetd.auths \/ greetd'.auths = greetd.auths + 1
        BY <1>3, <3>2
      <4> QED
        BY <1>2, <4>1
    <3> QED
      BY <1>6, <3>1, <3>2
  <2>2. flow' \in Flows /\ flow'.pending = Nothing
    BY <1>2, <1>6 DEF Flows
  <2> QED
    BY <1>1, <1>6, <2>1, <2>2, LossKeeps
<1> QED
  BY <1>4, <1>5, <1>6 DEF Answer

\* AuthFlow.start.
LEMMA StartKeeps == GreeterInv /\ Start => GreeterInv'
<1> SUFFICES ASSUME GreeterInv, Start PROVE GreeterInv'
  OBVIOUS
<1> DEFINE session == [user |-> greetd.conv.user, session |-> flow.selection]
           scheduled == [greetd EXCEPT !.starts = @ + 1, !.conv = NoConv, !.scheduled = session]
           spent == [flow EXCEPT !.authenticated = FALSE]
<1>1. /\ job.stage = "start" /\ UNCHANGED <<ui, lastUser>> /\ job.func = "start"
      /\ flow.pending = Nothing /\ greetd.conv.user = Username /\ ui.currentUser = Username
      /\ greetd.starts < greetd.auths
  BY DEF Start, GreeterInv, Traced, Starting, Authenticated
<1>2. /\ job.func # "none" /\ job \in Jobs /\ greetd \in Servers /\ flow \in Flows
      /\ lost \in 0..MaxLost /\ lastUser = Nothing
      /\ greetd.convs <= MaxConvs /\ greetd.starts \in Nat /\ greetd.auths \in Nat
      /\ greetd.conv \in Convs
  BY <1>1, WorkerBusy DEF Servers
<1>3. spent \in Flows /\ spent.pending = Nothing
  BY <1>1, <1>2 DEF Flows
<1>4. session \in [user : Names, session : Sessions] /\ session.user = Username
  BY <1>1, <1>2 DEF Convs, Flows
<1>5. session # Nothing
  BY <1>4, GreeterAssumption DEF Names, Sessions
<1> HIDE DEF session
<1>6. /\ scheduled \in Servers /\ scheduled.convs = greetd.convs
      /\ scheduled.starts = greetd.starts + 1 /\ scheduled.auths = greetd.auths
      /\ scheduled.scheduled = session
  <2>1. PICK n \in Nat : n = greetd.starts + 1
    BY <1>2
  <2>2. scheduled = [greetd EXCEPT !.starts = n, !.conv = NoConv, !.scheduled = session]
    BY <2>1
  <2> QED
    BY <1>2, <1>4, <2>1, <2>2, Rest DEF Servers
<1> HIDE DEF scheduled, spent
<1>7. CASE Kept /\ greetd' = scheduled /\ flow' = NoFlow /\ Reply("success")
  <2>1. /\ job' \in Jobs /\ job'.func = job.func /\ job'.user = job.user
        /\ job'.selection = job.selection /\ job'.stage = "reply" /\ job'.then = "success"
    BY <1>2, <1>7, NextStage DEF Reply, Thens
  <2>2. flow' \in Flows /\ flow'.pending = Nothing /\ lost' \in 0..MaxLost
    BY <1>2, <1>7, Rest DEF Kept
  <2>3. Asked'
    BY <2>2 DEF Asked
  <2>4. Starting'
    BY <1>1, <1>2, <1>6, <1>7, <2>1 DEF Starting, Authenticated
  <2>5. Remembered'
    BY <1>1, <1>2, <1>4, <1>5, <1>6, <1>7 DEF Remembered
  <2> QED
    BY <1>1, <1>2, <1>6, <1>7, <2>1, <2>2, <2>3, <2>4, <2>5, WorkerMoves
<1>8. CASE /\ Kept /\ greetd' = [greetd EXCEPT !.starts = @ + 1, !.conv.stage = "failed"]
           /\ flow' = spent /\ ResetThen("error")
  <2>1. /\ job' \in Jobs /\ job'.func = job.func /\ job'.user = job.user
        /\ job'.selection = job.selection /\ job'.stage = "cancel" /\ job'.then = "error"
    BY <1>2, <1>8, NextStage DEF ResetThen, Thens
  <2>2. /\ greetd' \in Servers /\ greetd'.convs = greetd.convs
        /\ greetd'.starts = greetd.starts + 1 /\ greetd'.auths = greetd.auths
    <3> DEFINE conv == [greetd.conv EXCEPT !.stage = "failed"]
    <3>1. conv \in Convs
      BY <1>2 DEF Convs
    <3>2. PICK n \in Nat : n = greetd.starts + 1
      BY <1>2
    <3>3. greetd' = [greetd EXCEPT !.starts = n, !.conv = conv]
      BY <1>8, <3>2
    <3> HIDE DEF conv
    <3> QED
      BY <1>2, <3>1, <3>2, <3>3 DEF Servers
  <2>3. flow' \in Flows /\ flow'.pending = Nothing /\ lost' \in 0..MaxLost
    BY <1>2, <1>3, <1>8 DEF Kept
  <2>4. Asked'
    BY <2>3 DEF Asked
  <2>5. Starting' /\ Remembered'
    BY <1>1, <1>2, <2>1, <2>2 DEF Starting, Authenticated, Remembered
  <2> QED
    BY <1>1, <1>2, <2>1, <2>2, <2>3, <2>4, <2>5, WorkerMoves
<1>9. CASE /\ Loses /\ flow' = spent /\ ResetThen("failure")
           /\ UNCHANGED greetd \/ greetd' = scheduled
  <2>1. greetd' \in Servers /\ greetd'.convs <= MaxConvs /\ greetd'.starts <= greetd'.auths
    BY <1>1, <1>2, <1>6, <1>9
  <2> QED
    BY <1>1, <1>3, <1>9, <2>1, LossKeeps
<1> QED
  <2>1. [[greetd EXCEPT !.starts = @ + 1] EXCEPT !.conv = NoConv, !.scheduled = session] = scheduled
    BY <1>2 DEF Servers, scheduled
  <2>2. [[greetd EXCEPT !.starts = @ + 1] EXCEPT !.conv.stage = "failed"]
          = [greetd EXCEPT !.starts = @ + 1, !.conv.stage = "failed"]
    BY <1>2 DEF Servers
  <2> QED
    BY <1>7, <1>8, <1>9, <2>1, <2>2 DEF Start, spent, session


-----------------------------------------------------------------------------
(* The handlers. *)

\* A reply that is handled was the worker's last word.
LEMMA ReplyBusy ==
  ASSUME GreeterInv, NEW then, Replied(then)
  PROVE  /\ job.stage = "reply" /\ job.then = then /\ ~ui.idle
         /\ job.func # "none" /\ ui.busy /\ ~ui.quit /\ lastUser = Nothing
         /\ ui.entry = Nothing /\ (ui.startCalled <=> job.func = "start")
         /\ ui \in Screens /\ flow \in Flows
BY WorkerBusy DEF Replied, GreeterInv, Frozen

\* The worker at rest, once its reply has been handled.
LEMMA RestKeeps ==
  ASSUME GreeterInv, job.stage = "reply", job' = NoJob, UNCHANGED <<greetd, lost>>,
         flow' \in Flows, flow'.pending = Nothing \/ UNCHANGED flow,
         ui' \in Screens, ~ui'.busy, ~ui'.idle, ui'.entry = Nothing,
         ui'.currentUser = ui.currentUser,
         ui'.shown \in {Nothing, flow'.pending}, ui'.startCalled <=> ui'.quit,
         lastUser' \in Names,
         lastUser' # Nothing => ui'.quit /\ greetd.scheduled # Nothing
                                /\ greetd.scheduled.user = lastUser'
  PROVE  GreeterInv'
<1>1. Shapes'
  BY Rest DEF GreeterInv, Shapes
<1>2. Frozen'
  BY Rest DEF GreeterInv, Frozen
<1>3. Asked'
  BY Rest DEF GreeterInv, Asked
<1>4. Traced' /\ Answering'
  BY Rest DEF GreeterInv, Traced, Answering
<1>5. Starting' /\ Remembered'
  BY Rest DEF GreeterInv, Starting, Authenticated, Remembered
<1> QED
  BY <1>1, <1>2, <1>3, <1>4, <1>5 DEF GreeterInv

\* handle_reply: a prompt.
LEMMA MessageKeeps == GreeterInv /\ HandleMessage => GreeterInv'
<1> SUFFICES ASSUME GreeterInv, HandleMessage PROVE GreeterInv'
  OBVIOUS
<1>1. Replied("message") /\ UNCHANGED <<flow, greetd, lastUser, lost>> /\ job' = NoJob
  BY DEF HandleMessage
<1>2. /\ job.stage = "reply" /\ job.then = "message" /\ ~ui.idle /\ ~ui.quit
      /\ lastUser = Nothing /\ ui.entry = Nothing /\ (ui.startCalled <=> job.func = "start")
      /\ ui \in Screens /\ flow \in Flows
  BY <1>1, ReplyBusy
<1>3. ~ui.startCalled
  BY <1>2 DEF GreeterInv, Traced
<1>4. PICK prompt \in Prompts \cup {Nothing} : prompt = flow.pending
  BY <1>2 DEF Flows
<1>5. ui' = [ui EXCEPT !.busy = FALSE, !.shown = prompt]
  BY <1>2, <1>4 DEF HandleMessage, Thawed, Screens
<1>6. /\ ui' \in Screens /\ ~ui'.busy /\ ~ui'.idle /\ ui'.entry = Nothing
      /\ ui'.currentUser = ui.currentUser /\ ui'.shown = flow.pending
      /\ ~ui'.startCalled /\ ~ui'.quit
  BY <1>2, <1>3, <1>4, <1>5 DEF Screens
<1>7. lastUser' = Nothing /\ Nothing \in Names
  BY <1>1, <1>2 DEF Names
<1> QED
  BY <1>1, <1>2, <1>6, <1>7, RestKeeps

\* handle_reply: authenticated, and the session is asked for; or started, and
\* the greeter leaves.
LEMMA SuccessKeeps == GreeterInv /\ HandleSuccess => GreeterInv'
<1> SUFFICES ASSUME GreeterInv, HandleSuccess PROVE GreeterInv'
  OBVIOUS
<1>1. Replied("success") /\ UNCHANGED <<flow, greetd, lost>>
  BY DEF HandleSuccess
<1>2. /\ job.stage = "reply" /\ job.then = "success" /\ ~ui.idle /\ ~ui.quit /\ ui.busy
      /\ lastUser = Nothing /\ ui.entry = Nothing /\ (ui.startCalled <=> job.func = "start")
      /\ ui \in Screens /\ flow \in Flows
  BY <1>1, ReplyBusy
<1>3. CASE /\ ui.startCalled /\ ui' = [Thawed EXCEPT !.quit = TRUE]
           /\ job' = NoJob /\ Remember(ui.currentUser)
  <2>1. PICK on \in BOOLEAN : on = TRUE
    OBVIOUS
  <2>2. PICK off \in BOOLEAN : off = FALSE
    OBVIOUS
  <2>3. ui' = [ui EXCEPT !.busy = off, !.quit = on]
    BY <1>2, <1>3, <2>1, <2>2 DEF Thawed, Screens
  <2>4. /\ ui' \in Screens /\ ui'.busy = off /\ ui'.quit = on /\ ui'.idle = ui.idle
        /\ ui'.entry = ui.entry /\ ui'.currentUser = ui.currentUser
        /\ ui'.startCalled = ui.startCalled /\ ui'.shown = ui.shown
    BY <1>2, <2>3 DEF Screens
  <2>5. ui.shown = Nothing
    BY <1>2, <1>3 DEF GreeterInv, Frozen
  <2>6. /\ lastUser' \in Names
        /\ lastUser' # Nothing => greetd.scheduled # Nothing
                                  /\ greetd.scheduled.user = lastUser'
    BY <1>2, <1>3 DEF GreeterInv, Remembered, Remember, Screens, Names
  <2> QED
    BY <1>1, <1>2, <1>3, <2>1, <2>2, <2>4, <2>5, <2>6, RestKeeps
<1>4. CASE /\ ~ui.startCalled /\ ui' = [ui EXCEPT !.startCalled = TRUE, !.shown = Nothing]
           /\ Perform("start", Nothing, flow.selection, Nothing) /\ UNCHANGED lastUser
  <2>1. PICK on \in BOOLEAN : on = TRUE
    OBVIOUS
  <2>2. ui' = [ui EXCEPT !.startCalled = on, !.shown = Nothing]
    BY <1>4, <2>1
  <2>3. /\ ui' \in Screens /\ ui'.busy = ui.busy /\ ui'.quit = ui.quit /\ ui'.idle = ui.idle
        /\ ui'.entry = ui.entry /\ ui'.currentUser = ui.currentUser
        /\ ui'.startCalled = on /\ ui'.shown = Nothing
        /\ ui'.account = ui.account /\ ui'.name = ui.name /\ ui'.session = ui.session
    BY <1>2, <2>2 DEF Screens
  <2>4. Nothing \in Names /\ flow.selection \in Sessions
    BY <1>2 DEF Names, Flows
  <2>5. /\ job' \in Jobs /\ job'.func = "start" /\ job'.stage = "start" /\ job'.then = "reset"
    BY <1>4, <2>4, PerformedJob
  <2>6. Username' = Username
    BY <2>3 DEF Username
  <2>7. Shapes'
    BY <1>1, <1>4, <2>3, <2>5 DEF GreeterInv, Shapes
  <2>8. Frozen'
    BY <1>2, <2>1, <2>3, <2>5 DEF Frozen
  <2>9. Asked' /\ Traced' /\ Answering'
    BY <1>1, <1>2, <2>3, <2>5 DEF GreeterInv, Asked, Traced, Answering
  <2>10. Starting'
    BY <1>1, <1>2, <1>4, <2>3, <2>5, <2>6 DEF GreeterInv, Starting, Authenticated
  <2>11. Remembered'
    BY <1>2, <1>4, <2>5 DEF Remembered
  <2> QED
    BY <2>7, <2>8, <2>9, <2>10, <2>11 DEF GreeterInv
<1> QED
  BY <1>3, <1>4 DEF HandleSuccess

\* handle_reply: refused; handle_failure; the reply to a reset.
LEMMA RefusalKeeps == GreeterInv /\ HandleRefusal => GreeterInv'
<1> SUFFICES ASSUME GreeterInv, HandleRefusal PROVE GreeterInv'
  OBVIOUS
<1>1. PICK then \in {"error", "failure", "reset"} : Replied(then)
  BY DEF HandleRefusal
<1>2. /\ job.stage = "reply" /\ job.then = then /\ ~ui.idle /\ ~ui.quit /\ ui.busy
      /\ lastUser = Nothing /\ ui.entry = Nothing /\ (ui.startCalled <=> job.func = "start")
      /\ ui \in Screens /\ flow \in Flows
  BY <1>1, ReplyBusy
<1>3. job' = NoJob /\ UNCHANGED <<greetd, lastUser, lost>>
  BY DEF HandleRefusal
<1>4. flow' \in Flows /\ (flow'.pending = Nothing \/ UNCHANGED flow)
  BY <1>2, Rest DEF HandleRefusal
<1>5. PICK off \in BOOLEAN : off = FALSE
  OBVIOUS
<1>6. /\ ui' \in Screens /\ ~ui'.busy /\ ~ui'.idle /\ ui'.entry = Nothing
      /\ ui'.currentUser = ui.currentUser /\ ui'.shown = Nothing
      /\ ~ui'.startCalled /\ ~ui'.quit
  <2>1. CASE then = "reset"
    <3>1. ui' = [ui EXCEPT !.busy = off]
      BY <1>2, <1>5, <2>1 DEF HandleRefusal, Thawed
    <3>2. ui.shown = Nothing /\ ~ui.startCalled
      BY <1>2, <2>1 DEF GreeterInv, Traced, Frozen
    <3> QED
      BY <1>2, <1>5, <3>1, <3>2 DEF Screens
  <2>2. CASE then # "reset"
    <3>1. ui' = [ui EXCEPT !.busy = off, !.startCalled = off, !.entry = Nothing, !.shown = Nothing]
      BY <1>2, <1>5, <2>2 DEF HandleRefusal, Thawed, Screens
    <3> QED
      BY <1>2, <1>5, <3>1 DEF Screens
  <2> QED
    BY <2>1, <2>2
<1>7. lastUser' = Nothing /\ Nothing \in Names
  BY <1>2, <1>3 DEF Names
<1> QED
  BY <1>2, <1>3, <1>4, <1>6, <1>7, RestKeeps

-----------------------------------------------------------------------------
(* The theorems. *)

\* The greeter starts in the invariant.
LEMMA GreeterStarts == GreeterInit => GreeterInv
<1> SUFFICES ASSUME GreeterInit PROVE GreeterInv
  OBVIOUS
<1>1. PICK a \in Accounts :
        ui = [account |-> a, name |-> Nothing, session |-> "stable",
              busy |-> FALSE, startCalled |-> FALSE, currentUser |-> Nothing,
              entry |-> Nothing, shown |-> Nothing, idle |-> TRUE, quit |-> FALSE]
  BY DEF GreeterInit
<1>2. PICK on \in BOOLEAN : on = TRUE
  OBVIOUS
<1>3. PICK off \in BOOLEAN : off = FALSE
  OBVIOUS
<1>4. ui = [account |-> a, name |-> Nothing, session |-> "stable",
            busy |-> off, startCalled |-> off, currentUser |-> Nothing,
            entry |-> Nothing, shown |-> Nothing, idle |-> on, quit |-> off]
  BY <1>1, <1>2, <1>3
<1>5. ui \in Screens
  BY <1>4 DEF Screens, Names, Sessions
<1>6. greetd = [conv |-> NoConv, convs |-> 0, auths |-> 0, starts |-> 0, scheduled |-> Nothing]
      /\ lastUser = Nothing /\ lost = MaxLost /\ flow = NoFlow /\ job = NoJob
  BY DEF GreeterInit
<1>7. greetd \in Servers
  BY <1>6, Rest DEF Servers
<1>8. Shapes
  BY <1>5, <1>6, <1>7, Rest, GreeterAssumption DEF Shapes, Names
<1>9. Frozen
  BY <1>1, <1>6, Rest DEF Frozen
<1>10. Asked /\ Answering /\ Starting /\ Remembered
  BY <1>6, Rest DEF Asked, Answering, Starting, Authenticated, Remembered
<1>11. Traced
  BY <1>6, Rest, GreeterAssumption DEF Traced
<1> QED
  BY <1>8, <1>9, <1>10, <1>11 DEF GreeterInv

\* Every step keeps it.
LEMMA GreeterStep == GreeterInv /\ [GreeterNext]_gvars => GreeterInv'
<1> SUFFICES ASSUME GreeterInv, [GreeterNext]_gvars PROVE GreeterInv'
  OBVIOUS
<1>1. CASE UNCHANGED gvars
  BY <1>1 DEF gvars, GreeterInv, Shapes, Frozen, Asked, Traced, Answering, Starting,
              Authenticated, Remembered, Username
<1>2. CASE Choose \/ TypeName \/ TypeAnswer \/ OpenSelected \/ Submit
  BY <1>2, ChooseKeeps, TypingKeeps, OpenKeeps, SubmitKeeps
<1>3. CASE Worker
  BY <1>3, CancelKeeps, CreateKeeps, AnswerKeeps, StartKeeps DEF Worker
<1>4. CASE Handler
  BY <1>4, MessageKeeps, SuccessKeeps, RefusalKeeps DEF Handler
<1> QED
  BY <1>1, <1>2, <1>3, <1>4 DEF GreeterNext

\* The greeter's inductive invariant.
LEMMA GreeterInvHolds == GreeterSpec => []GreeterInv
BY GreeterStarts, GreeterStep, PTL DEF GreeterSpec

\* It has the types in it.
LEMMA GreeterInvTypes == GreeterInv => GreeterTypeOK
BY GreeterAssumption DEF GreeterInv, Shapes, Screens, Flows, Jobs, Thens, Servers, Convs,
                         Traced, GreeterTypeOK

\* GreeterTypeOK: the widgets, the flow, the worker and greetd keep their
\* types, and no bound is passed.
THEOREM GreeterTypesHold == GreeterSpec => []GreeterTypeOK
BY GreeterInvTypes, GreeterInvHolds, PTL

\* AnswerToItsPrompt: whatever the user types, chooses or leaves between two
\* prompts, an answer that the worker carries goes to the conversation of the
\* account on the screen and to the prompt under which it was typed (submit,
\* AuthFlow.answer).
THEOREM AnswersReachTheirPrompt == GreeterSpec => []AnswerToItsPrompt
<1>1. GreeterInv => AnswerToItsPrompt
  BY DEF GreeterInv, Answering, Asked, AnswerToItsPrompt
<1> QED
  BY <1>1, GreeterInvHolds, PTL

\* StartsAsShown: a session is asked for at most once per authentication, for
\* the account and the session on the screen, and the account remembered is
\* the one whose session greetd will start, whichever requests and replies are
\* lost (AuthFlow.start, handle_reply, save_last_user).
THEOREM StartsAreAsShown == GreeterSpec => []StartsAsShown
<1>1. GreeterInv => StartsAsShown
  BY DEF GreeterInv, Starting, Authenticated, Remembered, StartsAsShown
<1> QED
  BY <1>1, GreeterInvHolds, PTL

-----------------------------------------------------------------------------
(* session.py, class Selection. *)

\* One command holds the lock.
OneHolder ==
    \A c, d \in Commands : cmd[c].pc \in Holding /\ cmd[d].pc \in Holding => c = d

\* A command that arms goes on only from the stable session, and past the
\* backup only with one.
Armed ==
    \A c \in Commands :
      /\ cmd[c].pc = "backup" => cmd[c].arm
      /\ cmd[c].arm /\ cmd[c].pc \in {"backup", "again", "replace"} => cmd[c].before = "sway"
      /\ cmd[c].arm /\ cmd[c].pc \in {"again", "replace"} => backup = "sway"

SelectionInv == SelectionTypeOK /\ OneHolder /\ Armed /\ SelectionSerialised

\* Nobody holds the lock at first, and the default is not the kit's.
LEMMA SelectionStarts == SelectionInit => SelectionInv
  BY SelectionAssumption
  DEF SelectionInit, SelectionInv, SelectionTypeOK, OneHolder, Armed, SelectionSerialised,
      Ids, Pcs, Holding

\* Every step of a command, its death and every write by uwsm keep it.
LEMMA SelectionStep == SelectionInv /\ [SelectionNext]_svars => SelectionInv'
<1> SUFFICES ASSUME SelectionInv, [SelectionNext]_svars PROVE SelectionInv'
  OBVIOUS
<1> USE SelectionAssumption
    DEF SelectionInv, SelectionTypeOK, OneHolder, Armed, SelectionSerialised, Ids, Pcs, Holding
<1>1. ASSUME NEW c \in Commands, Command(c) PROVE SelectionInv'
  <2>1. PICK arm \in BOOLEAN, pc \in {"lock", "done"} :
          cmd' = [cmd EXCEPT ![c].pc = pc, ![c].arm = arm]
    BY <1>1 DEF Command
  <2>2. UNCHANGED <<default, backup, selects>> /\ pc \notin Holding
    BY <1>1 DEF Command, Disk
  <2>3. [cmd[c] EXCEPT !.pc = pc, !.arm = arm] \in [pc : Pcs, arm : BOOLEAN, before : Ids]
    OBVIOUS
  <2>4. SelectionTypeOK'
    BY <2>1, <2>2, <2>3
  <2>5. cmd'[c].pc = pc /\ \A d \in Commands \ {c} : cmd'[d] = cmd[d]
    BY <2>1
  <2>6. (OneHolder /\ Armed /\ SelectionSerialised)'
    BY <2>2, <2>5
  <2> QED
    BY <2>4, <2>6
<1>2. ASSUME NEW c \in Commands, Lock(c) PROVE SelectionInv'
  BY <1>2 DEF Lock, Continue, Disk
<1>3. ASSUME NEW c \in Commands, Validate(c) PROVE SelectionInv'
  BY <1>3 DEF Validate, Disk
<1>4. ASSUME NEW c \in Commands, Backup(c) PROVE SelectionInv'
  BY <1>4 DEF Backup, Left, Continue
<1>5. ASSUME NEW c \in Commands, Again(c) PROVE SelectionInv'
  BY <1>5 DEF Again, Continue, Disk
<1>6. ASSUME NEW c \in Commands, Replace(c) PROVE SelectionInv'
  BY <1>6 DEF Replace, Chosen, Left, Continue
<1>7. ASSUME NEW c \in Commands, ConfirmChoice(c) \/ Die(c) PROVE SelectionInv'
  BY <1>7 DEF ConfirmChoice, Die, Continue, Disk
<1>8. CASE UwsmSelect
  BY <1>8 DEF UwsmSelect
<1>9. CASE UNCHANGED svars
  BY <1>9 DEF svars
<1> QED
  BY <1>1, <1>2, <1>3, <1>4, <1>5, <1>6, <1>7, <1>8, <1>9 DEF SelectionNext

\* Whatever commands and uwsm do, and wherever a command dies, a command
\* replaces only what it validated or what uwsm wrote, and the experimental
\* session is never the kit's default without a backup (Selection.change).
THEOREM SelectionsSerialised == SelectionSpec => []SelectionSerialised
<1>1. SelectionInv => SelectionSerialised
  BY DEF SelectionInv
<1> QED
  BY SelectionStarts, SelectionStep, <1>1, PTL DEF SelectionSpec

\* SelectionTypeOK: files, backups and the running commands keep their types,
\* wherever a command dies (session.py, Selection).
THEOREM SelectionTypesHold == SelectionSpec => []SelectionTypeOK
<1>1. SelectionInv => SelectionTypeOK
  BY DEF SelectionInv
<1> QED
  BY SelectionStarts, SelectionStep, <1>1, PTL DEF SelectionSpec

-----------------------------------------------------------------------------
(* session.py launch() and quickshell-guard.py. *)

\* The launcher has not become the compositor yet.
Launching ==
    launch # "idle" => wm["mosaic"].state = "activating" /\ wm["mosaic"].pid = 0

\* A guard or a shell runs only in a session that was ready, and a session
\* that ends stops its shell first.
WithinSession ==
    /\ guard.pc # "idle" \/ shells["mosaic"].up =>
         wm["mosaic"].state \in {"active", "deactivating"}
    /\ wm["mosaic"].state = "deactivating" => shells["mosaic"].stopping

\* Past validate_ready the guard has the socket of the compositor that runs.
Guarded ==
    guard.pc \in {"process", "name", "start"} /\ ~shells["mosaic"].stopping =>
        guard.sock = wm["mosaic"].pid

MosaicInv == MosaicTypeOK /\ Launching /\ WithinSession /\ Guarded /\ OwnShell

\* Nothing runs at first.
LEMMA MosaicStarts == MosaicInit => MosaicInv
  BY MosaicAssumption
  DEF MosaicInit, MosaicInv, MosaicTypeOK, Launching, WithinSession, Guarded, OwnShell,
      NoUnit, NoGuard, NoShell, Seats, UnitStates

\* Every step of the launcher, of systemd and of the guard keeps it.
LEMMA MosaicStep == MosaicInv /\ [MosaicNext]_mvars => MosaicInv'
<1> SUFFICES ASSUME MosaicInv, [MosaicNext]_mvars PROVE MosaicInv'
  OBVIOUS
<1> USE MosaicAssumption
    DEF MosaicInv, MosaicTypeOK, Launching, WithinSession, Guarded, OwnShell, Seats, UnitStates
<1>1. CASE Refuse \/ BeginLaunch
  BY <1>1 DEF Refuse, BeginLaunch, Unit
<1>2. CASE ReadLogin \/ ReadUnits
  BY <1>2 DEF ReadLogin, ReadUnits
<1>3. CASE Exec \/ StartStable
  BY <1>3 DEF Exec, StartStable, NewPid
<1>4. CASE StartStableShell
  BY <1>4 DEF StartStableShell, NoShell
<1>5. CASE SwitchVt
  BY <1>5 DEF SwitchVt
<1>6. ASSUME NEW s \in Seats, Finalize(s) PROVE MosaicInv'
  BY <1>6 DEF Finalize, Unit
<1>7. ASSUME NEW s \in Seats, End(s) PROVE MosaicInv'
  <2>1. wm' = [wm EXCEPT ![s] = [state |-> "deactivating", pid |-> 0]]
        /\ shells' = [shells EXCEPT ![s].stopping = TRUE]
        /\ UNCHANGED <<exported, pids, vt, launch, guard>>
    BY <1>7 DEF End
  <2>2. 0 \in 0..MaxPid /\ wm[s].pid # 0
    BY <1>7 DEF End
  <2>3. MosaicTypeOK'
    BY <2>1, <2>2
  <2>4. CASE s = "mosaic"
    BY <2>1, <2>2, <2>3, <2>4
  <2>5. CASE s = "stable"
    BY <2>1, <2>3, <2>5
  <2> QED
    BY <2>4, <2>5
<1>8. ASSUME NEW s \in Seats, UnitStopped(s) PROVE MosaicInv'
  BY <1>8 DEF UnitStopped, Unit, NoShell, NoGuard
<1>9. CASE GuardRefuses \/ BeginGuard
  BY <1>9 DEF GuardRefuses, BeginGuard, NoGuard, Manager
<1>10. CASE ValidateReady
  BY <1>10 DEF ValidateReady, Manager
<1>11. CASE VerifyProcess \/ VerifyName
  BY <1>11 DEF VerifyProcess, VerifyName, GuardGoto, Manager
<1>12. CASE StartShell
  <2>1. PICK changed \in BOOLEAN : changed <=> exported # guard.sock
    OBVIOUS
  <2>2. PICK stopping \in BOOLEAN : stopping = shells["mosaic"].stopping
    BY <1>12
  <2>3. /\ shells' = [shells EXCEPT !["mosaic"] = [up |-> TRUE, sock |-> exported,
                         changed |-> changed, stopping |-> stopping]]
        /\ guard.pc = "start" /\ guard' = NoGuard
        /\ UNCHANGED <<wm, exported, pids, vt, launch>>
    BY <1>12, <2>1, <2>2 DEF StartShell
  <2>4. MosaicTypeOK'
    BY <2>3 DEF NoGuard
  <2>5. /\ shells'["mosaic"].up /\ shells'["mosaic"].sock = exported
        /\ shells'["mosaic"].changed = changed /\ shells'["mosaic"].stopping = stopping
    BY <2>3
  <2>6. OwnShell'
    BY <2>1, <2>2, <2>3, <2>5
  <2> QED
    BY <2>2, <2>3, <2>4, <2>5, <2>6 DEF NoGuard
<1>13. CASE UNCHANGED mvars
  BY <1>13 DEF mvars
<1> QED
  BY <1>1, <1>2, <1>3, <1>4, <1>5, <1>6, <1>7, <1>8, <1>9, <1>10, <1>11, <1>12, <1>13
  DEF MosaicNext

\* OwnShell: the shell of the experimental session, unless that session is
\* ending, holds the socket of the compositor that runs, however often either
\* session was started and whatever it left in the shared environment, except
\* where the environment changed after its guard began (quickshell-guard.py and
\* quickshell-labfy-mosaic.service).
THEOREM ShellIsOwn == MosaicSpec => []OwnShell
<1>1. MosaicInv => OwnShell
  BY DEF MosaicInv
<1> QED
  BY MosaicStarts, MosaicStep, <1>1, PTL DEF MosaicSpec

\* MosaicTypeOK: the compositors, the shared manager and the launcher keep their
\* types (session.py, quickshell-guard.py).
THEOREM MosaicTypesHold == MosaicSpec => []MosaicTypeOK
<1>1. MosaicInv => MosaicTypeOK
  BY DEF MosaicInv
<1> QED
  BY MosaicStarts, MosaicStep, <1>1, PTL DEF MosaicSpec

-----------------------------------------------------------------------------
(* The prompt and the restore exclude each other. *)

Backends == {"child", "orphan"}

\* Only the two programs that ask for admission need their types.
ProgramShapes ==
    /\ back \in [Backends -> [kind : BackendKinds,
                              pc : {"off", "go", "ready", "lock", "run", "end"},
                              value : Values]]
    /\ keyProc \in [unlock : BOOLEAN, pc : {"off", "go", "check", "prompt", "end"},
                    value : KeyStates]

\* Whoever is past its admission holds it.
Admitted ==
    /\ keyProc.pc \in {"check", "prompt"} => admission = "keyring"
    /\ \A b \in Backends : back[b].pc \in {"ready", "lock", "run"} => admission = b

PromptInv == ProgramShapes /\ Admitted

\* Nobody is admitted at first.
LEMMA PromptStarts == StartInit => PromptInv
  BY DEF StartInit, PromptInv, ProgramShapes, Admitted, Backends, Idle, Asking, BackendKinds, Values,
         KeyStates

\* The programs that the shell starts ask for admission anew.
LEMMA ShellSteps ==
    ASSUME PromptInv,
           ReadStatus \/ CheckKeyring \/ Request \/ Release \/ NewSession \/ CloseSuccess
           \/ Completed \/ Restart
    PROVE  PromptInv'
<1> USE DEF PromptInv, ProgramShapes, Admitted, Backends, BackendKinds, Values, KeyStates
<1>0. ASSUME NEW unlock \in BOOLEAN
      PROVE  /\ Asking(unlock).pc = "go"
             /\ Asking(unlock) \in [unlock : BOOLEAN, value : KeyStates,
                                   pc : {"off", "go", "check", "prompt", "end"}]
  BY DEF Asking
<1>1. CASE ReadStatus
  BY <1>1 DEF ReadStatus, Runs, Busy
<1>2. CASE CheckKeyring
  <2>1. keyProc' \in {Asking(TRUE), Asking(FALSE)} /\ UNCHANGED <<back, admission>>
    BY <1>2 DEF CheckKeyring, Ask
  <2> QED
    BY <1>0, <2>1
<1>3. CASE Request \/ CloseSuccess
  BY <1>3 DEF Request, CloseSuccess, disk
<1>4. CASE Release
  BY <1>4 DEF Release, Runs
<1>5. CASE NewSession
  BY <1>5 DEF NewSession, Runs, KeyBusy, Busy
<1>6. CASE Completed
  <2>1. admission' = admission /\ back["child"].pc = "end"
    BY <1>6 DEF Completed
  <2>2. keyProc' = keyProc \/ (keyProc.pc = "off" /\ keyProc' = Asking(FALSE))
    BY <1>6 DEF Completed, CheckIfIdle, Ask, KeyBusy
  <2>3. \E kind \in {"none", "report", "ack-restored"}, pc \in {"off", "go"} :
          back' = [back EXCEPT !["child"] = [kind |-> kind, pc |-> pc, value |-> "none"]]
    BY <1>6 DEF Completed, Quits, Fails, Runs, Idle
  <2>4. ProgramShapes'
    <3>1. keyProc' \in [unlock : BOOLEAN, pc : {"off", "go", "check", "prompt", "end"},
                        value : KeyStates]
      BY <1>0, <2>2
    <3>2. PICK kind \in {"none", "report", "ack-restored"}, pc \in {"off", "go"} :
            back' = [back EXCEPT !["child"] = [kind |-> kind, pc |-> pc, value |-> "none"]]
      BY <2>3
    <3> QED
      BY <3>1, <3>2
  <2>5. keyProc'.pc \in {"check", "prompt"} => keyProc' = keyProc
    BY <1>0, <2>2
  <2>6. \A b \in Backends : back'[b].pc \in {"ready", "lock", "run"} => back'[b] = back[b]
    BY <2>3
  <2> QED
    BY <2>1, <2>4, <2>5, <2>6
<1>7. CASE Restart
  BY <1>7 DEF Restart, Idle, Asking
<1> QED
  BY <1>1, <1>2, <1>3, <1>4, <1>5, <1>6, <1>7

\* A backend is admitted when nobody is, and gives the admission back.
LEMMA BackendSteps ==
    ASSUME PromptInv, NEW b \in Backends, Backend(b)
    PROVE  PromptInv'
<1> USE DEF PromptInv, ProgramShapes, Admitted, Backends, BackendKinds, Values, KeyStates
<1>1. CASE Status(b) \/ Acknowledge(b) \/ ReadReport(b)
  <2>1. PICK value \in Values : back' = [back EXCEPT ![b].pc = "end", ![b].value = value]
    BY <1>1 DEF Status, Acknowledge, ReadReport, Ends
  <2>2. UNCHANGED <<keyProc, admission>>
    BY <1>1 DEF Status, Acknowledge, ReadReport
  <2> QED
    BY <2>1, <2>2
<1>2. CASE Admit(b)
  BY <1>2 DEF Admit, Applying, BackGoes, Ends
<1>3. CASE RequireReady(b)
  BY <1>3 DEF RequireReady, Applying, BackGoes, Ends
<1>4. CASE TakeLock(b)
  BY <1>4 DEF TakeLock, Applying, BackGoes, Ends
<1>5. CASE Finish(b)
  BY <1>5 DEF Finish, Applying, BackGoes, Ends
<1> QED
  BY <1>1, <1>2, <1>3, <1>4, <1>5 DEF Backend

\* Every step keeps the admission with who holds it.
LEMMA PromptStep == PromptInv /\ [StartNext]_tvars => PromptInv'
<1> SUFFICES ASSUME PromptInv, [StartNext]_tvars PROVE PromptInv'
  OBVIOUS
<1> USE DEF PromptInv, ProgramShapes, Admitted, Backends, BackendKinds, Values, KeyStates
<1>1. CASE OrphanExits \/ GuardEnds \/ Relock
  BY <1>1 DEF OrphanExits, GuardEnds, Relock, Idle
<1>2. CASE KeyringAdmit
  BY <1>2 DEF KeyringAdmit
<1>3. CASE KeyringCheck
  BY <1>3 DEF KeyringCheck
<1>4. CASE KeyringPrompt
  BY <1>4 DEF KeyringPrompt
<1>5. CASE KeyringExits
  BY <1>5 DEF KeyringExits, NoKeyProc
<1>6. CASE UNCHANGED tvars
  BY <1>6 DEF tvars
<1> QED
  BY <1>1, <1>2, <1>3, <1>4, <1>5, <1>6, ShellSteps, BackendSteps DEF StartNext

\* The unlock prompt, which needs the user, never runs beside a restore, which
\* moves windows under it, whatever restarts and outlives the shell (admission
\* and command of keyring.py, apply-last of cli.py).
THEOREM PromptIsAlone == StartSpec => []PromptAlone
<1>1. PromptInv => PromptAlone
  BY DEF PromptInv, Admitted, PromptAlone, Backends
<1> QED
  BY PromptStarts, PromptStep, <1>1, PTL DEF StartSpec

-----------------------------------------------------------------------------
(* The offer is made once. *)

\* Where a restore comes from: the marker has been claimed, the chooser has
\* closed over one request, and nothing has been restored yet.
Undecided == marker \in {"claimed", "deferred"}
Child == back["child"]
Orphan == back["orphan"]
Untouched == ~popup.visible /\ ~popup.releasing /\ ~popup.restored

\* A backend that outlived its shell while it restored is alone with the lock,
\* and the new shell only watches it.
OrphanAlone ==
    /\ Orphan.pc \in {"off", "run", "end"}
    /\ Orphan.pc = "run" =>
         /\ Orphan.kind = "apply" /\ lock = "orphan" /\ marker = "claimed" /\ restores = 0
         /\ Untouched /\ Child.kind \in {"none", "status"}
         /\ Child.pc = "end" => Child.value = "watch"

\* What the chooser shows, or is about to do, is what the marker says.
ChooserKnows ==
    /\ ~popup.checked \/ popup.watching => Untouched /\ Child.kind \in {"none", "status"}
    /\ popup.releasing =>
         /\ operation = "release-focus" /\ Child.kind = "none" /\ Undecided /\ restores = 0
         /\ popup.attempted /\ ~popup.retry /\ ~popup.visible /\ ~popup.restored
    /\ popup.restored => marker = "restored" /\ Child.kind = "none"
    /\ popup.visible /\ ~popup.restored =>
         /\ Undecided \/ (Child.kind = "ack-new" /\ Child.value = "ok")
         /\ ~popup.attempted \/ popup.retry => restores = 0

\* What each backend of the shell has found or done.
ChildKnows ==
    /\ Child.kind = "none" <=> Child.pc = "off"
    /\ Child.kind = "status" =>
         /\ Untouched /\ popup.checked /\ Child.pc \in {"go", "end"}
         /\ Child.pc = "end" =>
              /\ Child.value \in {"shown", "deferred", "watch", "hidden", "interrupted"}
              /\ Child.value = "shown" => marker = "claimed" /\ restores = 0
              /\ Child.value = "deferred" => marker = "deferred"
              /\ Child.value = "interrupted" => marker = "claimed"
    /\ Child.kind \in {"apply", "ack-restored"} =>
         Untouched /\ popup.attempted /\ ~popup.retry
    /\ Child.kind = "apply" =>
         /\ Undecided
         /\ Child.pc = "run" => lock = "child" /\ marker = "claimed"
         /\ Child.value = "ok" => Child.pc = "end" /\ marker = "claimed"
         /\ Child.value # "ok" => restores = 0
    /\ Child.kind = "ack-restored" =>
         /\ Child.pc \in {"go", "end"}
         /\ marker = IF Child.value = "ok" THEN "restored" ELSE "claimed"
         /\ Child.value = "ok" => Child.pc = "end"
    /\ Child.kind = "ack-new" =>
         /\ popup.visible /\ ~popup.restored /\ Child.pc \in {"go", "end"}
         /\ Child.value = "ok" => Child.pc = "end"
    /\ Child.kind = "report" => popup.visible /\ ~popup.restored /\ Child.pc \in {"go", "end"}

Calm == OrphanAlone /\ ChooserKnows /\ ChildKnows /\ restores <= 1
        /\ (restores = 1 => marker \in {"claimed", "new", "restored"})

Recorded ==
    /\ report = "success" \/ marker = "restored" => restores > 0

OnceInv == StartTypeOK /\ Recorded /\ (~early => Calm)

\* The programs' records.
Programs == [kind : BackendKinds, pc : {"off", "go", "ready", "lock", "run", "end"},
             value : Values]
Backs == [{"child", "orphan"} -> Programs]

\* A backend that the shell starts, or none.
LEMMA NewChild ==
  ASSUME back \in Backs, NEW kind \in BackendKinds, NEW pc \in {"off", "go"},
         back' = [back EXCEPT !["child"] = [kind |-> kind, pc |-> pc, value |-> "none"]]
  PROVE  /\ back' \in Backs /\ back'["orphan"] = back["orphan"]
         /\ back'["child"].kind = kind /\ back'["child"].pc = pc /\ back'["child"].value = "none"
BY DEF Backs, Programs, BackendKinds, Values

\* A backend that goes on to its next stage.
LEMMA StartMoves ==
  ASSUME back \in Backs, NEW b \in {"child", "orphan"},
         NEW pc \in {"ready", "lock", "run"}, BackGoes(b, pc)
  PROVE  /\ back' \in Backs /\ back'[b].kind = back[b].kind /\ back'[b].pc = pc
         /\ back'[b].value = back[b].value
         /\ \A o \in {"child", "orphan"} : o # b => back'[o] = back[o]
BY DEF Backs, Programs, BackGoes

\* A backend that ends with a value.
LEMMA Ending ==
  ASSUME back \in Backs, NEW b \in {"child", "orphan"}, NEW value \in Values, Ends(b, value)
  PROVE  /\ back' \in Backs /\ back'[b].kind = back[b].kind /\ back'[b].pc = "end"
         /\ back'[b].value = value
         /\ \A o \in {"child", "orphan"} : o # b => back'[o] = back[o]
BY DEF Backs, Programs, Ends

\* The steps that leave the offer, its backends and the marker alone.
LEMMA QuietSteps ==
  ASSUME Calm, UNCHANGED <<popup, operation, back, marker, restores>>,
         lock' = lock \/ lock \in {"free", "guard"}
  PROVE  Calm'
BY DEF Calm, OrphanAlone, ChooserKnows, ChildKnows, Child, Orphan, Untouched, Undecided

\* The timers ask for the status.
LEMMA StatusRuns ==
  ASSUME StartTypeOK, Calm, ReadStatus PROVE Calm'
<1>1. back \in Backs
  BY DEF StartTypeOK, Backs, Programs
<1>2. /\ popup' = [popup EXCEPT !.checked = TRUE] /\ operation' = "status"
      /\ UNCHANGED <<lock, marker, restores>> /\ operation = "none" /\ back["child"].pc = "off"
      /\ ~popup.checked \/ popup.watching
      /\ back' = [back EXCEPT !["child"] = [kind |-> "status", pc |-> "go", value |-> "none"]]
  BY DEF ReadStatus, Runs, Busy, disk
<1>3. /\ back'["orphan"] = back["orphan"] /\ back'["child"].kind = "status"
      /\ back'["child"].pc = "go" /\ back'["child"].value = "none"
  BY <1>1, <1>2, NewChild DEF BackendKinds
<1>4. /\ popup'.visible = popup.visible /\ popup'.releasing = popup.releasing
      /\ popup'.restored = popup.restored /\ popup'.watching = popup.watching
      /\ popup'.attempted = popup.attempted /\ popup'.retry = popup.retry /\ popup'.checked
  BY <1>2 DEF StartTypeOK
<1> QED
  BY <1>2, <1>3, <1>4
  DEF Calm, OrphanAlone, ChooserKnows, ChildKnows, Child, Orphan, Untouched, Undecided

\* The user asks for the restore.
LEMMA RequestKeeps ==
  ASSUME StartTypeOK, Calm, Request PROVE Calm'
<1>1. /\ popup' = [popup EXCEPT !.attempted = TRUE, !.failed = FALSE, !.retry = FALSE,
                              !.releasing = TRUE, !.visible = FALSE]
      /\ operation' = "release-focus" /\ UNCHANGED <<back, lock, marker, restores>>
      /\ popup.visible /\ ~popup.watching /\ ~popup.restored /\ back["child"].pc = "off"
      /\ ~popup.attempted \/ popup.retry
  BY DEF Request, Busy, disk
<1>2. /\ ~popup'.visible /\ popup'.releasing
      /\ popup'.restored = popup.restored /\ popup'.watching = popup.watching
      /\ popup'.attempted /\ ~popup'.retry /\ popup'.checked = popup.checked
  BY <1>1 DEF StartTypeOK
<1> QED
  BY <1>1, <1>2
  DEF Calm, OrphanAlone, ChooserKnows, ChildKnows, Child, Orphan, Untouched, Undecided

\* The surface is gone and the restore begins, or it never went.
LEMMA ReleaseKeeps ==
  ASSUME StartTypeOK, Calm, Release PROVE Calm'
<1>1. back \in Backs
  BY DEF StartTypeOK, Backs, Programs
<1>2. popup.releasing /\ UNCHANGED <<lock, marker, restores>>
  BY DEF Release, disk
<1>3. CASE Runs("apply") /\ popup' = [popup EXCEPT !.releasing = FALSE]
  <2>1. /\ back'["orphan"] = back["orphan"] /\ back'["child"].kind = "apply"
        /\ back'["child"].pc = "go" /\ back'["child"].value = "none"
    BY <1>1, <1>3, NewChild DEF BackendKinds, Runs
  <2>2. /\ popup'.visible = popup.visible /\ ~popup'.releasing
        /\ popup'.restored = popup.restored /\ popup'.watching = popup.watching
        /\ popup'.attempted = popup.attempted /\ popup'.retry = popup.retry
        /\ popup'.checked = popup.checked
    BY <1>3 DEF StartTypeOK
  <2> QED
    BY <1>2, <2>1, <2>2
    DEF Calm, OrphanAlone, ChooserKnows, ChildKnows, Child, Orphan, Untouched, Undecided
<1>4. CASE /\ operation' = "none" /\ UNCHANGED back
           /\ popup' = [popup EXCEPT !.releasing = FALSE, !.failed = TRUE,
                                     !.retry = TRUE, !.visible = TRUE]
  <2>1. /\ popup'.visible /\ ~popup'.releasing
        /\ popup'.restored = popup.restored /\ popup'.watching = popup.watching
        /\ popup'.attempted = popup.attempted /\ popup'.checked = popup.checked
    BY <1>4 DEF StartTypeOK
  <2> QED
    BY <1>2, <1>4, <2>1
    DEF Calm, OrphanAlone, ChooserKnows, ChildKnows, Child, Orphan, Untouched, Undecided
<1> QED
  BY <1>3, <1>4 DEF Release

\* The user declines.
LEMMA NewSessionKeeps ==
  ASSUME StartTypeOK, Calm, NewSession PROVE Calm'
<1>1. back \in Backs
  BY DEF StartTypeOK, Backs, Programs
<1>2. /\ operation' = "ack-new" /\ UNCHANGED <<popup, lock, marker, restores>>
      /\ popup.visible /\ ~popup.restored /\ operation = "none" /\ back["child"].pc = "off"
      /\ back' = [back EXCEPT !["child"] = [kind |-> "ack-new", pc |-> "go", value |-> "none"]]
  BY DEF NewSession, Runs, Busy, disk
<1>3. /\ back'["orphan"] = back["orphan"] /\ back'["child"].kind = "ack-new"
      /\ back'["child"].pc = "go" /\ back'["child"].value = "none"
  BY <1>1, <1>2, NewChild DEF BackendKinds
<1> QED
  BY <1>2, <1>3
  DEF Calm, OrphanAlone, ChooserKnows, ChildKnows, Child, Orphan, Untouched, Undecided

\* The chooser closes on its success.
LEMMA CloseKeeps ==
  ASSUME StartTypeOK, Calm, CloseSuccess PROVE Calm'
<1>1. /\ popup.restored /\ popup.visible /\ popup' = [popup EXCEPT !.visible = FALSE]
      /\ UNCHANGED <<operation, back, lock, marker, restores>>
  BY DEF CloseSuccess, disk
<1>2. /\ ~popup'.visible /\ popup'.releasing = popup.releasing
      /\ popup'.restored = popup.restored /\ popup'.watching = popup.watching
      /\ popup'.attempted = popup.attempted /\ popup'.retry = popup.retry
      /\ popup'.checked = popup.checked
  BY <1>1 DEF StartTypeOK
<1> QED
  BY <1>1, <1>2
  DEF Calm, OrphanAlone, ChooserKnows, ChildKnows, Child, Orphan, Untouched, Undecided

\* Nobody has seen more than one of the two backends.
LEMMA StatusKeeps ==
  ASSUME StartTypeOK, Calm, NEW b \in {"child", "orphan"}, Status(b) PROVE Calm'
<1>1. back \in Backs
  BY DEF StartTypeOK, Backs, Programs
<1>2. b = "child"
  BY DEF Status, Calm, OrphanAlone, Orphan
<1>3. /\ back["child"].kind = "status" /\ back["child"].pc = "go"
      /\ marker' = IF lock = "free" /\ marker = "none" THEN "claimed" ELSE marker
      /\ UNCHANGED <<popup, operation, lock, restores>>
  BY <1>2 DEF Status, NoTransaction, qml
<1>4. PICK value \in {"shown", "deferred", "watch", "hidden", "interrupted"} :
        /\ Ends("child", value)
        /\ lock # "free" => value = "watch"
        /\ value = "shown" => marker = "none" /\ lock = "free"
        /\ value = "deferred" => marker = "deferred"
        /\ value = "interrupted" => marker \notin {"none", "deferred", "new", "restored"}
  <2>1. CASE lock # "free"
    BY <1>2, <2>1 DEF Status, NoTransaction
  <2>2. CASE lock = "free" /\ marker \in {"new", "restored"}
    BY <1>2, <2>2 DEF Status, NoTransaction, Decided
  <2>3. CASE lock = "free" /\ marker = "none"
    BY <1>2, <2>3 DEF Status, NoTransaction, Decided
  <2>4. CASE lock = "free" /\ marker = "deferred"
    BY <1>2, <2>4 DEF Status, NoTransaction, Decided
  <2>5. CASE lock = "free" /\ marker \notin {"none", "deferred", "new", "restored"}
    BY <1>2, <2>5 DEF Status, NoTransaction, Decided
  <2> QED
    BY <2>1, <2>2, <2>3, <2>4, <2>5
<1>5. /\ back'["orphan"] = back["orphan"] /\ back'["child"].kind = "status"
      /\ back'["child"].pc = "end" /\ back'["child"].value = value
  BY <1>1, <1>3, <1>4, Ending DEF Values
<1>6. marker \in {"none", "claimed", "deferred", "new", "restored"} /\ restores \in Nat
  BY DEF StartTypeOK
<1>7. OrphanAlone'
  BY <1>3, <1>4, <1>5 DEF Calm, OrphanAlone, Child, Orphan, Untouched
<1>8. ChooserKnows'
  BY <1>3, <1>5 DEF Calm, ChooserKnows, ChildKnows, Child, Untouched
<1>9. ChildKnows'
  <2>1. /\ value \in {"shown", "deferred", "watch", "hidden", "interrupted"}
        /\ value = "shown" => marker = "none" /\ marker' = "claimed"
        /\ value = "deferred" => marker' = "deferred"
        /\ value = "interrupted" => marker' = "claimed"
    BY <1>3, <1>4, <1>6
  <2>2. marker = "none" => restores = 0
    BY <1>6 DEF Calm
  <2> QED
    BY <1>3, <1>5, <2>1, <2>2 DEF Calm, ChildKnows, Child, Untouched, Undecided
<1> QED
  BY <1>3, <1>6, <1>7, <1>8, <1>9 DEF Calm

\* The acknowledgement is written once, by the backend of this shell.
LEMMA AcknowledgeKeeps ==
  ASSUME StartTypeOK, Calm, NEW b \in {"child", "orphan"}, Acknowledge(b) PROVE Calm'
<1>1. back \in Backs
  BY DEF StartTypeOK, Backs, Programs
<1>2. b = "child"
  BY DEF Acknowledge, Calm, OrphanAlone, Orphan
<1>3. /\ back["child"].kind \in {"ack-new", "ack-restored"} /\ back["child"].pc = "go"
      /\ UNCHANGED <<popup, operation, lock, restores>>
  BY <1>2 DEF Acknowledge, qml
<1>4. PICK value \in {"ok", "failed"} :
        /\ Ends("child", value)
        /\ value = "failed" => UNCHANGED marker
        /\ value = "ok" =>
             /\ lock = "free"
             /\ marker' = IF back["child"].kind = "ack-restored" THEN "restored" ELSE "new"
  BY <1>2 DEF Acknowledge, NoTransaction
<1>5. /\ back'["orphan"] = back["orphan"] /\ back'["child"].kind = back["child"].kind
      /\ back'["child"].pc = "end" /\ back'["child"].value = value
  BY <1>1, <1>3, <1>4, Ending DEF Values
<1>6. restores \in Nat /\ back["orphan"].pc # "run"
  BY <1>3 DEF StartTypeOK, Calm, OrphanAlone, Child, Orphan
<1>7. OrphanAlone'
  BY <1>5, <1>6 DEF Calm, OrphanAlone, Orphan
<1>8. ChooserKnows'
  BY <1>3, <1>4, <1>5 DEF Calm, ChooserKnows, ChildKnows, Child, Untouched, Undecided
<1>9. ChildKnows'
  BY <1>3, <1>4, <1>5, <1>6 DEF Calm, ChildKnows, Child, Untouched, Undecided
<1> QED
  BY <1>3, <1>4, <1>6, <1>7, <1>8, <1>9 DEF Calm

\* The report is only read.
LEMMA ReadReportKeeps ==
  ASSUME StartTypeOK, Calm, NEW b \in {"child", "orphan"}, ReadReport(b) PROVE Calm'
<1>1. back \in Backs
  BY DEF StartTypeOK, Backs, Programs
<1>2. b = "child"
  BY DEF ReadReport, Calm, OrphanAlone, Orphan
<1>3. /\ back["child"].kind = "report" /\ back["child"].pc = "go"
      /\ UNCHANGED <<popup, operation, lock, marker, restores>> /\ Ends("child", "ok")
  BY <1>2 DEF ReadReport, qml, disk
<1>4. /\ back'["orphan"] = back["orphan"] /\ back'["child"].kind = back["child"].kind
      /\ back'["child"].pc = "end" /\ back'["child"].value = "ok"
  BY <1>1, <1>3, Ending DEF Values
<1> QED
  BY <1>3, <1>4
  DEF Calm, OrphanAlone, ChooserKnows, ChildKnows, Child, Orphan, Untouched, Undecided

\* Admission and the keyring come before anything is restored.
LEMMA AdmissionKeeps ==
  ASSUME StartTypeOK, Calm, NEW b \in {"child", "orphan"}, Admit(b) \/ RequireReady(b)
  PROVE  Calm'
<1>1. back \in Backs
  BY DEF StartTypeOK, Backs, Programs
<1>2. b = "child"
  BY DEF Admit, RequireReady, Applying, Calm, OrphanAlone, Orphan
<1>3. /\ back["child"].kind = "apply" /\ back["child"].pc \in {"go", "ready"}
      /\ UNCHANGED <<popup, operation, lock, marker, restores>>
  BY <1>2 DEF Admit, RequireReady, Applying, qml, disk
<1>4. \/ BackGoes("child", "ready") \/ BackGoes("child", "lock")
      \/ Ends("child", "failed") \/ Ends("child", "keyring")
  BY <1>2 DEF Admit, RequireReady
<1>5. /\ back'["orphan"] = back["orphan"] /\ back'["child"].kind = back["child"].kind
      /\ \/ back'["child"].pc \in {"ready", "lock"} /\ back'["child"].value = back["child"].value
         \/ back'["child"].pc = "end" /\ back'["child"].value \in {"failed", "keyring"}
  BY <1>1, <1>3, <1>4, Ending, StartMoves DEF Values
<1> QED
  BY <1>3, <1>5
  DEF Calm, OrphanAlone, ChooserKnows, ChildKnows, Child, Orphan, Untouched, Undecided

\* A restore that begins finds nothing restored, and the marker claimed.
LEMMA LockKeeps ==
  ASSUME StartTypeOK, Calm, NEW b \in {"child", "orphan"}, TakeLock(b) PROVE Calm'
<1>1. back \in Backs
  BY DEF StartTypeOK, Backs, Programs
<1>2. b = "child"
  BY DEF TakeLock, Applying, Calm, OrphanAlone, Orphan
<1>3. /\ back["child"].kind = "apply" /\ back["child"].pc = "lock"
      /\ UNCHANGED <<popup, operation, restores>>
  BY <1>2 DEF TakeLock, Applying, qml
<1>4. CASE lock = "free"
  <2>1. /\ BackGoes("child", "run") /\ lock' = "child"
        /\ marker' = IF marker = "deferred" THEN "claimed" ELSE marker
    BY <1>2, <1>4 DEF TakeLock, NoTransaction
  <2>2. /\ back'["orphan"] = back["orphan"] /\ back'["child"].kind = back["child"].kind
        /\ back'["child"].pc = "run" /\ back'["child"].value = back["child"].value
    BY <1>1, <2>1, StartMoves
  <2> QED
    BY <1>3, <1>4, <2>1, <2>2
    DEF Calm, OrphanAlone, ChooserKnows, ChildKnows, Child, Orphan, Untouched, Undecided
<1>5. CASE lock # "free"
  <2>1. Ends("child", "failed") /\ UNCHANGED <<lock, marker>>
    BY <1>2, <1>5 DEF TakeLock, NoTransaction
  <2>2. /\ back'["orphan"] = back["orphan"] /\ back'["child"].kind = back["child"].kind
        /\ back'["child"].pc = "end" /\ back'["child"].value = "failed"
    BY <1>1, <2>1, Ending DEF Values
  <2> QED
    BY <1>3, <2>1, <2>2
    DEF Calm, OrphanAlone, ChooserKnows, ChildKnows, Child, Orphan, Untouched, Undecided
<1> QED
  BY <1>4, <1>5

\* A restore that ends was the first to succeed, if it does.
LEMMA FinishKeeps ==
  ASSUME StartTypeOK, Calm, NEW b \in {"child", "orphan"}, Finish(b) PROVE Calm'
<1>1. back \in Backs /\ restores \in Nat
  BY DEF StartTypeOK, Backs, Programs
<1>2. /\ back[b].kind = "apply" /\ back[b].pc = "run" /\ lock' = "free"
      /\ UNCHANGED <<popup, operation>>
  BY DEF Finish, Applying, qml
<1>3. marker = "claimed" /\ restores = 0 /\ Untouched /\ lock = b
  <2>1. CASE b = "child"
    BY <1>1, <1>2, <2>1 DEF Calm, ChildKnows, Child
  <2>2. CASE b = "orphan"
    BY <1>2, <2>2 DEF Calm, OrphanAlone, Orphan
  <2> QED
    BY <2>1, <2>2
<1>4. PICK value \in {"ok", "failed", "deferred"} :
        /\ Ends(b, value)
        /\ value = "ok" => restores' = restores + 1 /\ UNCHANGED marker
        /\ value = "failed" => UNCHANGED <<restores, marker>>
        /\ value = "deferred" => UNCHANGED restores /\ marker' = "deferred"
  BY <1>3 DEF Finish
<1>5. /\ back'[b].kind = "apply" /\ back'[b].pc = "end" /\ back'[b].value = value
      /\ \A o \in {"child", "orphan"} : o # b => back'[o] = back[o]
  BY <1>1, <1>2, <1>4, Ending DEF Values
<1>6. CASE b = "child"
  BY <1>2, <1>3, <1>4, <1>5, <1>6
  DEF Calm, OrphanAlone, ChooserKnows, ChildKnows, Child, Orphan, Untouched, Undecided
<1>7. CASE b = "orphan"
  BY <1>2, <1>3, <1>4, <1>5, <1>7
  DEF Calm, OrphanAlone, ChooserKnows, ChildKnows, Child, Orphan, Untouched, Undecided
<1> QED
  BY <1>6, <1>7

\* An orphan that has ended says nothing to anybody.
LEMMA OrphanExitKeeps ==
  ASSUME StartTypeOK, Calm, OrphanExits PROVE Calm'
<1>1. back \in Backs
  BY DEF StartTypeOK, Backs, Programs
<1>2. back'["orphan"].pc = "off" /\ back'["child"] = back["child"]
      /\ UNCHANGED <<popup, operation, lock, marker, restores>>
  BY <1>1 DEF OrphanExits, Idle, qml, disk, Backs
<1> QED
  BY <1>2
  DEF Calm, OrphanAlone, ChooserKnows, ChildKnows, Child, Orphan, Untouched, Undecided

\* A shell that restarts has no window, and leaves behind at most a restore.
LEMMA RestartKeeps ==
  ASSUME StartTypeOK, Calm, Restart, ~early' PROVE Calm'
<1>1. back \in Backs
  BY DEF StartTypeOK, Backs, Programs
<1>2. /\ popup' = NewPopup /\ operation' = "none" /\ UNCHANGED <<marker, restores>>
  BY DEF Restart, disk
<1>3. /\ ~popup'.visible /\ ~popup'.releasing /\ ~popup'.restored /\ ~popup'.checked
  BY <1>2 DEF NewPopup
<1>4. /\ back'["child"].kind = "none" /\ back'["child"].pc = "off"
      /\ \/ back'["orphan"] = back["orphan"] /\ (lock = "orphan" => lock' = "orphan")
         \/ /\ back'["orphan"] = back["child"] /\ back["child"].pc = "run"
            /\ (lock = "child" => lock' = "orphan")
  <2>1. CASE /\ back' = [back EXCEPT !["child"] = Idle, !["orphan"] = back["child"]]
             /\ early' = (early \/ back["child"].pc # "run")
             /\ lock' = IF lock = "child" THEN "orphan"
                        ELSE IF lock = "keyring" THEN "free" ELSE lock
    BY <1>1, <2>1 DEF Idle, Backs
  <2>2. CASE /\ back' = [back EXCEPT !["child"] = Idle]
             /\ lock # "child" => lock' = IF lock = "keyring" THEN "free" ELSE lock
    BY <1>1, <2>2 DEF Idle, Backs
  <2> QED
    BY <2>1, <2>2 DEF Restart
<1>5. back["child"].pc = "run" =>
        back["child"].kind = "apply" /\ lock = "child" /\ marker = "claimed" /\ restores = 0
  BY <1>1 DEF Calm, ChildKnows, Child, Backs, Programs, BackendKinds
<1> QED
  BY <1>2, <1>3, <1>4, <1>5
  DEF Calm, OrphanAlone, ChooserKnows, ChildKnows, Child, Orphan, Untouched, Undecided

\* The chooser takes what its backend has found for what the marker says.
LEMMA CompletedKeeps ==
  ASSUME StartTypeOK, Calm, Completed PROVE Calm'
<1> DEFINE kind == back["child"].kind
           value == back["child"].value
<1>1. back \in Backs /\ restores \in Nat /\ UNCHANGED <<lock, marker, restores>> /\ back["child"].pc = "end"
  BY DEF StartTypeOK, Backs, Programs, Completed, disk
<1>2. kind \in BackendKinds \ {"none"} /\ kind = back["child"].kind /\ value = back["child"].value
      /\ (back["orphan"].pc # "run" \/ (kind = "status" /\ value = "watch"))
  BY <1>1 DEF Calm, ChildKnows, OrphanAlone, Child, Orphan, Backs, Programs
<1>3. ASSUME Quits PROVE /\ operation' = "none" /\ back'["orphan"] = back["orphan"]
                         /\ back'["child"].kind = "none" /\ back'["child"].pc = "off"
  BY <1>1, <1>3, NewChild DEF Quits, Idle, BackendKinds
<1>4. CASE kind = "status" /\ value \in {"watch", "hidden"}
  <2>1. /\ Quits
        /\ \/ value = "hidden" /\ popup' = [popup EXCEPT !.watching = FALSE, !.visible = FALSE]
           \/ value = "watch" /\ popup' = [popup EXCEPT !.watching = TRUE, !.visible = FALSE]
    BY <1>4 DEF Completed, StartTypeOK
  <2>2. /\ ~popup'.visible /\ popup'.releasing = popup.releasing
        /\ popup'.restored = popup.restored /\ popup'.attempted = popup.attempted
        /\ popup'.retry = popup.retry /\ popup'.checked = popup.checked
    BY <2>1 DEF StartTypeOK
  <2> QED
    BY <1>1, <1>2, <1>3, <1>4, <2>1, <2>2
    DEF Calm, OrphanAlone, ChooserKnows, ChildKnows, Child, Orphan, Untouched, Undecided
<1>5. CASE kind = "status" /\ value = "shown"
  <2>1. Quits /\ popup' = [popup EXCEPT !.watching = FALSE, !.visible = TRUE]
    BY <1>5 DEF Completed, StartTypeOK
  <2>2. /\ popup'.visible /\ popup'.releasing = popup.releasing /\ ~popup'.watching
        /\ popup'.restored = popup.restored /\ popup'.attempted = popup.attempted
        /\ popup'.retry = popup.retry /\ popup'.checked = popup.checked
    BY <2>1 DEF StartTypeOK
  <2> QED
    BY <1>1, <1>2, <1>3, <1>5, <2>1, <2>2
    DEF Calm, OrphanAlone, ChooserKnows, ChildKnows, Child, Orphan, Untouched, Undecided
<1>6. CASE kind = "status" /\ value = "deferred"
  <2>1. Quits /\ popup' = [popup EXCEPT !.watching = FALSE, !.attempted = TRUE, !.failed = TRUE,
                                        !.restored = FALSE, !.retry = TRUE, !.visible = TRUE]
    BY <1>6 DEF Completed, StartTypeOK, Deferred
  <2>2. /\ popup'.visible /\ popup'.releasing = popup.releasing /\ ~popup'.watching
        /\ ~popup'.restored /\ popup'.checked = popup.checked
    BY <2>1 DEF StartTypeOK
  <2> QED
    BY <1>1, <1>2, <1>3, <1>6, <2>1, <2>2
    DEF Calm, OrphanAlone, ChooserKnows, ChildKnows, Child, Orphan, Untouched, Undecided
<1>7. CASE kind = "apply" /\ value = "ok"
  <2>1. Runs("ack-restored") /\ UNCHANGED popup
    BY <1>7 DEF Completed
  <2>2. /\ back'["orphan"] = back["orphan"] /\ back'["child"].kind = "ack-restored"
        /\ back'["child"].pc = "go" /\ back'["child"].value = "none"
    BY <1>1, <2>1, NewChild DEF BackendKinds, Runs
  <2> QED
    BY <1>1, <1>2, <1>7, <2>1, <2>2
    DEF Calm, OrphanAlone, ChooserKnows, ChildKnows, Child, Orphan, Untouched, Undecided
<1>8. CASE kind = "apply" /\ value = "deferred"
  <2>1. Quits /\ popup' = [popup EXCEPT !.attempted = TRUE, !.failed = TRUE,
                                        !.restored = FALSE, !.retry = TRUE, !.visible = TRUE]
    BY <1>8 DEF Completed, Deferred
  <2>2. /\ popup'.visible /\ popup'.releasing = popup.releasing
        /\ popup'.watching = popup.watching
        /\ ~popup'.restored /\ popup'.checked = popup.checked
    BY <2>1 DEF StartTypeOK
  <2> QED
    BY <1>1, <1>2, <1>3, <1>8, <2>1, <2>2
    DEF Calm, OrphanAlone, ChooserKnows, ChildKnows, Child, Orphan, Untouched, Undecided
<1>9. CASE kind = "apply" /\ value = "keyring"
  <2>1. Quits /\ popup' = [popup EXCEPT !.attempted = FALSE, !.failed = FALSE,
                                        !.restored = FALSE, !.visible = TRUE]
    BY <1>9 DEF Completed
  <2>2. /\ popup'.visible /\ popup'.releasing = popup.releasing
        /\ popup'.watching = popup.watching
        /\ ~popup'.restored /\ popup'.checked = popup.checked
    BY <2>1 DEF StartTypeOK
  <2> QED
    BY <1>1, <1>2, <1>3, <1>9, <2>1, <2>2
    DEF Calm, OrphanAlone, ChooserKnows, ChildKnows, Child, Orphan, Untouched, Undecided
<1>10. CASE kind = "ack-restored" /\ value = "ok"
  <2>1. Quits /\ popup' = [popup EXCEPT !.restored = TRUE, !.visible = TRUE]
    BY <1>10 DEF Completed
  <2>2. /\ popup'.visible /\ popup'.releasing = popup.releasing
        /\ popup'.watching = popup.watching
        /\ popup'.restored /\ popup'.checked = popup.checked
    BY <2>1 DEF StartTypeOK
  <2> QED
    BY <1>1, <1>2, <1>3, <1>10, <2>1, <2>2
    DEF Calm, OrphanAlone, ChooserKnows, ChildKnows, Child, Orphan, Untouched, Undecided
<1>11. CASE kind = "ack-new" /\ value = "ok"
  <2>1. Quits /\ popup' = [popup EXCEPT !.visible = FALSE]
    BY <1>11 DEF Completed
  <2>2. /\ ~popup'.visible /\ popup'.releasing = popup.releasing
        /\ popup'.watching = popup.watching
        /\ popup'.restored = popup.restored /\ popup'.checked = popup.checked
    BY <2>1 DEF StartTypeOK
  <2> QED
    BY <1>1, <1>2, <1>3, <1>11, <2>1, <2>2
    DEF Calm, OrphanAlone, ChooserKnows, ChildKnows, Child, Orphan, Untouched, Undecided
<1>12. CASE kind = "report"
  <2>1. Quits /\ UNCHANGED popup
    BY <1>12 DEF Completed
  <2> QED
    BY <1>1, <1>2, <1>3, <1>12, <2>1
    DEF Calm, OrphanAlone, ChooserKnows, ChildKnows, Child, Orphan, Untouched, Undecided
<1>13. CASE kind = "status" /\ value = "interrupted"
  <2>1. /\ operation' = "report"
        /\ back' = [back EXCEPT !["child"] = [kind |-> "report", pc |-> "go", value |-> "none"]]
        /\ popup' = [popup EXCEPT !.watching = FALSE, !.attempted = TRUE, !.failed = TRUE,
                                  !.restored = FALSE, !.retry = FALSE, !.visible = TRUE]
    BY <1>13 DEF Completed, Fails, StartTypeOK
  <2>2. /\ popup'.visible /\ popup'.releasing = popup.releasing /\ ~popup'.watching
        /\ ~popup'.restored /\ popup'.checked = popup.checked
        /\ popup'.attempted /\ ~popup'.retry
    BY <2>1 DEF StartTypeOK
  <2>3. /\ back'["orphan"] = back["orphan"] /\ back'["child"].kind = "report"
        /\ back'["child"].pc = "go" /\ back'["child"].value = "none"
    BY <1>1, <2>1, NewChild DEF BackendKinds
  <2> QED
    BY <1>1, <1>2, <1>13, <2>1, <2>2, <2>3
    DEF Calm, OrphanAlone, ChooserKnows, ChildKnows, Child, Orphan, Untouched, Undecided
<1>14. CASE \/ kind = "apply" /\ value \notin {"ok", "deferred", "keyring"}
            \/ kind \in {"ack-new", "ack-restored"} /\ value # "ok"
  <2>1. /\ operation' = "report"
        /\ back' = [back EXCEPT !["child"] = [kind |-> "report", pc |-> "go", value |-> "none"]]
        /\ popup' = [popup EXCEPT !.failed = TRUE,
                                  !.restored = FALSE, !.retry = FALSE, !.visible = TRUE]
    BY <1>14 DEF Completed, Fails
  <2>2. /\ popup'.visible /\ popup'.releasing = popup.releasing
        /\ popup'.watching = popup.watching /\ popup'.attempted = popup.attempted
        /\ ~popup'.restored /\ popup'.checked = popup.checked /\ ~popup'.retry
    BY <2>1 DEF StartTypeOK
  <2>3. /\ back'["orphan"] = back["orphan"] /\ back'["child"].kind = "report"
        /\ back'["child"].pc = "go" /\ back'["child"].value = "none"
    BY <1>1, <2>1, NewChild DEF BackendKinds
  <2> QED
    BY <1>1, <1>2, <1>14, <2>1, <2>2, <2>3
    DEF Calm, OrphanAlone, ChooserKnows, ChildKnows, Child, Orphan, Untouched, Undecided
<1> QED
  <2>1. kind = "status" => value \in {"shown", "deferred", "watch", "hidden", "interrupted"}
    BY <1>1 DEF Calm, ChildKnows, Child
  <2> QED
    BY <1>2, <1>4, <1>5, <1>6, <1>7, <1>8, <1>9, <1>10, <1>11, <1>12, <1>13, <1>14, <2>1
    DEF BackendKinds

\* The types.
Popups == [visible : BOOLEAN, attempted : BOOLEAN, failed : BOOLEAN,
           retry : BOOLEAN, releasing : BOOLEAN, restored : BOOLEAN,
           watching : BOOLEAN, checked : BOOLEAN]
KeyProcs == [unlock : BOOLEAN, pc : {"off", "go", "check", "prompt", "end"},
             value : KeyStates]

\* What the shell starts with is of its type.
LEMMA Openings ==
  /\ NewPopup \in Popups /\ Idle \in Programs /\ NoKeyProc \in KeyProcs
  /\ \A unlock \in BOOLEAN : Asking(unlock) \in KeyProcs
<1>1. PICK off \in BOOLEAN : off = FALSE
  OBVIOUS
<1>2. NewPopup \in Popups
  BY <1>1 DEF NewPopup, Popups
<1>3. Idle \in Programs
  BY DEF Idle, Programs, BackendKinds, Values
<1>4. NoKeyProc \in KeyProcs
  BY <1>1 DEF NoKeyProc, KeyProcs, KeyStates
<1>5. ASSUME NEW unlock \in BOOLEAN PROVE Asking(unlock) \in KeyProcs
  BY DEF Asking, KeyProcs, KeyStates
<1> QED
  BY <1>2, <1>3, <1>4, <1>5

\* The chooser keeps its type.
LEMMA PopupTypes ==
  ASSUME StartTypeOK, [StartNext]_tvars PROVE popup' \in Popups
<1>1. popup \in Popups
  BY DEF StartTypeOK, Popups
<1>2. PICK on \in BOOLEAN : on = TRUE
  OBVIOUS
<1>3. PICK off \in BOOLEAN : off = FALSE
  OBVIOUS
<1>4. CASE ReadStatus
  <2>1. popup' = [popup EXCEPT !.checked = on]
    BY <1>2, <1>4 DEF ReadStatus
  <2> QED
    BY <1>1, <2>1 DEF Popups
<1>5. CASE Request
  <2>1. popup' = [popup EXCEPT !.attempted = on, !.failed = off, !.retry = off,
                               !.releasing = on, !.visible = off]
    BY <1>2, <1>3, <1>5 DEF Request
  <2> QED
    BY <1>1, <2>1 DEF Popups
<1>6. CASE Release
  <2>1. \/ popup' = [popup EXCEPT !.releasing = off]
        \/ popup' = [popup EXCEPT !.releasing = off, !.failed = on, !.retry = on, !.visible = on]
    BY <1>2, <1>3, <1>6 DEF Release
  <2> QED
    BY <1>1, <2>1 DEF Popups
<1>7. CASE CloseSuccess
  <2>1. popup' = [popup EXCEPT !.visible = off]
    BY <1>3, <1>7 DEF CloseSuccess
  <2> QED
    BY <1>1, <2>1 DEF Popups
<1>8. CASE Restart
  BY <1>8, Openings DEF Restart
<1>9. CASE Completed
  <2>1. PICK settled \in Popups : settled = [popup EXCEPT !.watching = off]
    BY <1>1 DEF Popups
  <2>2. PICK tried \in Popups : tried = [settled EXCEPT !.attempted = on]
    BY <1>1 DEF Popups
  <2>3. \E p \in {popup, settled, tried} :
          \/ popup' = p
          \/ popup' = [p EXCEPT !.watching = on, !.visible = off]
          \/ popup' = [p EXCEPT !.visible = off]
          \/ popup' = [p EXCEPT !.visible = on]
          \/ popup' = [p EXCEPT !.attempted = on, !.failed = on, !.restored = off,
                                !.retry = on, !.visible = on]
          \/ popup' = [p EXCEPT !.failed = on, !.restored = off, !.retry = off, !.visible = on]
          \/ popup' = [p EXCEPT !.attempted = off, !.failed = off, !.restored = off,
                                !.visible = on]
          \/ popup' = [p EXCEPT !.restored = on, !.visible = on]
    BY <1>2, <1>3, <1>9, <2>1, <2>2 DEF Completed, Deferred, Fails
  <2>4. PICK p \in {popup, settled, tried} :
          \/ popup' = p
          \/ popup' = [p EXCEPT !.watching = on, !.visible = off]
          \/ popup' = [p EXCEPT !.visible = off]
          \/ popup' = [p EXCEPT !.visible = on]
          \/ popup' = [p EXCEPT !.attempted = on, !.failed = on, !.restored = off,
                                !.retry = on, !.visible = on]
          \/ popup' = [p EXCEPT !.failed = on, !.restored = off, !.retry = off, !.visible = on]
          \/ popup' = [p EXCEPT !.attempted = off, !.failed = off, !.restored = off,
                                !.visible = on]
          \/ popup' = [p EXCEPT !.restored = on, !.visible = on]
    BY <2>3
  <2>5. p \in Popups
    BY <1>1, <2>1, <2>2
  <2>6. CASE \/ popup' = p
             \/ popup' = [p EXCEPT !.watching = on, !.visible = off]
             \/ popup' = [p EXCEPT !.visible = off]
             \/ popup' = [p EXCEPT !.visible = on]
             \/ popup' = [p EXCEPT !.restored = on, !.visible = on]
    BY <2>5, <2>6 DEF Popups
  <2>7. CASE popup' = [p EXCEPT !.attempted = on, !.failed = on, !.restored = off,
                                !.retry = on, !.visible = on]
    <3>1. PICK q \in Popups : q = [p EXCEPT !.attempted = on, !.failed = on, !.restored = off]
      BY <2>5 DEF Popups
    <3>2. popup' = [q EXCEPT !.retry = on, !.visible = on]
      BY <2>5, <2>7, <3>1 DEF Popups
    <3> QED
      BY <3>1, <3>2 DEF Popups
  <2>8. CASE popup' = [p EXCEPT !.failed = on, !.restored = off, !.retry = off, !.visible = on]
    <3>1. PICK q \in Popups : q = [p EXCEPT !.failed = on, !.restored = off]
      BY <2>5 DEF Popups
    <3>2. popup' = [q EXCEPT !.retry = off, !.visible = on]
      BY <2>5, <2>8, <3>1 DEF Popups
    <3> QED
      BY <3>1, <3>2 DEF Popups
  <2>9. CASE popup' = [p EXCEPT !.attempted = off, !.failed = off, !.restored = off,
                                !.visible = on]
    <3>1. PICK q \in Popups : q = [p EXCEPT !.attempted = off, !.failed = off]
      BY <2>5 DEF Popups
    <3>2. popup' = [q EXCEPT !.restored = off, !.visible = on]
      BY <2>5, <2>9, <3>1 DEF Popups
    <3> QED
      BY <3>1, <3>2 DEF Popups
  <2> QED
    BY <2>4, <2>6, <2>7, <2>8, <2>9
<1>10. CASE UNCHANGED popup
  BY <1>1, <1>10
<1> QED
  BY <1>4, <1>5, <1>6, <1>7, <1>8, <1>9, <1>10
  DEF StartNext, Backend, CheckKeyring, NewSession, Status, Acknowledge, ReadReport, Admit,
      RequireReady, TakeLock, Finish, OrphanExits, GuardEnds, KeyringAdmit, KeyringCheck,
      KeyringPrompt, KeyringExits, Relock, qml, disk, tvars

\* The backends keep their types.
LEMMA BackTypes ==
  ASSUME StartTypeOK, [StartNext]_tvars
  PROVE  back' \in Backs /\ operation' \in BackendKinds \cup {"release-focus"}
<1>1. back \in Backs /\ operation \in BackendKinds \cup {"release-focus"}
  BY DEF StartTypeOK, Backs, Programs
<1>2. ASSUME NEW kind \in BackendKinds, Runs(kind)
      PROVE  back' \in Backs /\ operation' \in BackendKinds
  BY <1>1, <1>2, NewChild DEF Runs
<1>3. ASSUME Quits PROVE back' \in Backs /\ operation' \in BackendKinds
  BY <1>1, <1>3, Openings DEF Quits, Backs, BackendKinds
<1>4. CASE ReadStatus \/ NewSession \/ Request \/ Release
  BY <1>1, <1>2, <1>4 DEF ReadStatus, NewSession, Request, Release, BackendKinds
<1>5. CASE Completed
  <2>1. \/ Quits \/ Runs("ack-restored") \/ Runs("report")
    BY <1>5 DEF Completed, Fails, Runs
  <2> QED
    BY <1>2, <1>3, <2>1 DEF BackendKinds
<1>6. CASE Restart
  <2>1. operation' = "none"
    BY <1>6 DEF Restart
  <2>2. \/ back' = [back EXCEPT !["child"] = Idle, !["orphan"] = back["child"]]
        \/ back' = [back EXCEPT !["child"] = Idle]
    BY <1>6 DEF Restart
  <2> QED
    BY <1>1, <2>1, <2>2, Openings DEF Backs, BackendKinds
<1>7. ASSUME NEW b \in {"child", "orphan"}, Backend(b) PROVE back' \in Backs /\ UNCHANGED operation
  <2>1. CASE Status(b) \/ Acknowledge(b) \/ ReadReport(b)
    <3>1. (\E value \in Values : Ends(b, value)) /\ UNCHANGED operation
      BY <2>1 DEF Status, Acknowledge, ReadReport, Values, qml
    <3> QED
      BY <1>1, <3>1, Ending
  <2>2. CASE Admit(b) \/ RequireReady(b) \/ TakeLock(b) \/ Finish(b)
    <3>1. /\ \/ \E value \in Values : Ends(b, value)
             \/ \E pc \in {"ready", "lock", "run"} : BackGoes(b, pc)
          /\ UNCHANGED operation
      BY <2>2 DEF Admit, RequireReady, TakeLock, Finish, Values, qml
    <3> QED
      BY <1>1, <3>1, Ending, StartMoves
  <2> QED
    BY <1>7, <2>1, <2>2 DEF Backend
<1>8. CASE OrphanExits
  BY <1>1, <1>8, Openings DEF OrphanExits, Backs, qml
<1>9. CASE UNCHANGED <<back, operation>>
  BY <1>1, <1>9
<1> QED
  BY <1>1, <1>4, <1>5, <1>6, <1>7, <1>8, <1>9
  DEF StartNext, CheckKeyring, CloseSuccess, GuardEnds, KeyringAdmit, KeyringCheck,
      KeyringPrompt, KeyringExits, Relock, qml, tvars

\* The keyring process keeps its type.
LEMMA KeyTypes ==
  ASSUME StartTypeOK, [StartNext]_tvars
  PROVE  keyProc' \in KeyProcs /\ keyState' \in KeyStates
<1>1. keyProc \in KeyProcs /\ keyState \in KeyStates
  BY DEF StartTypeOK, KeyProcs
<1>2. keyProc.value \in KeyStates
  BY <1>1 DEF KeyProcs
<1>3. ASSUME NEW unlock \in BOOLEAN, Ask(unlock)
      PROVE  keyProc' \in KeyProcs /\ keyState' \in KeyStates
  BY <1>3, Openings DEF Ask, KeyStates
<1>4. CASE CheckKeyring
  BY <1>3, <1>4 DEF CheckKeyring
<1>5. CASE NewSession
  <2>1. keyState' = "CHECKING"
        /\ keyProc' \in {keyProc, [keyProc EXCEPT !.pc = "end", !.value = "CANCELLED"]}
    BY <1>5 DEF NewSession
  <2> QED
    BY <1>1, <2>1 DEF KeyProcs, KeyStates
<1>6. CASE Completed
  <2>1. UNCHANGED <<keyProc, keyState>> \/ Ask(FALSE)
    BY <1>6 DEF Completed, CheckIfIdle
  <2> QED
    BY <1>1, <1>3, <2>1
<1>7. CASE Restart
  BY <1>7, Openings DEF Restart, KeyStates
<1>8. CASE KeyringAdmit \/ KeyringCheck \/ KeyringPrompt
  <2>1. UNCHANGED keyState
    BY <1>8 DEF KeyringAdmit, KeyringCheck, KeyringPrompt, qml
  <2>2. \/ \E pc \in {"check", "prompt"} : keyProc' = [keyProc EXCEPT !.pc = pc]
        \/ \E v \in KeyStates : keyProc' = [keyProc EXCEPT !.pc = "end", !.value = v]
    BY <1>8 DEF KeyringAdmit, KeyringCheck, KeyringPrompt, KeyStates
  <2> QED
    BY <1>1, <2>1, <2>2 DEF KeyProcs
<1>9. CASE KeyringExits
  BY <1>2, <1>9, Openings DEF KeyringExits
<1>10. CASE UNCHANGED <<keyProc, keyState>>
  BY <1>1, <1>10
<1> QED
  BY <1>4, <1>5, <1>6, <1>7, <1>8, <1>9, <1>10
  DEF StartNext, Backend, ReadStatus, Request, Release, CloseSuccess, Status, Acknowledge,
      ReadReport, Admit, RequireReady, TakeLock, Finish, OrphanExits, GuardEnds, Relock,
      qml, tvars

\* The locks and the records keep their types, a backend that outlived its
\* shell is not forgotten, and success is recorded of a restore.
LEMMA RestTypes ==
  ASSUME StartTypeOK, [StartNext]_tvars
  PROVE  /\ admission' \in {"free", "child", "orphan", "keyring"}
         /\ lock' \in {"free", "child", "orphan", "guard"}
         /\ marker' \in {"none", "claimed", "deferred", "new", "restored"}
         /\ report' \in {"none", "success", "failed"}
         /\ locked' \in BOOLEAN /\ restores' \in Nat
         /\ restarts' \in 0..MaxRestarts /\ early' \in BOOLEAN
         /\ early => early'
         /\ Recorded => Recorded'
<1>1. /\ admission \in {"free", "child", "orphan", "keyring"}
      /\ lock \in {"free", "child", "orphan", "guard"}
      /\ marker \in {"none", "claimed", "deferred", "new", "restored"}
      /\ report \in {"none", "success", "failed"}
      /\ locked \in BOOLEAN /\ restores \in Nat
      /\ restarts \in 0..MaxRestarts /\ early \in BOOLEAN /\ MaxRestarts \in Nat
  BY StartAssumption DEF StartTypeOK
<1>2. CASE Restart
  <2>1. /\ restarts < MaxRestarts /\ restarts' = restarts + 1
        /\ UNCHANGED <<marker, report, restores, locked>>
        /\ early' = early \/ early' = (early \/ back["child"].pc # "run")
    BY <1>2 DEF Restart, disk
  <2>2. /\ admission' \in {"free", "child", "orphan", "keyring"}
        /\ lock' \in {"free", "child", "orphan", "guard"}
    BY <1>1, <1>2 DEF Restart
  <2>3. early' \in BOOLEAN /\ (early => early')
    <3>1. PICK more \in BOOLEAN : early' = early \/ early' = (early \/ more)
      <4>1. PICK more \in BOOLEAN : more = (back["child"].pc # "run")
        OBVIOUS
      <4> QED
        BY <2>1, <4>1
    <3>2. CASE more
      BY <1>1, <3>1, <3>2
    <3>3. CASE ~more
      BY <1>1, <3>1, <3>3
    <3> QED
      BY <3>2, <3>3
  <2>4. Recorded => Recorded'
    BY <2>1 DEF Recorded
  <2> QED
    BY <1>1, <2>1, <2>2, <2>3, <2>4
<1>3. ASSUME NEW b \in {"child", "orphan"}, Backend(b)
      PROVE  /\ admission' \in {"free", "child", "orphan", "keyring"}
             /\ lock' \in {"free", "child", "orphan", "guard"}
             /\ marker' \in {"none", "claimed", "deferred", "new", "restored"}
             /\ report' \in {"none", "success", "failed"} /\ restores' \in Nat
             /\ UNCHANGED <<locked, restarts, early>>
             /\ Recorded => Recorded'
  <2>1. CASE Status(b)
    BY <1>1, <2>1 DEF Status, Recorded
  <2>2. CASE Acknowledge(b)
    BY <1>1, <2>2 DEF Acknowledge, Recorded
  <2>3. CASE ReadReport(b) \/ Admit(b) \/ RequireReady(b)
    BY <1>1, <2>3 DEF ReadReport, Admit, RequireReady, Recorded, disk
  <2>4. CASE TakeLock(b)
    BY <1>1, <2>4 DEF TakeLock, Recorded
  <2>5. CASE Finish(b)
    BY <1>1, <2>5 DEF Finish, Recorded
  <2> QED
    BY <1>3, <2>1, <2>2, <2>3, <2>4, <2>5 DEF Backend
<1>4. CASE KeyringAdmit \/ KeyringCheck \/ KeyringPrompt \/ KeyringExits \/ Relock
  BY <1>1, <1>4 DEF KeyringAdmit, KeyringCheck, KeyringPrompt, KeyringExits, Relock, Recorded, disk
<1>5. CASE OrphanExits \/ GuardEnds \/ UNCHANGED tvars
  BY <1>1, <1>5 DEF OrphanExits, GuardEnds, tvars, Recorded, disk
<1>6. CASE ReadStatus \/ CheckKeyring \/ Request \/ Release \/ NewSession \/ CloseSuccess
           \/ Completed
  BY <1>1, <1>6 DEF ReadStatus, CheckKeyring, Request, Release, NewSession, CloseSuccess,
                    Completed, Recorded, disk
<1> QED
  BY <1>1, <1>2, <1>3, <1>4, <1>5, <1>6 DEF StartNext

\* Every step keeps the invariant.
LEMMA OnceStep == OnceInv /\ [StartNext]_tvars => OnceInv'
<1> SUFFICES ASSUME OnceInv, [StartNext]_tvars PROVE OnceInv'
  OBVIOUS
<1>1. StartTypeOK /\ Recorded
  BY DEF OnceInv
<1>2. StartTypeOK'
  BY <1>1, PopupTypes, BackTypes, KeyTypes, RestTypes
  DEF StartTypeOK, Popups, Backs, Programs, KeyProcs
<1>3. Recorded' /\ (early => early')
  BY <1>1, RestTypes
<1>4. ASSUME ~early' PROVE Calm'
  <2>1. Calm
    BY <1>3, <1>4 DEF OnceInv
  <2>2. CASE \/ CheckKeyring \/ GuardEnds \/ KeyringAdmit \/ KeyringCheck \/ KeyringPrompt
             \/ Relock \/ KeyringExits \/ UNCHANGED tvars
    BY <2>1, <2>2, QuietSteps
    DEF CheckKeyring, GuardEnds, KeyringAdmit, KeyringCheck, KeyringPrompt, Relock,
        KeyringExits, tvars, qml, disk
  <2>3. CASE \E b \in {"child", "orphan"} : Backend(b)
    BY <1>1, <2>1, <2>3, StatusKeeps, AcknowledgeKeeps, ReadReportKeeps, AdmissionKeeps,
       LockKeeps, FinishKeeps DEF Backend
  <2>4. CASE \/ ReadStatus \/ Request \/ Release \/ NewSession \/ CloseSuccess \/ OrphanExits
             \/ Completed \/ Restart
    BY <1>1, <1>4, <2>1, <2>4, StatusRuns, RequestKeeps, ReleaseKeeps, NewSessionKeeps,
       CloseKeeps, OrphanExitKeeps, CompletedKeeps, RestartKeeps
  <2> QED
    BY <2>2, <2>3, <2>4 DEF StartNext
<1> QED
  BY <1>2, <1>3, <1>4 DEF OnceInv

\* The session starts in the invariant.
LEMMA OnceStarts == StartInit => OnceInv
<1> SUFFICES ASSUME StartInit PROVE OnceInv
  OBVIOUS
<1>1. StartTypeOK
  <2>1. popup \in Popups /\ back \in Backs /\ keyProc \in KeyProcs
    BY Openings DEF StartInit, Backs
  <2>2. /\ operation \in BackendKinds \cup {"release-focus"} /\ keyState \in KeyStates
        /\ admission \in {"free", "child", "orphan", "keyring"}
        /\ lock \in {"free", "child", "orphan", "guard"}
        /\ marker \in {"none", "claimed", "deferred", "new", "restored"}
        /\ report \in {"none", "success", "failed"}
        /\ restores \in Nat /\ restarts \in 0..MaxRestarts
    BY StartAssumption DEF StartInit, BackendKinds, KeyStates
  <2>3. locked \in BOOLEAN /\ early \in BOOLEAN
    BY Zenon DEF StartInit
  <2> QED
    BY <2>1, <2>2, <2>3 DEF StartTypeOK, Popups, Backs, Programs, KeyProcs
<1>2. Recorded
  BY DEF StartInit, Recorded
<1>3. Calm
  BY DEF StartInit, NewPopup, Idle, Calm, OrphanAlone, ChooserKnows, ChildKnows, Child, Orphan,
         Untouched, Undecided
<1> QED
  BY <1>1, <1>2, <1>3 DEF OnceInv

\* The inductive invariant of the offer.
LEMMA OnceInvHolds == StartSpec => []OnceInv
BY OnceStarts, OnceStep, PTL DEF StartSpec

\* StartTypeOK: the chooser, its backends, the two locks and the records keep
\* their types.
THEOREM StartTypesHold == StartSpec => []StartTypeOK
<1>1. OnceInv => StartTypeOK
  BY DEF OnceInv
<1> QED
  BY <1>1, OnceInvHolds, PTL

\* RestoredOnce: however often the shell restarts, with a backend that dies
\* with it or that outlives it while it restores, the chooser restores at most
\* once, never once the user has decided, and what is recorded as restored was
\* (status, acknowledge and record_deferred of startup.py, fail() and
\* onCompleted of the chooser).
THEOREM RestoresAtMostOnce == StartSpec => []RestoredOnce
<1>1. OnceInv => RestoredOnce
  BY DEF OnceInv, Calm, OrphanAlone, ChildKnows, Child, Orphan, Undecided, Decided, Recorded,
         RestoredOnce, StartTypeOK, BackendKinds
<1> QED
  BY <1>1, OnceInvHolds, PTL
=============================================================================
