------------------------------- MODULE Greeter -------------------------------
(***************************************************************************)
(* The login screen: labfy_greeter.py (GTK), auth.py (AuthFlow, one PAM    *)
(* conversation) and greetd_ipc.py (one request and its reply, 10 s).  The *)
(* screen hands each operation of AuthFlow to a worker thread and freezes  *)
(* its controls until the reply is handled; the account, the typed name    *)
(* and the session can change between two prompts.                         *)
(*                                                                         *)
(* Abstractions.  "secret" stands for the prompts that want an answer,     *)
(* "info" for those that do not.  What is typed is remembered as the       *)
(* prompt it was typed under.  greetd is external: it serves one           *)
(* conversation, refuses a second, and its reply may be lost after it has  *)
(* acted or before.  The clock, the battery, the light, the avatar and the *)
(* power buttons share no state with the login.                            *)
(***************************************************************************)
EXTENDS Integers, FiniteSets

CONSTANTS
    Accounts,       \* the accounts of the selector
    Manual,         \* the selector's last entry, "Autre utilisateur"
    Invalid,        \* a typed name that begin() refuses
    Nothing,        \* no account, no prompt, no text
    MaxConvs,       \* bound on conversations
    MaxPrompts,     \* bound on prompts of a conversation
    MaxLost         \* bound on lost requests and replies

ASSUME GreeterAssumption ==
    /\ {Manual, Invalid, Nothing} \cap Accounts = {}
    /\ Nothing \notin [user : Accounts \cup {Invalid, Nothing}, session : {"stable", "mosaic"}]
    /\ {MaxConvs, MaxPrompts, MaxLost} \subseteq Nat

VARIABLES
    ui,         \* the widgets and the state of class Greeter
    flow,       \* AuthFlow
    job,        \* what the worker thread is doing
    greetd,     \* greetd: its conversation and the session it will start
    lastUser,   \* the durable last-user file
    lost        \* what is left of MaxLost

gvars == <<ui, flow, job, greetd, lastUser, lost>>

Sessions == {"stable", "mosaic"}
Names == Accounts \cup {Invalid, Nothing}
Kinds == {"secret", "info"}
Prompts == [conv : 1..MaxConvs, n : 1..MaxPrompts, kind : Kinds]
NoConv == [user |-> Nothing, stage |-> "none", prompt |-> Nothing]
NoFlow == [client |-> FALSE, username |-> Nothing, selection |-> "stable",
           pending |-> Nothing, authenticated |-> FALSE]
NoJob == [func |-> "none", stage |-> "none", then |-> "none",
          user |-> Nothing, selection |-> "stable", value |-> Nothing]

GreeterTypeOK ==
    /\ ui \in [account : Accounts \cup {Manual}, name : Names, session : Sessions,
               busy : BOOLEAN, startCalled : BOOLEAN, currentUser : Names,
               entry : Prompts \cup {Nothing}, shown : Prompts \cup {Nothing},
               idle : BOOLEAN, quit : BOOLEAN]
    /\ flow \in [client : BOOLEAN, username : Names, selection : Sessions,
                 pending : Prompts \cup {Nothing}, authenticated : BOOLEAN]
    /\ job \in [func : {"none", "begin", "answer", "start", "reset"},
                stage : {"none", "cancel", "create", "answer", "start", "reply"},
                then : {"none", "create", "message", "success", "error",
                        "failure", "reset"},
                user : Names, selection : Sessions, value : Prompts \cup {Nothing}]
    /\ greetd.conv \in [user : Names, stage : {"none", "prompt", "ready", "failed"},
                        prompt : Prompts \cup {Nothing}]
    /\ greetd.convs \in 0..MaxConvs
    /\ lastUser \in Names
    /\ lost \in 0..MaxLost

GreeterInit ==
    /\ \E a \in Accounts :
         ui = [account |-> a, name |-> Nothing, session |-> "stable",
               busy |-> FALSE, startCalled |-> FALSE, currentUser |-> Nothing,
               entry |-> Nothing, shown |-> Nothing, idle |-> TRUE, quit |-> FALSE]
    /\ flow = NoFlow /\ job = NoJob
    /\ greetd = [conv |-> NoConv, convs |-> 0, auths |-> 0, starts |-> 0,
                 scheduled |-> Nothing]
    /\ lastUser = Nothing /\ lost = MaxLost

\* username(), session_choice()
Username == IF ui.account = Manual THEN ui.name ELSE ui.account
Free == ~ui.busy /\ ~ui.quit
CanBegin == greetd.convs < MaxConvs

-----------------------------------------------------------------------------
\* perform: the worker gets one operation.  Each begins with the request, or
\* the reset() it makes first.
Perform(func, user, selection, value) ==
    job' = [func |-> func, user |-> user, selection |-> selection, value |-> value,
            stage |-> CASE func \in {"begin", "reset"} -> "cancel"
                        [] OTHER -> func,
            then |-> IF func = "begin" THEN "create" ELSE "reset"]

\* user_changed: the attempt under way is given up.
Changed(screen) ==
    LET cleared == [screen EXCEPT !.startCalled = FALSE, !.entry = Nothing,
                                  !.shown = Nothing, !.busy = TRUE] IN
    IF screen.account = Manual
    THEN ui' = cleared /\ Perform("reset", Nothing, screen.session, Nothing)
    ELSE /\ CanBegin
         /\ ui' = [cleared EXCEPT !.currentUser = screen.account]
         /\ Perform("begin", screen.account, screen.session, Nothing)

\* user_changed, session_changed
Choose ==
    /\ Free
    /\ \/ \E a \in Accounts \cup {Manual} :
            a # ui.account /\ Changed([ui EXCEPT !.account = a])
       \/ \E s \in Sessions \ {ui.session} : Changed([ui EXCEPT !.session = s])
    /\ UNCHANGED <<flow, greetd, lastUser, lost>>

\* The name and the answer as they are typed.
TypeName ==
    /\ Free /\ ui.account = Manual
    /\ \E n \in Names : n # ui.name /\ ui' = [ui EXCEPT !.name = n]
    /\ UNCHANGED <<flow, job, greetd, lastUser, lost>>

TypeAnswer ==
    /\ Free /\ ui.shown # Nothing /\ ui.shown.kind = "secret"
    /\ ui.entry # ui.shown
    /\ ui' = [ui EXCEPT !.entry = ui.shown]
    /\ UNCHANGED <<flow, job, greetd, lastUser, lost>>

\* begin_selected_user, once the window is there.
OpenSelected ==
    /\ ui.idle /\ ~ui.quit
    /\ IF ui.busy \/ ui.account = Manual
       THEN ui' = [ui EXCEPT !.idle = FALSE] /\ UNCHANGED job
       ELSE /\ CanBegin
            /\ ui' = [ui EXCEPT !.idle = FALSE, !.busy = TRUE,
                                !.currentUser = ui.account]
            /\ Perform("begin", ui.account, ui.session, Nothing)
    /\ UNCHANGED <<flow, greetd, lastUser, lost>>

\* Mistake: whatever is typed answers whatever is asked.
SubmitAnyway ==
    /\ Free
    /\ IF flow.pending # Nothing
       THEN ui' = [ui EXCEPT !.entry = Nothing, !.busy = TRUE]
            /\ Perform("answer", Nothing, flow.selection, ui.entry)
       ELSE /\ Username # Nothing /\ CanBegin
            /\ ui' = [ui EXCEPT !.entry = Nothing, !.busy = TRUE,
                                !.currentUser = Username]
            /\ Perform("begin", Username, ui.session, Nothing)
    /\ UNCHANGED <<flow, greetd, lastUser, lost>>

\* submit: an answer to the prompt, if it still is the account's and the
\* session's; else a new attempt.
Submit ==
    /\ Free
    /\ IF flow.pending # Nothing /\ flow.username = Username
             /\ flow.selection = ui.session
       THEN /\ ui' = [ui EXCEPT !.entry = Nothing, !.busy = TRUE]
            /\ Perform("answer", Nothing, flow.selection,
                       IF flow.pending.kind = "secret" THEN ui.entry ELSE Nothing)
       ELSE /\ Username # Nothing /\ CanBegin
            /\ ui' = [ui EXCEPT !.entry = Nothing, !.busy = TRUE,
                                !.currentUser = Username]
            /\ Perform("begin", Username, ui.session, Nothing)
    /\ UNCHANGED <<flow, greetd, lastUser, lost>>

-----------------------------------------------------------------------------
\* greetd: what it may do with a request, and what it replies.
Verdicts(conv, id) ==
    LET n == IF conv.prompt = Nothing THEN 1 ELSE conv.prompt.n + 1
        after(stage, prompt) == [conv EXCEPT !.stage = stage, !.prompt = prompt] IN
    {after("prompt", p) : p \in {q \in Prompts : q.conv = id /\ q.n = n}}
        \cup {after(stage, Nothing) : stage \in {"ready", "failed"}}
ReplyOf(conv) == CASE conv.stage = "prompt" -> "message"
                   [] conv.stage = "ready" -> "success"
                   [] OTHER -> "error"

Reply(then) == job' = [job EXCEPT !.stage = "reply", !.then = then]
\* reset() at the end of an operation that failed.
ResetThen(then) == job' = [job EXCEPT !.stage = "cancel", !.then = then]
\* _accept
Accept(f, conv, reply) ==
    /\ flow' = [f EXCEPT !.pending = IF reply = "message" THEN conv.prompt ELSE Nothing,
                         !.authenticated = (reply = "success")]
    /\ IF reply = "error" THEN ResetThen("error") ELSE Reply(reply)

Loses == lost > 0 /\ lost' = lost - 1
Kept == UNCHANGED lost

\* reset: the conversation is cancelled, and forgotten whatever greetd does.
Cancel ==
    /\ job.stage = "cancel"
    /\ flow' = NoFlow
    /\ \/ Kept /\ greetd' = IF flow.client THEN [greetd EXCEPT !.conv = NoConv]
                            ELSE greetd
       \/ flow.client /\ Loses /\ UNCHANGED greetd
    /\ IF job.then = "create"
       THEN IF job.user = Invalid THEN Reply("failure")
            ELSE job' = [job EXCEPT !.stage = "create", !.then = "none"]
       ELSE Reply(job.then)
    /\ UNCHANGED <<ui, lastUser>>

Create ==
    /\ job.stage = "create"
    /\ LET f == [NoFlow EXCEPT !.client = TRUE, !.username = job.user,
                               !.selection = job.selection]
           free == greetd.conv.stage = "none"
           new(conv) == greetd' = [greetd EXCEPT !.conv = conv, !.convs = @ + 1,
                          !.auths = IF conv.stage = "ready" THEN @ + 1 ELSE @] IN
       \/ /\ free /\ Kept
          /\ \E conv \in Verdicts([NoConv EXCEPT !.user = job.user], greetd.convs + 1) :
               new(conv) /\ Accept(f, conv, ReplyOf(conv))
       \/ /\ ~free /\ Kept /\ UNCHANGED greetd
          /\ Accept(f, NoConv, "error")
       \/ /\ Loses /\ flow' = f /\ ResetThen("failure")
          /\ \/ UNCHANGED greetd
             \/ free /\ \E conv \in Verdicts([NoConv EXCEPT !.user = job.user], greetd.convs + 1) :
                           new(conv)
    /\ UNCHANGED <<ui, lastUser>>

\* AuthFlow.answer, for the prompt that is pending.
Answer ==
    /\ job.stage = "answer"
    /\ LET asked == greetd.conv.stage = "prompt"
           goes(conv) == greetd' = [greetd EXCEPT !.conv = conv,
                           !.auths = IF conv.stage = "ready" THEN @ + 1 ELSE @] IN
       \/ /\ asked /\ Kept
          /\ \E conv \in Verdicts(greetd.conv, greetd.convs) :
               goes(conv) /\ Accept(flow, conv, ReplyOf(conv))
       \/ /\ ~asked /\ Kept /\ UNCHANGED greetd
          /\ Accept(flow, NoConv, "error")
       \/ /\ Loses /\ flow' = [flow EXCEPT !.pending = Nothing]
          /\ ResetThen("failure")
          /\ \/ UNCHANGED greetd
             \/ asked /\ \E conv \in Verdicts(greetd.conv, greetd.convs) : goes(conv)
    /\ UNCHANGED <<ui, lastUser>>

\* AuthFlow.start: the authentication is spent before the request is sent.
Start ==
    /\ job.stage = "start"
    /\ LET starts == [greetd EXCEPT !.starts = @ + 1]
           scheduled == [starts EXCEPT !.conv = NoConv,
                           !.scheduled = [user |-> greetd.conv.user,
                                          session |-> flow.selection]]
           spent == [flow EXCEPT !.authenticated = FALSE] IN
       \/ /\ Kept /\ greetd.conv.stage = "ready" /\ greetd' = scheduled
          /\ flow' = NoFlow /\ Reply("success")
       \/ /\ Kept /\ greetd' = [starts EXCEPT !.conv.stage = "failed"]
          /\ flow' = spent /\ ResetThen("error")
       \/ /\ Loses /\ flow' = spent /\ ResetThen("failure")
          /\ \/ UNCHANGED greetd
             \/ greetd.conv.stage = "ready" /\ greetd' = scheduled
    /\ UNCHANGED <<ui, lastUser>>

-----------------------------------------------------------------------------
\* The replies come back as idle callbacks, after the one of the start.
Replied(then) == job.stage = "reply" /\ job.then = then /\ ~ui.idle
Thawed == [ui EXCEPT !.busy = FALSE]

\* handle_reply: a prompt
HandleMessage ==
    /\ Replied("message")
    /\ ui' = [Thawed EXCEPT !.shown = flow.pending]
    /\ job' = NoJob
    /\ UNCHANGED <<flow, greetd, lastUser, lost>>

\* save_last_user, whose failure is passed over.
Remember(name) == lastUser' \in {lastUser, name}

\* Mistake: the screen forgets that it has asked for the session.
HandleSuccessAgain ==
    /\ Replied("success")
    /\ ui' = [ui EXCEPT !.startCalled = TRUE]
    /\ Perform("start", Nothing, flow.selection, Nothing)
    /\ UNCHANGED <<flow, greetd, lastUser, lost>>

\* Mistake: the selector's entry is remembered, "Autre utilisateur" included.
HandleSuccessShown ==
    /\ Replied("success")
    /\ IF ui.startCalled
       THEN /\ ui' = [Thawed EXCEPT !.quit = TRUE]
            /\ job' = NoJob
            /\ Remember(ui.account)
       ELSE /\ ui' = [ui EXCEPT !.startCalled = TRUE, !.shown = Nothing]
            /\ Perform("start", Nothing, flow.selection, Nothing)
            /\ UNCHANGED lastUser
    /\ UNCHANGED <<flow, greetd, lost>>

\* handle_reply: authenticated, then started.
HandleSuccess ==
    /\ Replied("success")
    /\ IF ui.startCalled
       THEN /\ ui' = [Thawed EXCEPT !.quit = TRUE]
            /\ job' = NoJob
            /\ Remember(ui.currentUser)
       ELSE /\ ui' = [ui EXCEPT !.startCalled = TRUE, !.shown = Nothing]
            /\ Perform("start", Nothing, flow.selection, Nothing)
            /\ UNCHANGED lastUser
    /\ UNCHANGED <<flow, greetd, lost>>

\* Mistake: a failure of the worker leaves the controls frozen.
HandleRefusalFrozen ==
    /\ Replied("error") \/ Replied("reset")
    /\ ui' = IF job.then = "reset" THEN Thawed
             ELSE [Thawed EXCEPT !.startCalled = FALSE, !.entry = Nothing,
                                 !.shown = Nothing]
    /\ job' = NoJob
    /\ UNCHANGED <<flow, greetd, lastUser, lost>>

\* handle_reply: refused, handle_failure: no answer; and the reply to a reset.
HandleRefusal ==
    /\ Replied("error") \/ Replied("failure") \/ Replied("reset")
    /\ ui' = IF job.then = "reset" THEN Thawed
             ELSE [Thawed EXCEPT !.startCalled = FALSE, !.entry = Nothing,
                                 !.shown = Nothing]
    /\ flow' = IF job.then = "failure" THEN NoFlow ELSE flow
    /\ job' = NoJob
    /\ UNCHANGED <<greetd, lastUser, lost>>

Worker == Cancel \/ Create \/ Answer \/ Start
Handler == HandleMessage \/ HandleSuccess \/ HandleRefusal
GreeterNext ==
    \/ Choose \/ TypeName \/ TypeAnswer \/ OpenSelected \/ Submit
    \/ Worker \/ Handler

\* The worker's requests end after 10 s at the latest, the main loop runs its
\* idle callbacks.  Nobody has to touch the screen.
GreeterFairness == WF_gvars(Worker) /\ WF_gvars(OpenSelected \/ Handler)
GreeterSpec == GreeterInit /\ [][GreeterNext]_gvars /\ GreeterFairness

-----------------------------------------------------------------------------
\* An answer reaches the conversation of the account on the screen, and the
\* very prompt under which it was typed (submit, AuthFlow.answer).
AnswerToItsPrompt ==
    (job.stage = "answer" /\ job.value # Nothing) =>
        /\ greetd.conv.prompt = job.value
        /\ greetd.conv.user = Username

\* A session is asked for once per authentication, for the account and the
\* session on the screen; the account remembered is the one that started.
StartsAsShown ==
    /\ greetd.starts <= greetd.auths
    /\ job.stage = "start" =>
         greetd.conv.user = Username /\ flow.selection = ui.session
    /\ lastUser # Nothing => greetd.scheduled # Nothing
                             /\ greetd.scheduled.user = lastUser

\* The frozen controls come back, or the greeter leaves (perform, handle_reply,
\* handle_failure): a lost reply never leaves the screen dead.
Thaws == ui.busy ~> ~ui.busy
=============================================================================
