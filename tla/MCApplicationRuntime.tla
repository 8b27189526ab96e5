------------------------ MODULE MCApplicationRuntime ------------------------
(* The records of the application runtime and of hosted capabilities.  Their *)
(* services share no row but the run a task is bound to, so one behaviour    *)
(* exercises one of them: a run and the task it is handed off to, one run    *)
(* under several operators, the trigger inbox, an asynchronous job, or one    *)
(* of the experiences.                                                       *)
EXTENDS HumanTask, Sequences, TLC

CONSTANTS p1, p2, c1, c2, s1, u1, u2, r1, r2, t1, e1, j1

VARIABLES
  part,                                 \* the component this behaviour is about
  inboxClock, inboxAhead, inbox, inboxCall, receipts, held, done,
  jobClock, jobAhead, jobs, jobCall, acked,
  sessions, active, screen, notifying, webDisposed, stack, webHeard, portCalled,
  view, current, pending, unfinished, ended, size, actions,
  hostAt, pushes, adapterAt, fault, adapterEnded, core, nativeView, generation, nativeEnded,
  flight, painted, issue, surfaceEnded, past,
  lifecycle, disposed, listeners, telling, heard, kept, lives,
  mounted, resolving, resolverCalls, resolverEnded

-----------------------------------------------------------------------------
(* Experiences: an instance of the web SDK, a published studio experience, and *)
(* on iOS an experience and the session of its application.                    *)

Change(op, bucket, at, value) == [op |-> op, bucket |-> bucket, at |-> at, value |-> value]
Appending == <<Change("append", "required", 0, "x")>>
Decides == <<[id |-> "crm.save", effect |-> "allow"], [id |-> "crm.pay", effect |-> "confirm"],
             [id |-> "runtime.lifecycle.transition", effect |-> "allow"],
             [id |-> "runtime.patch.apply", effect |-> "allow"]>>
OnePlan == [required |-> <<"z">>, available |-> <<>>, future |-> <<>>]

Save == [type |-> "crm.save"]
Pay  == [type |-> "crm.pay"]
End  == [type |-> "runtime.lifecycle.transition", target |-> "cancelled"]
Grow == [type |-> "runtime.patch.apply", patch |-> Appending]
On(v, event, action, routes) == [view |-> v, event |-> event, action |-> action, routes |-> routes]

Web == INSTANCE WebSdk WITH
  Action <- {Save, End}, Rules <- Decides, FirstPlan <- OnePlan,
  Patch <- {Appending,
            <<Change("append", "future", 0, "y"), Change("remove", "required", 1, "x")>>,
            <<Change("append", "required", 0, "x"), Change("append", "available", 0, "x")>>},
  MaxSessions <- 2, MaxDepth <- 2, MaxHeard <- 4,
  MaxCapabilities <- 2, MaxSafe <- 3, disposed <- webDisposed, heard <- webHeard

Node(id, parent, order, source) == [id |-> id, parent |-> parent, order |-> order, source |-> source]
Views == [list |-> {Node("page", "$root", 0, "none"), Node("row", "page", 1, "data"),
                    Node("foot", "page", 2, "none"), Node("cell", "row", 0, "data"),
                    Node("more", "row", 1, "none")},
          item |-> {Node("card", "$root", 0, "data"), Node("part", "card", 0, "data"),
                    Node("bit", "part", 0, "data")}]

StudioSession == INSTANCE StudioRuntimeSession WITH
  View <- Views, EntryView <- "list", Rules <- Decides, FirstPlan <- OnePlan,
  Interaction <- {On("list", "open", Save, [success |-> "item"]),
                  On("list", "pay", Pay, [success |-> "item", error |-> "list"]),
                  On("item", "end", End, [empty |-> "list"])},
  Patch <- {Appending}, Size <- {0, 2, 3}, MaxRepeat <- 2, MaxNodes <- 12, MaxDispatches <- 3,
  MaxDepth <- 2,
  MaxCapabilities <- 2, MaxSafe <- 3

Native == INSTANCE NativeExperience WITH
  View <- {"list", "item", "oops"}, EntryView <- "list", Rules <- Decides, FirstPlan <- OnePlan,
  Interaction <- {On("list", "open", Save, [success |-> "item", error |-> "oops"]),
                  On("list", "pay", Pay, [success |-> "item"]),
                  On("list", "grow", Grow, [success |-> "item"]),
                  On("item", "end", End, [success |-> "list"]),
                  On("oops", "again", Save, [success |-> "list"])},
  MaxHost <- 2, MaxGeneration <- 2, MaxCapabilities <- 2, MaxSafe <- 2,
  held <- adapterAt, view <- nativeView, ended <- nativeEnded

App == INSTANCE NativeSession WITH
  Listener <- {"x", "y"}, Thread <- {"s", "t"}, MaxRevision <- 2, MaxLives <- 1, MaxSafe <- 3,
  state <- lifecycle

Art(id, role, mediaType) == [id |-> id, role |-> role, mediaType |-> mediaType]
Pack(id) ==
  [id |-> id, version |-> 1, namespace |-> "p", publisher |-> "p", tags |-> <<>>, words |-> {},
   min |-> 1, max |-> Nil, entrypoints |-> <<"home">>,
   artifacts |-> <<Art("home", "studio-publication", "application/json"), Art("logo", "asset", "image/png")>>]
WebHost == [platform |-> "web", implementations |-> <<"v.a", "v.b">>, capabilities |-> <<"c">>]
Deployed(deployment, id, entrypoint) ==
  [deployment |-> deployment, id |-> id, version |-> 1, entrypoint |-> entrypoint]

Resolver == INSTANCE ExperienceResolver WITH
  Refused <- Nil, Missing <- Nil, MaxArtifacts <- 2, MaxEntrypoints <- 1, MaxManifests <- 3,
  MaxListings <- 2, MaxMatches <- 2, MaxImplementations <- 2, MaxCapabilities <- 2, MaxInstances <- 2,
  Call <- {p1, p2, "c"}, Instance <- {"i", "j", "k"}, Deployment <- {"d"}, Registry <- <<Pack(1), Pack(2)>>,
  Host <- WebHost,
  Target <- {Nil, Deployed("d", 1, "home"), Deployed("other", 1, "home"), Deployed("d", 2, "logo"),
             Deployed("d", 3, "home")},
  Requirement <- {Nil, [WebHost EXCEPT !.implementations = <<"v.b">>], [WebHost EXCEPT !.platform = "ios"],
                  [WebHost EXCEPT !.capabilities = <<"c", "c">>]},
  pending <- resolving, calls <- resolverCalls, disposed <- resolverEnded

webVars     == <<sessions, active, screen, notifying, webDisposed, stack, webHeard, portCalled>>
studioRun   == <<view, current, pending, unfinished, ended, size, actions>>
nativeRun   == <<hostAt, pushes, adapterAt, fault, adapterEnded, core, nativeView, generation,
                 nativeEnded, flight, painted, issue, surfaceEnded, past>>
appVars     == <<lifecycle, disposed, listeners, telling, heard, kept, lives>>
resolverVars == <<mounted, resolving, resolverCalls, resolverEnded>>
experienceVars == <<webVars, studioRun, nativeRun, appVars, resolverVars>>

Experience == {"web", "studio-session", "native", "native-session", "resolver"}

\* What a behaviour is not about begins where one of its behaviours begins.
ExperienceInit ==
  /\ Web!Init
  /\ StudioSession!Init
  /\ Native!Init
  /\ App!Init
  /\ Resolver!Init
  /\ part # "studio-session" => size = 0
  /\ part # "native" => core.lifecycle = "active"
  /\ part # "native-session" => lifecycle.visibility = "foreground"

ExperienceNext ==
  \/ part = "web"            /\ Web!Next           /\ UNCHANGED <<studioRun, nativeRun, appVars, resolverVars>>
  \/ part = "studio-session" /\ StudioSession!Next /\ UNCHANGED <<webVars, nativeRun, appVars, resolverVars>>
  \/ part = "native"         /\ Native!Next        /\ UNCHANGED <<webVars, studioRun, appVars, resolverVars>>
  \/ part = "native-session" /\ App!Next           /\ UNCHANGED <<webVars, studioRun, nativeRun, resolverVars>>
  \/ part = "resolver"       /\ Resolver!Next      /\ UNCHANGED <<webVars, studioRun, nativeRun, appVars>>

ExperienceTypesOK ==
  CASE part = "web"            -> Web!TypeOK
    [] part = "studio-session" -> StudioSession!TypeOK
    [] part = "native"         -> Native!TypeOK
    [] part = "native-session" -> App!TypeOK
    [] part = "resolver"       -> Resolver!TypeOK

-----------------------------------------------------------------------------
Here     == [x \in Resolution |-> IF x = "foreign" THEN "elsewhere" ELSE Scope]
OneFlow  == [x \in Resolution |-> IF x = "bare" THEN {} ELSE {"main"}]
Handoff  == [id |-> "handoff", kind |-> "human-task", reference |-> t1]
EitherWait == {Handoff, [id |-> "reply", kind |-> "event", reference |-> e1]}
NoSkew   == [p \in Caller |-> 0]
Timings  == {[escalateAt |-> 0, expiresAt |-> 2], [escalateAt |-> 1, expiresAt |-> 2]}

InboxScope == [b \in {"b1", "b2", "foreign"} |-> IF b = "foreign" THEN "elsewhere" ELSE Scope]

Webhook(digest, outcome) ==
  [id |-> "c1", digest |-> digest, source |-> "webhook", outcome |-> outcome]
Authorities == {[connection |-> "k1", validUntil |-> 2], [connection |-> "k2", validUntil |-> 9]}

Inbox == INSTANCE TriggerInbox WITH
  Sender <- {s1}, Worker <- {p1, p2}, Event <- {e1}, Binding <- DOMAIN InboxScope,
  BindingScope <- InboxScope, Declared <- DOMAIN InboxScope, Pinned <- DOMAIN InboxScope,
  RunId <- {r1, r2}, ReplayWindow <- 1, AllowedSkew <- 1, Lease <- 2,
  clock <- inboxClock, ahead <- inboxAhead, call <- inboxCall, MaxTime <- 2, MaxSkew <- 1

Jobs == INSTANCE HostedCapabilityJob WITH
  JobId <- {j1}, Connection <- {"k1", "k2"}, Authority <- Authorities, Mode <- {"webhook"},
  Answer <- {Webhook("x", "success"), Webhook("y", "error")},
  clock <- jobClock, ahead <- jobAhead, call <- jobCall, MaxRevision <- 3, MaxTime <- 3, MaxSkew <- 1

ASSUME Inbox!InboxConstants
ASSUME Jobs!JobConstants
ASSUME Native!CoreConstants

inboxVars == <<inboxClock, inboxAhead, inbox, inboxCall, receipts, held, done>>
jobVars   == <<jobClock, jobAhead, jobs, jobCall, acked>>
allVars   == <<part, vars, inboxVars, jobVars, experienceVars>>

MCInit ==
  /\ part \in {"handoff", "operators", "inbox", "job"} \cup Experience
  /\ Init
  /\ Inbox!Init
  /\ part # "inbox" => inboxAhead = [p \in Inbox!Party |-> 0]
  /\ Jobs!Init
  /\ \E p \in Caller : jobAhead[p] = 0
  /\ part # "job" => jobAhead = [p \in Caller |-> 0]
  /\ ExperienceInit

\* Bound: beside a task one caller uses the run, which has three revisions and
\* waits for the task.
HandoffBound ==
  \A c \in RunCaller : runCall[c] # Nil =>
    /\ c = c1
    /\ runCall[c].next.revision <= 3 /\ runCall[c].next.wait \in {Handoff, Nil}

\* Bound: who asks about a job knows its revision, until the row moves on; and time
\* stops one unit earlier where the callers' clocks differ.
JobBound ==
  /\ \A p \in Caller : jobCall'[p] # jobCall[p] /\ jobCall'[p] # Nil /\ jobCall'[p].step = "asked"
       => jobCall'[p].expected = jobs[jobCall'[p].job].revision
  /\ Jobs!ClocksAgree \/ jobClock' < 3

MCNext ==
  \/ /\ part = "handoff" /\ Next /\ HandoffBound'
     /\ UNCHANGED <<part, inboxVars, jobVars, experienceVars>>
  \/ /\ part = "operators" /\ RunNext
     /\ UNCHANGED <<part, taskVars, inboxVars, jobVars, experienceVars>>
  \/ /\ part = "inbox" /\ Inbox!Next
     /\ UNCHANGED <<part, vars, jobVars, experienceVars>>
  \/ /\ part = "job" /\ Jobs!Next /\ JobBound
     /\ UNCHANGED <<part, vars, inboxVars, experienceVars>>
  \/ /\ ExperienceNext
     /\ UNCHANGED <<part, vars, inboxVars, jobVars>>

MCSpec == MCInit /\ [][MCNext]_allVars

\* The callers and the workers of a service are interchangeable, and so are users.
Interchangeable == Permutations({p1, p2}) \cup Permutations({u1, u2})

-----------------------------------------------------------------------------
\* Types of the components.
AllTypesOK ==
  CASE part = "handoff"   -> TypeOK
    [] part = "operators" -> RunTypeOK
    [] part = "inbox"     -> Inbox!TypeOK
    [] part = "job"       -> Jobs!TypeOK
    [] OTHER              -> ExperienceTypesOK

\* What sources that deliver again and workers that take over may do to one
\* event (TriggerInbox).
EventsAreSound == part = "inbox" => Inbox!EventsAreSound

\* What completions, cancellations and timeouts may do to one job: it has one
\* result whatever the clocks, and on clocks that agree no caller is told so late
\* that its write is refused as out of order (HostedCapabilityJob).
JobsAreSound == part = "job" => Jobs!JobsAreSound

\* What a person sees is what the runtime has, whatever the host calls from its
\* callbacks, answers late or pushes out of order: the web has its active experience
\* on the screen and tells of its changes in their order (WebSdk); an outcome meets
\* the view its action came from (StudioRuntimeSession, NativeExperience); a repeated
\* view is a tree; the native runtime makes of an action and of a session event what
\* the web's makes of it (NativeExperience, NativeSession); and what is mounted is
\* what was asked for and published (ExperienceResolver).  Two callbacks are
\* exceptions that the modules name: a DOM port that mounts or disposes while it
\* mounts, and an id factory that dispatches, whose host is answered the later action.
ExperiencesAreSound ==
  /\ part = "web" => Web!ScreenIsActive /\ Web!ChangesAreHeardInOrder
  /\ part = "studio-session" => StudioSession!OutcomeMeetsItsView /\ StudioSession!ViewIsATree
  /\ part = "native" =>
       Native!ScreenIsCurrent /\ Native!OutcomeIsTheHosts /\ Native!CoreAgreesWithWeb
  /\ part = "native-session" =>
       App!ListenersHearTheChanges /\ App!RestoredStaysUnverified /\ App!SessionAgreesWithWeb
  /\ part = "resolver" => Resolver!ReservationsAreCalls /\ Resolver!MountedIsPublished

\* What has ended stays as it ended: a wait that was consumed, a task that was
\* closed, a job that is terminal.  No change of an experience is lost to one
\* computed before it, and no screen goes back.
EndsAreFinal ==
  /\ WaitIsConsumedByResume
  /\ ClosedIsFinal
  /\ Jobs!EndedIsFinal
  /\ Web!NoChangeIsLost
  /\ Native!ScreenNeverGoesBack
=============================================================================
