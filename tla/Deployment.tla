---------------------------- MODULE Deployment ----------------------------
(***************************************************************************)
(* One server process after another on the same machine, each launched     *)
(* with settings of its own: what run() of cmd/server/main.go does from    *)
(* config.Load to its return, which storage it ends up with, and what      *)
(* becomes of the updates in the table and in the snapshot files.          *)
(*                                                                         *)
(* An update is whole here and can be encoded.  The saves of the handlers  *)
(* in synchronous mode and the last one copy memory and rename the file in *)
(* two steps, in any order: they hold no common lock.  The ticker, which   *)
(* saves alone and has ended before the last save, does so in one: what    *)
(* may come between is the subject of SnapshotServer, which implements     *)
(* that checkpoint (SnapshotStore).  What a statement of PostgreSQL may do *)
(* is the subject of PostgresStore.  The audit delivers what Notify has    *)
(* queued (AuditSubject), here: events.                                    *)
(*                                                                         *)
(* The disk works; the database, the ports and the files with keys and     *)
(* certificates may be missing.                                            *)
(***************************************************************************)
EXTENDS Config, FiniteSets

CONSTANTS
  Launches,     \* what a server may find when it starts: see Config
  Paths,        \* snapshot files
  Table,        \* the table of PostgreSQL
  Updates,      \* updates clients may send, each once
  GrpcUpdates,  \* those that come over gRPC
  NoLaunch,
  Main,         \* the goroutine of main, which saves last
  MaxLaunches   \* bound: starts of a server

Homes == Paths \cup {Table}

ASSUME DeploymentAssumption ==
  /\ Table \notin Paths
  /\ Blank \notin Homes
  /\ DefaultPath \in Paths
  /\ GrpcUpdates \subseteq Updates
  /\ Main \notin Updates
  /\ MaxLaunches \in Nat

\* Every launch that can be loaded names a file this module knows of.
ASSUME LaunchAssumption ==
  \A l \in Launches : ~LoadFails(l) => ServerConfig(l).path \in Paths \cup {Blank}

\* The interval is a number wherever it can be parsed.
ASSUME IntervalAssumption ==
  /\ \A l \in Launches : "storeInterval" \in DOMAIN l.flags =>
       l.flags["storeInterval"] \in Int \cup {Bad}
  /\ \A l \in Launches : "storeInterval" \in DOMAIN l.env =>
       l.env["storeInterval"] \in Int \cup {Bad, Blank}
  /\ \A l \in Launches : ~LoadFails(l) /\ "storeInterval" \in DOMAIN File(l) =>
       FromFile(File(l))["storeInterval"] \in Int

VARIABLES
  launches,   \* starts so far
  launch,     \* what the server found, until it has loaded its settings
  stage,      \* where run() is
  cfg,        \* its settings
  db,         \* whether it has a pool of connections to PostgreSQL
  repo,       \* the storage it has chosen
  mem,        \* MemStorage
  auditor,    \* nil, open or closed
  listening,  \* transports that take requests
  handler,    \* where the handler of each update is
  copy,       \* what each handler, and main, have read of mem to save it
  overtaken,  \* history: updates written while an older copy was on its way to the file
  gaveUp,     \* whether a drain has given up waiting for handlers
  stored,     \* what the table and the files hold
  answered,   \* history: updates this server has answered with success
  events,     \* history: updates its auditor has queued for the observers
  promised    \* history: what the table and the files are to keep

config  == <<launches, launch, cfg>>
history == <<answered, events, promised>>
memory  == <<mem, copy, overtaken>>
vars == <<launches, launch, stage, cfg, db, repo, mem, auditor, listening, handler, copy,
          overtaken, gaveUp, stored, answered, events, promised>>

Starting == {"loaded", "database", "storage", "audit", "key", "grpc", "http"}
Stages   == Starting \cup {"down", "failed", "serving", "drainHttp", "drainGrpc",
                           "saving", "renaming", "closing", "leaving", "exited"}
Up       == stage \notin {"down", "failed", "exited"}
Serving  == listening # {}

\* memSt is nil with PostgreSQL, and there is no ticker without a path.
InMemory  == repo \in {"sync", "periodic", "memory"}

\* Where this server is to keep updates, if anywhere.
Home == IF repo = "postgres" THEN {Table}
        ELSE IF InMemory /\ cfg.path # Blank THEN {cfg.path}
        ELSE {}

Transport(u) == IF u \in GrpcUpdates THEN "grpc" ELSE "http"
InFlight     == {u \in Updates : handler[u] \in {"received", "written", "copied", "applied"}}

\* Copies of memory that no rename has put in the file yet.
Pending == {u \in Updates : handler[u] = "copied"}
             \cup (IF stage = "renaming" THEN {Main} ELSE {})

TypeOK ==
  /\ launches \in 0 .. MaxLaunches
  /\ launch \in Launches \cup {NoLaunch}
  /\ stage \in Stages
  /\ DOMAIN cfg = DOMAIN ServerDefaults
  /\ cfg.path \in Paths \cup {Blank} /\ cfg.storeInterval \in Int
  /\ db \in BOOLEAN
  /\ repo \in {"none", "postgres", "sync", "periodic", "memory"}
  /\ mem \subseteq Updates
  /\ auditor \in {"nil", "open", "closed"}
  /\ listening \subseteq {"http", "grpc"}
  /\ handler \in [Updates -> {"idle", "received", "written", "copied", "applied", "done", "lost"}]
  /\ copy \in [Updates \cup {Main} -> SUBSET Updates]
  /\ overtaken \subseteq Updates
  /\ gaveUp \in BOOLEAN
  /\ stored \in [Homes -> SUBSET Updates]
  /\ answered \subseteq Updates /\ events \subseteq Updates
  /\ promised \in [Homes -> SUBSET Updates]
  /\ Up /\ stage \in {"loaded", "database", "storage"} => repo = "none"
  /\ stage \in {"loaded", "database"} => ~db

Init ==
  /\ launches = 0 /\ launch = NoLaunch
  /\ stage = "down"
  /\ cfg = ServerDefaults
  /\ db = FALSE /\ repo = "none" /\ mem = {} /\ auditor = "nil" /\ listening = {}
  /\ handler = [u \in Updates |-> "idle"]
  /\ copy = [s \in Updates \cup {Main} |-> {}] /\ overtaken = {}
  /\ gaveUp = FALSE
  /\ stored = [h \in Homes |-> {}]
  /\ answered = {} /\ events = {} /\ promised = [h \in Homes |-> {}]

-----------------------------------------------------------------------------
(* The start *)

\* The end of a process: nobody answers the requests it was handling.
Dies ==
  /\ listening' = {}
  /\ handler' = [u \in Updates |-> IF u \in InFlight THEN "lost" ELSE handler[u]]
  /\ mem' = {} /\ db' = FALSE /\ repo' = "none"
  /\ copy' = [s \in Updates \cup {Main} |-> {}] /\ overtaken' = {}

\* run() returns an error: its deferred calls, then exit(1).
StartFails ==
  /\ stage' = "failed"
  /\ auditor' = IF auditor = "open" THEN "closed" ELSE auditor
  /\ Dies
  /\ UNCHANGED <<config, gaveUp, stored, history>>

Goes(next) == stage' = next

Launch(l) ==
  /\ ~Up
  /\ launches < MaxLaunches
  /\ launches' = launches + 1
  /\ launch' = l
  /\ IF LoadFails(l)
     THEN /\ Goes("failed")
          /\ UNCHANGED cfg
     ELSE /\ Goes("loaded")
          /\ cfg' = ServerConfig(l)
  /\ auditor' = "nil" /\ gaveUp' = FALSE /\ answered' = {} /\ events' = {}
  /\ UNCHANGED <<db, repo, memory, listening, handler, stored, promised>>

\* Any text but the empty one may be no subnet.
CheckSubnet ==
  /\ stage = "loaded"
  /\ \/ /\ Goes("database")
        /\ launch' = NoLaunch
        /\ UNCHANGED <<launches, cfg, db, repo, memory, auditor, listening, handler, gaveUp,
                       stored, history>>
     \/ cfg.subnet # Blank /\ StartFails

\* A database that does not answer in time is logged and done without.
ConnectDatabase ==
  /\ stage = "database"
  /\ Goes("storage")
  /\ db' \in IF cfg.dsn = Blank THEN {FALSE} ELSE BOOLEAN
  /\ UNCHANGED <<config, repo, memory, auditor, listening, handler, gaveUp, stored, history>>

UsePostgres ==
  /\ stage = "storage"
  /\ db
  /\ repo' = "postgres"
  /\ Goes("audit")
  /\ UNCHANGED <<config, db, memory, auditor, listening, handler, gaveUp, stored, history>>

\* RestoreIfNeeded; a missing file is an empty one.
Restored == IF cfg.restore /\ cfg.path # Blank THEN stored[cfg.path] ELSE {}

\* A negative interval counts as periodic, but its goroutine returns at once.
Mode == IF cfg.path = Blank THEN "memory"
        ELSE IF cfg.storeInterval = 0 THEN "sync" ELSE "periodic"

\* Without a database, or one whose schema cannot be migrated.  Who starts
\* without -r gives up what the file holds.
UseMemory ==
  /\ stage = "storage"
  /\ mem' = Restored
  /\ repo' = Mode
  /\ promised' = IF cfg.restore \/ cfg.path = Blank THEN promised
                 ELSE [promised EXCEPT ![cfg.path] = {}]
  /\ Goes("audit")
  /\ UNCHANGED <<config, db, auditor, listening, handler, copy, overtaken, gaveUp, stored,
                 answered, events>>

Audited == cfg.auditFile # Blank \/ cfg.auditUrl # Blank

\* newAuditor; without a URL, a file that cannot be opened leaves no observer.
OpenAudit ==
  /\ stage = "audit"
  /\ Goes("key")
  /\ auditor' \in IF ~Audited THEN {"nil"}
                  ELSE IF cfg.auditUrl # Blank THEN {"open"} ELSE {"open", "nil"}
  /\ UNCHANGED <<config, db, repo, memory, listening, handler, gaveUp, stored, history>>

LoadKey ==
  /\ stage = "key"
  /\ \/ /\ Goes("grpc")
        /\ UNCHANGED <<config, db, repo, memory, auditor, listening, handler, gaveUp, stored,
                       history>>
     \/ cfg.cryptoKey # Blank /\ StartFails

\* ServerCredentials: both files, or neither for a certificate of its own.
CertificateRefused == (cfg.cert = Blank) # (cfg.grpcKey = Blank)

\* net.Listen, ServerCredentials, Serve in a goroutine.
ListenGrpc ==
  /\ stage = "grpc"
  /\ \/ /\ cfg.grpc = Blank \/ ~CertificateRefused
        /\ Goes("http")
        /\ listening' = IF cfg.grpc = Blank THEN {} ELSE {"grpc"}
        /\ UNCHANGED <<config, db, repo, memory, auditor, handler, gaveUp, stored, history>>
     \/ cfg.grpc # Blank /\ StartFails      \* the address, or the files

ListenHttp ==
  /\ stage = "http"
  /\ Goes("serving")
  /\ listening' = listening \cup {"http"}
  /\ UNCHANGED <<config, db, repo, memory, auditor, handler, gaveUp, stored, history>>

\* ListenAndServe fails: that is only logged, and run() goes on to its end.
HttpRefused ==
  /\ stage = "http"
  /\ Goes("drainGrpc")
  /\ listening' = {}
  /\ UNCHANGED <<config, db, repo, memory, auditor, handler, gaveUp, stored, history>>

-----------------------------------------------------------------------------
(* Updates *)

Accept(u) ==
  /\ handler[u] = "idle"
  /\ Transport(u) \in listening
  /\ handler' = [handler EXCEPT ![u] = "received"]
  /\ UNCHANGED <<config, stage, db, repo, memory, auditor, listening, gaveUp, stored, history>>

\* The storage takes the update; in synchronous mode the file is to take it too.
Apply(u) ==
  /\ handler[u] = "received"
  /\ handler' = [handler EXCEPT ![u] = IF repo = "sync" THEN "written" ELSE "applied"]
  /\ mem' = IF InMemory THEN mem \cup {u} ELSE mem
  /\ overtaken' = IF Pending # {} THEN overtaken \cup {u} ELSE overtaken
  /\ stored' = IF repo = "postgres" THEN [stored EXCEPT ![Table] = @ \cup {u}] ELSE stored
  /\ UNCHANGED <<config, stage, db, repo, auditor, listening, copy, gaveUp, history>>

\* SaveSnapshot of a handler: it reads memory,
CopyMemory(u) ==
  /\ handler[u] = "written"
  /\ handler' = [handler EXCEPT ![u] = "copied"]
  /\ copy' = [copy EXCEPT ![u] = mem]
  /\ UNCHANGED <<config, stage, db, repo, mem, auditor, listening, overtaken, gaveUp, stored,
                 history>>

\* and then renames its temporary file to the snapshot.
Rename(u) ==
  /\ handler[u] = "copied"
  /\ handler' = [handler EXCEPT ![u] = "applied"]
  /\ stored' = [stored EXCEPT ![cfg.path] = copy[u]]
  /\ copy' = [copy EXCEPT ![u] = {}]
  /\ UNCHANGED <<config, stage, db, repo, mem, auditor, listening, overtaken, gaveUp, history>>

\* The answer to a call that outlived Stop does not arrive.
Connected(u) == Transport(u) = "http" \/ stage \notin {"saving", "renaming", "closing", "leaving"}

\* Where an update is to stay once it is answered: a synchronous handler whose save an
\* older copy may undo has no claim to it.
Durable(u) == IF repo = "postgres" \/ (repo = "sync" /\ u \notin overtaken) THEN Home ELSE {}

\* Notify, then the answer.
Answer(u) ==
  /\ handler[u] = "applied"
  /\ events' = IF auditor = "open" THEN events \cup {u} ELSE events
  /\ IF Connected(u)
     THEN /\ handler' = [handler EXCEPT ![u] = "done"]
          /\ answered' = answered \cup {u}
          /\ promised' = [h \in Homes |-> IF h \in Durable(u) THEN promised[h] \cup {u}
                                          ELSE promised[h]]
     ELSE /\ handler' = [handler EXCEPT ![u] = "lost"]
          /\ UNCHANGED <<answered, promised>>
  /\ overtaken' = overtaken \ {u}
  /\ UNCHANGED <<config, stage, db, repo, mem, auditor, listening, copy, gaveUp, stored>>

\* A snapshot nobody overwrites: from now on the file is to keep what it holds.
Save(held) ==
  /\ stored' = [stored EXCEPT ![cfg.path] = held]
  /\ promised' = [promised EXCEPT ![cfg.path] = @ \cup held]

\* The ticker runs from the choice of the storage to stopSave().
Tick ==
  /\ repo = "periodic" /\ cfg.storeInterval > 0
  /\ stage \notin {"saving", "renaming", "closing", "leaving"}
  /\ Save(mem)
  /\ UNCHANGED <<config, stage, db, repo, memory, auditor, listening, handler, gaveUp, answered,
                 events>>

-----------------------------------------------------------------------------
(* The end *)

\* Mutant of Signal: the auditor is closed with the listener.
SignalClosesAuditor ==
  /\ stage = "serving"
  /\ Goes("drainHttp")
  /\ listening' = listening \ {"http"}
  /\ auditor' = IF auditor = "open" THEN "closed" ELSE auditor
  /\ UNCHANGED <<config, db, repo, memory, handler, gaveUp, stored, history>>

\* Before NotifyContext a signal ends the process as it ends any other: Crash.
Signal ==
  /\ stage = "serving"
  /\ Goes("drainHttp")
  /\ listening' = listening \ {"http"}
  /\ UNCHANGED <<config, db, repo, memory, auditor, handler, gaveUp, stored, history>>

Waiting(transport) == {u \in InFlight : Transport(u) = transport}

\* Mutant of MayLeave: the drains have no timeout.
MayLeaveIdle(transport) == Waiting(transport) = {}

\* Either drain ends when its handlers have returned or its time is up.
MayLeave(transport) == TRUE

HttpDrained ==
  /\ stage = "drainHttp"
  /\ MayLeave("http")
  /\ gaveUp' = (gaveUp \/ Waiting("http") # {})
  /\ Goes("drainGrpc")
  /\ listening' = {}
  /\ UNCHANGED <<config, db, repo, memory, auditor, handler, stored, history>>

GrpcDrained ==
  /\ stage = "drainGrpc"
  /\ MayLeave("grpc")
  /\ gaveUp' = (gaveUp \/ Waiting("grpc") # {})
  /\ Goes("saving")
  /\ UNCHANGED <<config, db, repo, memory, auditor, listening, handler, stored, history>>

\* Mutant of HasSnapshot: the last snapshot is taken whatever the storage.
SnapshotAlways == cfg.path # Blank

\* memSt # nil, and SaveSnapshot does nothing without a path.
HasSnapshot == InMemory /\ cfg.path # Blank

NoFinalSave ==
  /\ stage = "saving"
  /\ ~HasSnapshot
  /\ Goes("closing")
  /\ UNCHANGED <<config, db, repo, memory, auditor, listening, handler, gaveUp, stored, history>>

FinalCopy ==
  /\ stage = "saving"
  /\ HasSnapshot
  /\ Goes("renaming")
  /\ copy' = [copy EXCEPT ![Main] = mem]
  /\ UNCHANGED <<config, db, repo, mem, auditor, listening, handler, overtaken, gaveUp, stored,
                 history>>

\* A handler the drains gave up on may hold a copy of its own.
FinalRename ==
  /\ stage = "renaming"
  /\ Goes("closing")
  /\ IF Pending = {Main}
     THEN Save(copy[Main])
     ELSE stored' = [stored EXCEPT ![cfg.path] = copy[Main]] /\ UNCHANGED promised
  /\ copy' = [copy EXCEPT ![Main] = {}]
  /\ UNCHANGED <<config, db, repo, mem, auditor, listening, handler, overtaken, gaveUp, answered,
                 events>>

\* The first of the deferred calls.
CloseAuditor ==
  /\ stage = "closing"
  /\ Goes("leaving")
  /\ auditor' = IF auditor = "open" THEN "closed" ELSE auditor
  /\ UNCHANGED <<config, db, repo, memory, listening, handler, gaveUp, stored, history>>

\* run() has returned.
Exit ==
  /\ stage = "leaving"
  /\ Goes("exited")
  /\ Dies
  /\ UNCHANGED <<config, auditor, gaveUp, stored, history>>

Crash ==
  /\ Up
  /\ Goes("down")
  /\ Dies
  /\ UNCHANGED <<config, auditor, gaveUp, stored, history>>

-----------------------------------------------------------------------------
Terminated == ~Up /\ launches = MaxLaunches /\ UNCHANGED vars

Start == CheckSubnet \/ ConnectDatabase \/ UsePostgres \/ UseMemory \/ OpenAudit \/ LoadKey
           \/ ListenGrpc \/ ListenHttp \/ HttpRefused
End   == HttpDrained \/ GrpcDrained \/ NoFinalSave \/ FinalCopy \/ FinalRename
           \/ CloseAuditor \/ Exit

Next ==
  \/ \E l \in Launches : Launch(l)
  \/ Start
  \/ \E u \in Updates : Accept(u) \/ Apply(u) \/ CopyMemory(u) \/ Rename(u) \/ Answer(u)
  \/ Tick
  \/ Signal
  \/ End
  \/ Crash
  \/ Terminated

Spec == Init /\ [][Next]_vars

\* Only run() itself: every step of it has a timeout of its own or waits for
\* none.  Clients, handlers, signals and crashes are not obliged to anything.
FairSpec == Spec /\ WF_vars(Start) /\ WF_vars(End)
-----------------------------------------------------------------------------
(* Properties *)

\* "defaults < JSON < flags < environment": every setting is what the strongest
\* of the sources that give it says, one source at a time, whatever the others
\* hold.  STORE_FILE stands in for FILE_STORAGE_PATH only where that is not set.
SettingsAsGiven ==
  stage = "loaded" =>
    \A s \in DOMAIN cfg :
      cfg[s] = IF s = "path" /\ "storeFile" \in DOMAIN launch.env
                   /\ "path" \notin DOMAIN launch.env
               THEN launch.env.storeFile
               ELSE Given(ServerDefaults, launch, s)

\* What a client was told is saved in a durable storage, and what the ticker or the
\* last save has put in a snapshot, stays there and is served by every server that
\* uses that storage: across crashes, failed starts, exits, and servers launched with
\* other settings in between, which may use another file, PostgreSQL or none.  Only a
\* server launched without -r on the same file gives it up.  In synchronous mode this
\* is said of an update that was written when no other save was between its copy and
\* its rename, and of a last save no handler's save crosses: SaveSnapshot holds no
\* lock over the two, and the other updates may be lost.
PromisesKept ==
  /\ \A h \in Homes : promised[h] \subseteq stored[h]
  /\ InMemory => \A h \in Home : promised[h] \subseteq mem

\* A server that returns from run() has told its auditor of every update it has
\* answered with success, unless a drain gave up on a handler: the auditor is
\* closed after both transports have drained.  What a handler answers later, in the
\* time the process has left, the auditor drops.
AuditComplete ==
  stage = "exited" /\ auditor # "nil" /\ ~gaveUp => answered \subseteq events

\* A signalled server ends, whatever its handlers and clients do: the drains give
\* up, and the saver and the auditor end by themselves.
ShutdownEnds == stage = "drainHttp" ~> ~Up
=============================================================================
