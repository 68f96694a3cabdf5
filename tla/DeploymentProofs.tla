------------------------- MODULE DeploymentProofs -------------------------
(***************************************************************************)
(* Proofs about Deployment, for any number of launches with any settings,  *)
(* of snapshot files and of updates: the types, what is promised to be     *)
(* saved, what the auditor is told, and the order of precedence of the     *)
(* settings.                                                               *)
(***************************************************************************)
EXTENDS Deployment, TLAPS

-----------------------------------------------------------------------------
(* Settings *)

LEMMA OverlayOK ==
  ASSUME NEW cfg0, NEW given, NEW s \in DOMAIN cfg0
  PROVE  /\ DOMAIN Overlay(cfg0, given) = DOMAIN cfg0
         /\ Overlay(cfg0, given)[s] = IF s \in DOMAIN given THEN given[s] ELSE cfg0[s]
BY DEF Overlay

LEMMA DefaultsOK ==
  /\ "storeInterval" \in DOMAIN ServerDefaults /\ "path" \in DOMAIN ServerDefaults
  /\ ServerDefaults["storeInterval"] \in Int
  /\ ServerDefaults["path"] = DefaultPath
BY DEF ServerDefaults

\* The interval is a number, whichever source gives it.
LEMMA MergedOK ==
  ASSUME NEW l \in Launches, ~LoadFails(l)
  PROVE  /\ DOMAIN Merged(ServerDefaults, l) = DOMAIN ServerDefaults
         /\ Merged(ServerDefaults, l)["storeInterval"] \in Int
<1> DEFINE file  == FromFile(File(l))
           one   == Overlay(ServerDefaults, file)
           two   == Overlay(one, l.flags)
           three == Overlay(two, NonBlank(l.env))
<1>1. DOMAIN one = DOMAIN ServerDefaults /\ one["storeInterval"] \in Int
  <2>1. DOMAIN file = DOMAIN File(l)
    BY DEF FromFile
  <2>2. "storeInterval" \in DOMAIN file => file["storeInterval"] \in Int
    BY <2>1, IntervalAssumption
  <2> QED
    BY <2>2, DefaultsOK, OverlayOK
<1>2. DOMAIN two = DOMAIN ServerDefaults /\ two["storeInterval"] \in Int
  <2>1. "storeInterval" \in DOMAIN l.flags => l.flags["storeInterval"] \in Int
    BY IntervalAssumption DEF LoadFails
  <2> HIDE DEF one
  <2> QED
    BY <1>1, <2>1, DefaultsOK, OverlayOK
<1>3. DOMAIN three = DOMAIN ServerDefaults /\ three["storeInterval"] \in Int
  <2>1. "storeInterval" \in DOMAIN NonBlank(l.env) => NonBlank(l.env)["storeInterval"] \in Int
    BY IntervalAssumption DEF LoadFails, NonBlank
  <2> HIDE DEF two
  <2> QED
    BY <1>2, <2>1, DefaultsOK, OverlayOK
<1> QED
  BY <1>3 DEF Merged

SettingsOK(c) ==
  /\ DOMAIN c = DOMAIN ServerDefaults
  /\ c.path \in Paths \cup {Blank} /\ c.storeInterval \in Int

LEMMA ServerConfigOK ==
  ASSUME NEW l \in Launches, ~LoadFails(l)
  PROVE  SettingsOK(ServerConfig(l))
<1>1. ServerConfig(l).path \in Paths \cup {Blank}
  BY LaunchAssumption
<1> DEFINE merged == Merged(ServerDefaults, l)
<1>2. DOMAIN merged = DOMAIN ServerDefaults /\ merged["storeInterval"] \in Int
  BY MergedOK
<1> HIDE DEF merged
<1>3. \/ ServerConfig(l) = merged
      \/ ServerConfig(l) = [merged EXCEPT !.path = l.env.storeFile]
  BY DEF ServerConfig, ApplyStoreFile, merged
<1>4. ASSUME NEW x
      PROVE  /\ DOMAIN [merged EXCEPT !.path = x] = DOMAIN merged
             /\ [merged EXCEPT !.path = x]["storeInterval"] = merged["storeInterval"]
  BY <1>2, DefaultsOK
<1>5. /\ DOMAIN ServerConfig(l) = DOMAIN ServerDefaults
      /\ ServerConfig(l)["storeInterval"] \in Int
  BY <1>2, <1>3, <1>4
<1> QED
  BY <1>1, <1>5 DEF SettingsOK

-----------------------------------------------------------------------------
(* Types, and what there is before the transports listen *)

\* No process, or one that has not chosen its storage.
Blind == {"down", "failed", "exited", "loaded", "database", "storage"}

\* The storage is chosen once, and before anybody listens.
PhaseInv ==
  /\ repo = "none" <=> stage \in Blind
  /\ stage \in {"down", "failed", "exited"} => ~db
  /\ stage \in Blind \cup {"audit", "key", "grpc"} => listening = {} /\ InFlight = {}

ShapeInv == TypeOK /\ PhaseInv

LEMMA InitShape == Init => ShapeInv
<1> SUFFICES ASSUME Init PROVE ShapeInv
  OBVIOUS
<1>1. SettingsOK(cfg)
  BY DefaultsOK, DeploymentAssumption DEF Init, SettingsOK
<1>2. InFlight = {}
  BY DEF Init, InFlight
<1>3. TypeOK
  <2>1. launches \in 0 .. MaxLaunches
    BY DeploymentAssumption DEF Init
  <2>2. handler \in [Updates -> {"idle", "received", "written", "copied", "applied", "done", "lost"}]
    BY DEF Init
  <2>3. stored \in [Homes -> SUBSET Updates] /\ promised \in [Homes -> SUBSET Updates]
    BY DEF Init
  <2>4. copy \in [Updates \cup {Main} -> SUBSET Updates] /\ overtaken \subseteq Updates
    BY DEF Init
  <2> QED
    BY <1>1, <2>1, <2>2, <2>3, <2>4 DEF Init, TypeOK, SettingsOK, Stages, Starting, Up
<1>4. PhaseInv
  BY <1>2 DEF Init, PhaseInv, Blind
<1> QED
  BY <1>3, <1>4 DEF ShapeInv

LEMMA DiesShape ==
  ASSUME TypeOK, Dies
  PROVE  /\ handler' \in [Updates -> {"idle", "received", "written", "copied", "applied", "done", "lost"}]
         /\ copy' \in [Updates \cup {Main} -> SUBSET Updates] /\ overtaken' = {}
         /\ InFlight' = {}
BY DEF TypeOK, Dies, InFlight

\* A process that ends, however it does, leaves the files and the table alone.
LEMMA EndShape ==
  ASSUME ShapeInv, Dies, stage' \in {"down", "failed", "exited"},
         auditor' \in {"nil", "open", "closed"},
         UNCHANGED <<config, gaveUp, stored, history>>
  PROVE  ShapeInv'
BY DiesShape
   DEF ShapeInv, TypeOK, PhaseInv, Blind, Dies, Stages, Starting, Up, config, history

LEMMA StartFailsShape == ASSUME ShapeInv, StartFails PROVE ShapeInv'
BY EndShape DEF StartFails, ShapeInv, TypeOK

LEMMA NextShape == ShapeInv /\ [Next]_vars => ShapeInv'
<1> SUFFICES ASSUME ShapeInv, [Next]_vars PROVE ShapeInv'
  OBVIOUS
<1> USE DEF ShapeInv, TypeOK, PhaseInv, Blind, Stages, Starting, Up, Goes, config, memory,
            history
<1>1. ASSUME NEW l \in Launches, Launch(l) PROVE ShapeInv'
  <2>1. ~LoadFails(l) => SettingsOK(cfg')
    BY <1>1, ServerConfigOK DEF Launch
  <2>2. InFlight' = InFlight
    BY <1>1 DEF Launch, InFlight
  <2>3. launches' \in 0 .. MaxLaunches
    BY <1>1, DeploymentAssumption DEF Launch
  <2>4. SettingsOK(cfg')
    BY <1>1, <2>1 DEF Launch, SettingsOK
  <2>5. stage' \in {"failed", "loaded"} /\ repo' = "none" /\ ~db'
    BY <1>1 DEF Launch
  <2>6. TypeOK'
    BY <1>1, <2>3, <2>4, <2>5 DEF Launch, SettingsOK
  <2>7. PhaseInv'
    BY <1>1, <2>2, <2>5 DEF Launch
  <2> QED
    BY <2>6, <2>7
<1>2. CASE CheckSubnet \/ LoadKey \/ ListenGrpc
  <2>1. CASE StartFails
    BY <2>1, StartFailsShape
  <2>2. CASE ~StartFails
    <3>1. InFlight' = InFlight
      BY <1>2, <2>2 DEF CheckSubnet, LoadKey, ListenGrpc, InFlight
    <3>2. CASE CheckSubnet
      <4>1. /\ stage = "loaded" /\ stage' = "database" /\ launch' = NoLaunch
            /\ UNCHANGED <<launches, cfg, db, repo, memory, auditor, listening, handler,
                           gaveUp, stored, answered, events, promised>>
        BY <2>2, <3>2 DEF CheckSubnet
      <4> QED
        BY <3>1, <4>1
    <3>3. CASE LoadKey
      BY <2>2, <3>1, <3>3 DEF LoadKey
    <3>4. CASE ListenGrpc
      BY <2>2, <3>4 DEF ListenGrpc
    <3> QED
      BY <1>2, <3>2, <3>3, <3>4
  <2> QED
    BY <2>1, <2>2
<1>3. CASE ConnectDatabase \/ UsePostgres \/ OpenAudit
  <2>1. InFlight' = InFlight
    BY <1>3 DEF ConnectDatabase, UsePostgres, OpenAudit, InFlight
  <2> QED
    BY <1>3, <2>1 DEF ConnectDatabase, UsePostgres, OpenAudit
<1>4. CASE UseMemory
  <2>1. InFlight' = InFlight
    BY <1>4 DEF UseMemory, InFlight
  <2>2. Restored \subseteq Updates
    BY DEF Restored, Homes
  <2>3. repo' \in {"sync", "periodic", "memory"}
    BY <1>4 DEF UseMemory, Mode
  <2>4. promised' \in [Homes -> SUBSET Updates]
    BY <1>4 DEF UseMemory
  <2> QED
    BY <1>4, <2>1, <2>2, <2>3, <2>4 DEF UseMemory
<1>5. CASE ListenHttp \/ HttpRefused
  <2>1. CASE ListenHttp
    BY <2>1 DEF ListenHttp
  <2>2. CASE HttpRefused
    BY <2>2 DEF HttpRefused
  <2> QED
    BY <1>5, <2>1, <2>2
<1>6. ASSUME NEW u \in Updates, Accept(u) PROVE ShapeInv'
  BY <1>6 DEF Accept, Transport
<1>7. ASSUME NEW u \in Updates, Apply(u) \/ CopyMemory(u) \/ Rename(u) PROVE ShapeInv'
  <2>1. InFlight # {}
    BY <1>7 DEF Apply, CopyMemory, Rename, InFlight
  <2>2. mem' \subseteq Updates /\ overtaken' \subseteq Updates
    BY <1>7 DEF Apply, CopyMemory, Rename
  <2>3. copy' \in [Updates \cup {Main} -> SUBSET Updates]
    BY <1>7 DEF Apply, CopyMemory, Rename
  <2>4. stored' \in [Homes -> SUBSET Updates]
    BY <1>7, <2>2 DEF Apply, CopyMemory, Rename
  <2>5. handler' \in [Updates -> {"idle", "received", "written", "copied", "applied", "done",
                                 "lost"}]
    BY <1>7 DEF Apply, CopyMemory, Rename
  <2>6. UNCHANGED <<launches, launch, cfg, stage, db, repo, auditor, listening, gaveUp, answered,
                    events, promised>>
    BY <1>7 DEF Apply, CopyMemory, Rename
  <2> QED
    BY <2>1, <2>2, <2>3, <2>4, <2>5, <2>6
<1>8. ASSUME NEW u \in Updates, Answer(u) PROVE ShapeInv'
  <2>1. InFlight # {}
    BY <1>8 DEF Answer, InFlight
  <2>2. promised' \in [Homes -> SUBSET Updates]
    BY <1>8 DEF Answer
  <2> QED
    BY <1>8, <2>1, <2>2 DEF Answer
<1>9. CASE Tick \/ NoFinalSave \/ FinalCopy \/ FinalRename
  <2>1. InFlight' = InFlight
    BY <1>9 DEF Tick, NoFinalSave, FinalCopy, FinalRename, InFlight
  <2>2. /\ stored' \in [Homes -> SUBSET Updates]
        /\ promised' \in [Homes -> SUBSET Updates]
        /\ copy' \in [Updates \cup {Main} -> SUBSET Updates]
    BY <1>9 DEF Tick, NoFinalSave, FinalCopy, FinalRename, Save
  <2>3. UNCHANGED <<launches, launch, cfg, db, repo, mem, overtaken, auditor, listening, handler,
                    gaveUp, answered, events>>
    BY <1>9 DEF Tick, NoFinalSave, FinalCopy, FinalRename
  <2>4. \/ stage' = stage
        \/ stage \in {"saving", "renaming"} /\ stage' \in {"renaming", "closing"}
    BY <1>9 DEF Tick, NoFinalSave, FinalCopy, FinalRename
  <2> QED
    BY <2>1, <2>2, <2>3, <2>4
<1>10. CASE Signal \/ HttpDrained \/ GrpcDrained \/ CloseAuditor
  <2>1. CASE Signal
    BY <2>1 DEF Signal
  <2>2. CASE HttpDrained
    BY <2>2 DEF HttpDrained
  <2>3. CASE GrpcDrained
    BY <2>3 DEF GrpcDrained
  <2>4. CASE CloseAuditor
    BY <2>4 DEF CloseAuditor
  <2> QED
    BY <1>10, <2>1, <2>2, <2>3, <2>4
<1>11. CASE Exit \/ Crash
  BY <1>11, EndShape DEF Exit, Crash
<1>12. CASE UNCHANGED vars
  BY <1>12 DEF vars, InFlight
<1> QED
  BY <1>1, <1>2, <1>3, <1>4, <1>5, <1>6, <1>7, <1>8, <1>9, <1>10, <1>11, <1>12
     DEF Next, Start, End, Terminated

\* Every reachable state of a server, whatever it is launched with, is well typed.
THEOREM TypeCorrect == Spec => []TypeOK
<1>1. ShapeInv => TypeOK
  BY DEF ShapeInv
<1> QED
  BY <1>1, InitShape, NextShape, PTL DEF Spec

-----------------------------------------------------------------------------
(* What is promised *)

Writing == {"written", "copied", "applied"}

\* Copies are made of memory, for the snapshot: by synchronous handlers, and by main.
CopyInv ==
  /\ \A u \in Updates : handler[u] \in {"written", "copied"} => repo = "sync"
  /\ repo = "sync" => cfg.path # Blank
  /\ stage = "renaming" => HasSnapshot
  /\ \A s \in Pending : copy[s] \subseteq mem

\* What a handler has written is in memory, in the copies still to be renamed unless one
\* of them is older, and once it is applied where it will be promised to be.
WrittenInv ==
  \A u \in Updates :
    /\ handler[u] \in Writing /\ InMemory => u \in mem
    /\ handler[u] \in Writing /\ u \notin overtaken => \A s \in Pending : u \in copy[s]
    /\ handler[u] = "applied" => \A h \in Durable(u) : u \in stored[h]

\* No rename takes back what is promised.
CoveredInv == \A s \in Pending : \A h \in Home : promised[h] \subseteq copy[s]

PromiseInv == PromisesKept /\ CopyInv /\ WrittenInv /\ CoveredInv

LEMMA InitPromise == Init => PromiseInv
BY DEF Init, PromiseInv, PromisesKept, CopyInv, WrittenInv, CoveredInv, InMemory, Pending, Writing

\* Nothing that is promised is touched, and nobody is writing anything.
LEMMA BlindPromise ==
  ASSUME PromiseInv, repo' = "none", InFlight' = {}, stage' # "renaming",
         UNCHANGED <<stored, promised>>
  PROVE  PromiseInv'
<1>1. Pending' = {}
  BY DEF Pending, InFlight
<1> QED
  BY <1>1 DEF PromiseInv, PromisesKept, CopyInv, WrittenInv, CoveredInv, InMemory, InFlight, Writing

\* Steps that do not concern the storage.
LEMMA ElsewherePromise ==
  ASSUME PromiseInv, UNCHANGED <<cfg, repo, memory, stored, promised>>,
         stage' = "renaming" => stage = "renaming",
         \A u \in Updates : handler'[u] \in {"received", handler[u]}
  PROVE  PromiseInv'
<1>1. Pending' \subseteq Pending
  BY DEF Pending
<1>2. InMemory' = InMemory /\ Home' = Home /\ HasSnapshot' = HasSnapshot
  BY DEF InMemory, Home, HasSnapshot
<1>3. \A u \in Updates : Durable(u)' = Durable(u)
  BY <1>2 DEF Durable, memory
<1> QED
  BY <1>1, <1>2, <1>3
     DEF PromiseInv, PromisesKept, CopyInv, WrittenInv, CoveredInv, memory, Writing

\* Where the snapshot is: the only file a server writes.
LEMMA HomeOK ==
  ASSUME ShapeInv
  PROVE  /\ Home \subseteq Homes
         /\ InMemory /\ cfg.path # Blank => Home = {cfg.path}
         /\ \A u \in Updates : Durable(u) \subseteq Home
BY DEF ShapeInv, TypeOK, Home, Homes, Durable, InMemory

\* One handler goes on, and the settings and the storage stay.
LEMMA HandlerPromise ==
  ASSUME ShapeInv, NEW u \in Updates, Apply(u) \/ CopyMemory(u) \/ Rename(u) \/ Answer(u)
  PROVE  /\ UNCHANGED <<cfg, repo, stage>>
         /\ InMemory' = InMemory /\ Home' = Home /\ HasSnapshot' = HasSnapshot
         /\ \A v \in Updates : v # u => /\ handler'[v] = handler[v]
                                        /\ v \in overtaken' <=> v \in overtaken
                                        /\ Durable(v)' = Durable(v)
<1>1. UNCHANGED <<cfg, repo, stage>>
  BY DEF Apply, CopyMemory, Rename, Answer, config
<1>2. InMemory' = InMemory /\ Home' = Home /\ HasSnapshot' = HasSnapshot
  BY <1>1 DEF InMemory, Home, HasSnapshot
<1>3. \A v \in Updates : v # u => handler'[v] = handler[v] /\ (v \in overtaken' <=> v \in overtaken)
  BY DEF Apply, CopyMemory, Rename, Answer, ShapeInv, TypeOK
<1> QED
  BY <1>1, <1>2, <1>3 DEF Durable

LEMMA ApplyPromise ==
  ASSUME ShapeInv, PromiseInv, NEW u \in Updates, Apply(u)
  PROVE  PromiseInv'
<1> USE DEF ShapeInv, TypeOK, PromiseInv
<1>1. /\ UNCHANGED <<copy, promised>> /\ mem \subseteq mem' /\ (InMemory => u \in mem')
      /\ handler[u] = "received" /\ handler'[u] \in {"written", "applied"}
      /\ handler'[u] = "written" <=> repo = "sync"
      /\ u \notin overtaken' => Pending = {}
  BY DEF Apply, history
<1>2. Pending' = Pending
  BY <1>1, HandlerPromise DEF Pending
<1>3. \A h \in Homes : /\ stored[h] \subseteq stored'[h]
                       /\ repo = "postgres" /\ h = Table => u \in stored'[h]
  BY DEF Apply
<1>4. PromisesKept'
  BY <1>1, <1>3, HandlerPromise, HomeOK DEF PromisesKept
<1>5. CopyInv'
  BY <1>1, <1>2, HandlerPromise DEF CopyInv
<1>6. CoveredInv'
  BY <1>1, <1>2, HandlerPromise DEF CoveredInv
<1>7. WrittenInv'
  <2> SUFFICES ASSUME NEW v \in Updates
               PROVE  /\ handler'[v] \in Writing /\ InMemory' => v \in mem'
                      /\ handler'[v] \in Writing /\ v \notin overtaken'
                           => \A s \in Pending' : v \in copy'[s]
                      /\ handler'[v] = "applied" => \A h \in Durable(v)' : v \in stored'[h]
    BY DEF WrittenInv
  <2>1. CASE v # u
    BY <1>1, <1>2, <1>3, <2>1, HandlerPromise, HomeOK DEF WrittenInv
  <2>2. CASE v = u
    <3>1. handler'[u] = "applied" => \A h \in Durable(u)' : u \in stored'[h]
      BY <1>1, <1>3, HandlerPromise DEF Durable, Home, Homes
    <3> QED
      BY <1>1, <1>2, <2>2, <3>1, HandlerPromise
  <2> QED
    BY <2>1, <2>2
<1> QED
  BY <1>4, <1>5, <1>6, <1>7

\* A copy of memory holds all that is promised and all that is written.
LEMMA CopyMemoryPromise ==
  ASSUME ShapeInv, PromiseInv, NEW u \in Updates, CopyMemory(u)
  PROVE  PromiseInv'
<1> USE DEF ShapeInv, TypeOK, PromiseInv
<1>1. /\ UNCHANGED <<mem, overtaken, stored, promised>>
      /\ handler[u] = "written" /\ handler'[u] = "copied"
      /\ copy' = [copy EXCEPT ![u] = mem]
  BY DEF CopyMemory, history
<1>2. InMemory /\ repo = "sync"
  BY <1>1 DEF CopyInv, InMemory
<1>3. \A s \in Pending' : (s = u /\ copy'[s] = mem) \/ (s \in Pending /\ copy'[s] = copy[s])
  BY <1>1, HandlerPromise DEF Pending
<1>4. \A v \in Updates : handler'[v] \in Writing => handler[v] \in Writing
  BY <1>1, HandlerPromise DEF Writing
<1>5. PromisesKept'
  BY <1>1, HandlerPromise DEF PromisesKept
<1>6. CopyInv'
  BY <1>1, <1>2, <1>3, HandlerPromise DEF CopyInv
<1>7. CoveredInv'
  BY <1>1, <1>2, <1>3, HandlerPromise DEF CoveredInv, PromisesKept
<1>8. WrittenInv'
  <2> SUFFICES ASSUME NEW v \in Updates, handler'[v] \in Writing
               PROVE  /\ InMemory' => v \in mem'
                      /\ v \notin overtaken' => \A s \in Pending' : v \in copy'[s]
                      /\ handler'[v] = "applied" => \A h \in Durable(v)' : v \in stored'[h]
    BY DEF WrittenInv, Writing
  <2>1. v \in mem /\ (v \notin overtaken => \A s \in Pending : v \in copy[s])
    BY <1>2, <1>4 DEF WrittenInv
  <2>2. handler'[v] = "applied" => v # u /\ handler[v] = "applied"
    BY <1>1, HandlerPromise
  <2>3. handler'[v] = "applied" => \A h \in Durable(v)' : v \in stored'[h]
    BY <1>1, <2>2, HandlerPromise DEF WrittenInv
  <2> QED
    BY <1>1, <1>3, <2>1, <2>3
<1> QED
  BY <1>5, <1>6, <1>7, <1>8

\* The file becomes a copy that covers what is promised, and what is applied and not
\* overtaken.
LEMMA RenamePromise ==
  ASSUME ShapeInv, PromiseInv, NEW u \in Updates, Rename(u)
  PROVE  PromiseInv'
<1> USE DEF ShapeInv, TypeOK, PromiseInv
<1>1. /\ UNCHANGED <<mem, overtaken, promised>>
      /\ handler[u] = "copied" /\ handler'[u] = "applied"
      /\ copy' = [copy EXCEPT ![u] = {}]
      /\ stored' = [stored EXCEPT ![cfg.path] = copy[u]]
  BY DEF Rename, history
<1>2. u \in Pending /\ repo = "sync" /\ InMemory /\ Home = {cfg.path}
  BY <1>1, HomeOK DEF CopyInv, Pending, InMemory
<1>3. \A s \in Pending' : s \in Pending /\ copy'[s] = copy[s]
  BY <1>1, HandlerPromise, DeploymentAssumption DEF Pending
<1>4. \A h \in Homes : stored'[h] = IF h = cfg.path THEN copy[u] ELSE stored[h]
  BY <1>1
<1>5. PromisesKept'
  BY <1>1, <1>2, <1>4, HandlerPromise DEF PromisesKept, CoveredInv
<1>6. CopyInv'
  BY <1>1, <1>2, <1>3, HandlerPromise DEF CopyInv
<1>7. CoveredInv'
  BY <1>1, <1>3, HandlerPromise DEF CoveredInv
<1>8. WrittenInv'
  <2> SUFFICES ASSUME NEW v \in Updates, handler'[v] \in Writing
               PROVE  /\ InMemory' => v \in mem'
                      /\ v \notin overtaken' => \A s \in Pending' : v \in copy'[s]
                      /\ handler'[v] = "applied" => \A h \in Durable(v)' : v \in stored'[h]
    BY DEF WrittenInv, Writing
  <2>1. handler[v] \in Writing
    BY <1>1, HandlerPromise DEF Writing
  <2>2. v \notin overtaken => v \in copy[u]
    BY <1>2, <2>1 DEF WrittenInv
  <2>3. \A h \in Durable(v)' : h \in Homes /\ h = cfg.path /\ v \notin overtaken
    BY <1>1, <1>2, HandlerPromise, HomeOK DEF Durable
  <2> QED
    BY <1>1, <1>2, <1>3, <1>4, <2>1, <2>2, <2>3 DEF WrittenInv
<1> QED
  BY <1>5, <1>6, <1>7, <1>8

LEMMA AnswerPromise ==
  ASSUME ShapeInv, PromiseInv, NEW u \in Updates, Answer(u)
  PROVE  PromiseInv'
<1> USE DEF ShapeInv, TypeOK, PromiseInv
<1>1. /\ UNCHANGED <<mem, copy, stored>>
      /\ handler[u] = "applied" /\ handler'[u] \in {"done", "lost"}
  BY DEF Answer
<1>2. \A h \in Homes : \/ promised'[h] = promised[h]
                       \/ h \in Durable(u) /\ promised'[h] = promised[h] \cup {u}
  BY DEF Answer
<1>3. Pending' = Pending
  BY <1>1, HandlerPromise DEF Pending
<1>4. PromisesKept'
  BY <1>1, <1>2, HandlerPromise, HomeOK DEF PromisesKept, WrittenInv, Writing
<1>5. CopyInv'
  BY <1>1, <1>3, HandlerPromise DEF CopyInv
<1>6. CoveredInv'
  <2>1. ASSUME NEW s \in Pending, NEW h \in Durable(u)
        PROVE  u \notin overtaken
    <3>1. repo # "postgres"
      BY DEF CopyInv, Pending, HasSnapshot, InMemory
    <3> QED
      BY <3>1 DEF Durable
  <2> QED
    BY <1>1, <1>2, <1>3, <2>1, HandlerPromise, HomeOK DEF CoveredInv, WrittenInv, Writing
<1>7. WrittenInv'
  BY <1>1, <1>3, HandlerPromise DEF WrittenInv, Writing
<1> QED
  BY <1>4, <1>5, <1>6, <1>7

\* The ticker: no copy is waiting to be renamed.
LEMMA TickPromise ==
  ASSUME ShapeInv, PromiseInv, Tick
  PROVE  PromiseInv'
<1> USE DEF ShapeInv, TypeOK, PromiseInv
<1>1. /\ repo = "periodic" /\ InMemory /\ stage # "renaming"
      /\ UNCHANGED <<cfg, repo, stage, memory, handler>>
  BY DEF Tick, InMemory, config
<1>2. Pending = {} /\ Pending' = {}
  BY <1>1 DEF CopyInv, Pending
<1>3. /\ InMemory' = InMemory /\ Home' = Home /\ HasSnapshot' = HasSnapshot
      /\ \A u \in Updates : Durable(u)' = {}
  BY <1>1 DEF InMemory, Home, HasSnapshot, Durable
<1>4. \A h \in Homes : /\ stored'[h] = IF h = cfg.path THEN mem ELSE stored[h]
                       /\ promised'[h] = IF h = cfg.path THEN promised[h] \cup mem
                                         ELSE promised[h]
  BY DEF Tick, Save
<1>5. PromisesKept'
  <2>1. \A h \in Homes : h = cfg.path => h \in Home
    BY <1>1, DeploymentAssumption DEF Home, InMemory
  <2> QED
    BY <1>1, <1>3, <1>4, <2>1, HomeOK DEF PromisesKept, memory
<1>6. CopyInv' /\ CoveredInv' /\ WrittenInv'
  BY <1>1, <1>2, <1>3 DEF CopyInv, CoveredInv, WrittenInv, memory, Writing
<1> QED
  BY <1>5, <1>6

LEMMA FinalCopyPromise ==
  ASSUME ShapeInv, PromiseInv, FinalCopy
  PROVE  PromiseInv'
<1> USE DEF ShapeInv, TypeOK, PromiseInv
<1>1. /\ UNCHANGED <<cfg, repo, mem, overtaken, handler, stored, promised>>
      /\ HasSnapshot /\ InMemory
      /\ copy' = [copy EXCEPT ![Main] = mem]
  BY DEF FinalCopy, HasSnapshot, config, history
<1>2. \A s \in Pending' : (s = Main /\ copy'[s] = mem) \/ (s \in Pending /\ copy'[s] = copy[s])
  BY <1>1, DeploymentAssumption DEF Pending
<1>3. /\ InMemory' = InMemory /\ Home' = Home /\ HasSnapshot' = HasSnapshot
      /\ \A u \in Updates : Durable(u)' = Durable(u)
  BY <1>1 DEF InMemory, Home, HasSnapshot, Durable
<1>4. PromisesKept'
  BY <1>1, <1>3 DEF PromisesKept
<1>5. CopyInv'
  BY <1>1, <1>2, <1>3 DEF CopyInv
<1>6. CoveredInv'
  BY <1>1, <1>2, <1>3 DEF CoveredInv, PromisesKept
<1>7. WrittenInv'
  BY <1>1, <1>2, <1>3 DEF WrittenInv
<1> QED
  BY <1>4, <1>5, <1>6, <1>7

\* The last save promises what it holds where nothing older can still replace it.
LEMMA FinalRenamePromise ==
  ASSUME ShapeInv, PromiseInv, FinalRename
  PROVE  PromiseInv'
<1> USE DEF ShapeInv, TypeOK, PromiseInv
<1>1. /\ UNCHANGED <<cfg, repo, mem, overtaken, handler>>
      /\ stage = "renaming" /\ stage' = "closing"
      /\ copy' = [copy EXCEPT ![Main] = {}]
  BY DEF FinalRename, Goes, config
<1>2. Main \in Pending /\ InMemory /\ Home = {cfg.path} /\ cfg.path \in Homes
  BY <1>1, HomeOK DEF Pending, CopyInv, HasSnapshot
<1>3. \A s \in Pending' : s \in Pending /\ s # Main /\ copy'[s] = copy[s]
  BY <1>1, DeploymentAssumption DEF Pending
<1>4. /\ InMemory' = InMemory /\ Home' = Home /\ HasSnapshot' = HasSnapshot
      /\ \A u \in Updates : Durable(u)' = Durable(u)
  BY <1>1 DEF InMemory, Home, HasSnapshot, Durable
<1>5. \A h \in Homes :
        /\ stored'[h] = IF h = cfg.path THEN copy[Main] ELSE stored[h]
        /\ \/ promised'[h] = promised[h]
           \/ h = cfg.path /\ promised'[h] = promised[h] \cup copy[Main] /\ Pending = {Main}
  <2>1. stored' = [stored EXCEPT ![cfg.path] = copy[Main]]
    BY DEF FinalRename, Save
  <2>2. \/ promised' = promised
        \/ /\ promised' = [promised EXCEPT ![cfg.path] = @ \cup copy[Main]]
           /\ Pending = {Main}
    BY DEF FinalRename, Save
  <2> QED
    BY <2>1, <2>2
<1>6. PromisesKept'
  BY <1>1, <1>2, <1>4, <1>5 DEF PromisesKept, CopyInv, CoveredInv
<1>7. CopyInv'
  BY <1>1, <1>3, <1>4 DEF CopyInv
<1>8. CoveredInv'
  BY <1>2, <1>3, <1>4, <1>5 DEF CoveredInv
<1>9. WrittenInv'
  <2> SUFFICES ASSUME NEW u \in Updates, handler[u] \in Writing
               PROVE  /\ InMemory' => u \in mem'
                      /\ u \notin overtaken => \A s \in Pending' : u \in copy'[s]
                      /\ handler[u] = "applied" => \A h \in Durable(u) : u \in stored'[h]
    BY <1>1, <1>4 DEF WrittenInv, Writing
  <2>1. u \notin overtaken => u \in copy[Main]
    BY <1>2 DEF WrittenInv
  <2>2. \A h \in Durable(u) : h = cfg.path /\ u \notin overtaken
    BY <1>2 DEF Durable, InMemory
  <2> QED
    BY <1>1, <1>2, <1>3, <1>4, <1>5, <2>1, <2>2 DEF WrittenInv
<1> QED
  BY <1>6, <1>7, <1>8, <1>9

LEMMA NextPromise == ShapeInv /\ PromiseInv /\ [Next]_vars => PromiseInv'
<1> SUFFICES ASSUME ShapeInv, PromiseInv, [Next]_vars PROVE PromiseInv'
  OBVIOUS
<1> USE DEF ShapeInv, TypeOK, PhaseInv, Blind, Up, Goes, config, history
<1>1. ASSUME NEW l \in Launches, Launch(l) PROVE PromiseInv'
  <2>1. repo' = "none" /\ InFlight' = {} /\ UNCHANGED <<stored, promised>> /\ stage' # "renaming"
    BY <1>1 DEF Launch, InFlight
  <2> QED
    BY <2>1, BlindPromise
<1>2. ASSUME Dies, UNCHANGED <<stored, promised>>, stage' # "renaming" PROVE PromiseInv'
  <2>1. repo' = "none" /\ InFlight' = {}
    BY <1>2, DiesShape DEF Dies
  <2> QED
    BY <1>2, <2>1, BlindPromise
<1>3. CASE CheckSubnet \/ ConnectDatabase \/ OpenAudit \/ LoadKey \/ ListenGrpc
  <2>1. CASE StartFails
    BY <1>2, <2>1 DEF StartFails
  <2>2. CASE ~StartFails
    <3>1. UNCHANGED <<cfg, repo, memory, stored, promised, handler>> /\ stage' # "renaming"
      BY <1>3, <2>2 DEF CheckSubnet, ConnectDatabase, OpenAudit, LoadKey, ListenGrpc
    <3> QED
      BY <3>1, ElsewherePromise
  <2> QED
    BY <2>1, <2>2
<1>4. CASE UsePostgres
  <2>1. /\ InFlight' = {} /\ UNCHANGED <<stored, promised>>
        /\ repo' = "postgres" /\ stage' # "renaming"
    BY <1>4 DEF UsePostgres, InFlight
  <2>2. Pending' = {}
    BY <2>1 DEF Pending, InFlight
  <2> QED
    BY <2>1, <2>2 DEF PromiseInv, PromisesKept, CopyInv, CoveredInv, WrittenInv, InMemory, InFlight,
                      Writing
<1>5. CASE UseMemory
  <2>1. /\ InFlight' = {} /\ UNCHANGED <<cfg, stored, handler>> /\ mem' = Restored
        /\ repo' = Mode /\ stage' # "renaming"
    BY <1>5 DEF UseMemory, InFlight
  <2>2. \A h \in Homes : promised'[h] \subseteq promised[h]
    BY <1>5 DEF UseMemory
  <2>3. \A h \in Homes : h = cfg.path => promised'[h] \subseteq mem'
    BY <1>5, <2>1, DeploymentAssumption DEF UseMemory, Restored, PromiseInv, PromisesKept
  <2>4. Home' \subseteq {cfg.path} \cap Homes
    BY <2>1 DEF Mode, Home, InMemory, Homes
  <2>5. PromisesKept'
    BY <2>1, <2>2, <2>3, <2>4 DEF PromiseInv, PromisesKept
  <2>6. Pending' = {} /\ (repo' = "sync" => cfg.path # Blank)
    BY <2>1 DEF Pending, InFlight, Mode
  <2> QED
    BY <2>1, <2>5, <2>6 DEF PromiseInv, CopyInv, CoveredInv, WrittenInv, InFlight, Writing
<1>6. ASSUME NEW u \in Updates, Accept(u) PROVE PromiseInv'
  <2>1. /\ UNCHANGED <<cfg, repo, memory, stored, promised, stage>>
        /\ \A v \in Updates : handler'[v] \in {"received", handler[v]}
    BY <1>6 DEF Accept
  <2> QED
    BY <2>1, ElsewherePromise
<1>7. ASSUME NEW u \in Updates, Apply(u) \/ CopyMemory(u) \/ Rename(u) \/ Answer(u)
      PROVE  PromiseInv'
  BY <1>7, ApplyPromise, CopyMemoryPromise, RenamePromise, AnswerPromise
<1>8. CASE Tick \/ FinalCopy \/ FinalRename
  BY <1>8, TickPromise, FinalCopyPromise, FinalRenamePromise
<1>9. CASE \/ ListenHttp \/ HttpRefused \/ Signal \/ HttpDrained \/ GrpcDrained
           \/ NoFinalSave \/ CloseAuditor
  <2>1. UNCHANGED <<cfg, repo, memory, stored, promised, handler>> /\ stage' # "renaming"
    BY <1>9 DEF ListenHttp, HttpRefused, Signal, HttpDrained, GrpcDrained, NoFinalSave,
                CloseAuditor
  <2> QED
    BY <2>1, ElsewherePromise
<1>10. CASE Exit \/ Crash
  BY <1>2, <1>10 DEF Exit, Crash
<1>11. CASE UNCHANGED vars
  BY <1>11, ElsewherePromise DEF vars, memory
<1> QED
  BY <1>1, <1>3, <1>4, <1>5, <1>6, <1>7, <1>8, <1>9, <1>10, <1>11
     DEF Next, Start, End, Terminated

\* What was promised to be saved stays saved, over any sequence of servers launched
\* with any settings, of failed starts, exits and crashes.
THEOREM PromisesKeptHolds == Spec => []PromisesKept
<1>1. PromiseInv => PromisesKept
  BY DEF PromiseInv
<1> QED
  BY <1>1, InitShape, NextShape, InitPromise, NextPromise, PTL DEF Spec

-----------------------------------------------------------------------------
(* What the auditor is told *)

Left == {"saving", "renaming", "closing", "leaving"}

\* Once a transport has drained, nothing of it is in flight.
DrainInv ==
  /\ stage \in Starting \cup {"drainHttp"} => "http" \notin listening
  /\ stage \in Left \cup {"drainGrpc"} => listening = {}
  /\ stage \in Starting => Waiting("http") = {}
  /\ stage \in Left \cup {"drainGrpc"} /\ ~gaveUp => Waiting("http") = {}
  /\ stage \in Left /\ ~gaveUp => Waiting("grpc") = {}

\* The auditor is open as long as anything is in flight that a drain waits for.
AuditInv ==
  /\ stage \in {"loaded", "database", "storage", "audit"} => answered = {}
  /\ Up /\ auditor = "closed" => stage = "leaving"
  /\ Up /\ stage # "leaving" /\ auditor = "open" => answered \subseteq events
  /\ stage \in {"leaving", "exited"} /\ auditor # "nil" /\ ~gaveUp => answered \subseteq events

LEMMA InitDrain == Init => DrainInv /\ AuditInv
BY DEF Init, DrainInv, AuditInv, Starting, Left, Up

\* A process that has ended listens to nothing.
LEMMA DiesDrain ==
  ASSUME Dies, stage' \in {"down", "failed", "exited"}
  PROVE  DrainInv'
BY DEF Dies, DrainInv, Starting, Left

LEMMA NextDrain == ShapeInv /\ DrainInv /\ [Next]_vars => DrainInv'
<1> SUFFICES ASSUME ShapeInv, DrainInv, [Next]_vars
             PROVE  DrainInv'
  OBVIOUS
<1> USE DEF Starting, Left
<1>1. ASSUME NEW l \in Launches, Launch(l) PROVE DrainInv'
  <2>1. /\ stage \in {"down", "failed", "exited"} /\ stage' \in {"failed", "loaded"}
        /\ UNCHANGED <<listening, handler>>
    BY <1>1 DEF Launch, Goes, ShapeInv, TypeOK, Up, Stages
  <2>2. listening = {} /\ InFlight = {}
    BY <2>1 DEF ShapeInv, PhaseInv, Blind
  <2> QED
    BY <2>1, <2>2 DEF DrainInv, InFlight, Waiting
<1>2. ASSUME StartFails PROVE DrainInv'
  BY <1>2, DiesDrain DEF StartFails
<1>3. CASE Start
  <2>1. CASE StartFails
    BY <1>2, <2>1
  <2>2. CASE ~StartFails
    <3>1. /\ UNCHANGED <<handler, gaveUp>>
          /\ stage \in Starting
          /\ \/ stage' \in Starting /\ (listening' = listening \/ listening' \subseteq {"grpc"})
             \/ stage' = "serving"
             \/ stage' = "drainGrpc" /\ listening' = {}
      BY <1>3, <2>2 DEF Start, CheckSubnet, ConnectDatabase, UsePostgres, UseMemory, OpenAudit,
                       LoadKey, ListenGrpc, ListenHttp, HttpRefused, Goes
    <3>2. Waiting("http")' = Waiting("http") /\ Waiting("http") = {}
      BY <3>1 DEF DrainInv, Waiting, InFlight
    <3> QED
      BY <3>1, <3>2 DEF DrainInv
  <2> QED
    BY <2>1, <2>2
<1>4. ASSUME NEW u \in Updates, Accept(u) PROVE DrainInv'
  <2>1. /\ UNCHANGED <<stage, listening, gaveUp>>
        /\ Transport(u) \in listening
        /\ \A v \in Updates : handler'[v] = handler[v] \/ v = u
    BY <1>4 DEF Accept
  <2>2. \A t \in {"http", "grpc"} : t \notin listening => Waiting(t)' \subseteq Waiting(t)
    BY <2>1 DEF Waiting, InFlight, Transport
  <2> QED
    BY <2>1, <2>2 DEF DrainInv
<1>5. ASSUME NEW u \in Updates, Apply(u) \/ CopyMemory(u) \/ Rename(u) \/ Answer(u)
      PROVE  DrainInv'
  <2>1. /\ UNCHANGED <<stage, listening, gaveUp>>
        /\ u \in InFlight
        /\ \A v \in Updates : handler'[v] = handler[v] \/ v = u
    BY <1>5 DEF Apply, CopyMemory, Rename, Answer, InFlight, ShapeInv, TypeOK
  <2>2. \A t \in {"http", "grpc"} : Waiting(t)' \subseteq Waiting(t)
    BY <2>1 DEF Waiting, InFlight, Transport
  <2> QED
    BY <2>1, <2>2 DEF DrainInv
<1>6. CASE Tick \/ NoFinalSave \/ FinalCopy \/ FinalRename \/ CloseAuditor \/ Signal
  <2>1. /\ UNCHANGED <<handler, gaveUp>>
        /\ \/ UNCHANGED <<stage, listening>>
           \/ stage \in Left /\ stage' \in Left /\ UNCHANGED listening
           \/ stage' = "drainHttp" /\ listening' = listening \ {"http"}
    BY <1>6 DEF Tick, NoFinalSave, FinalCopy, FinalRename, CloseAuditor, Signal, Goes
  <2>2. \A t \in {"http", "grpc"} : Waiting(t)' = Waiting(t)
    BY <2>1 DEF Waiting, InFlight, Transport
  <2> QED
    BY <2>1, <2>2 DEF DrainInv
<1>7. CASE HttpDrained
  <2>1. /\ stage' = "drainGrpc" /\ listening' = {} /\ UNCHANGED handler
        /\ ~gaveUp' => Waiting("http") = {}
    BY <1>7 DEF HttpDrained, Goes
  <2> QED
    BY <2>1 DEF DrainInv, Waiting, InFlight, Transport
<1>8. CASE GrpcDrained
  <2>1. /\ stage = "drainGrpc" /\ stage' = "saving" /\ UNCHANGED <<handler, listening>>
        /\ ~gaveUp' => ~gaveUp /\ Waiting("grpc") = {}
    BY <1>8 DEF GrpcDrained, Goes
  <2> QED
    BY <2>1 DEF DrainInv, Waiting, InFlight, Transport
<1>9. CASE Exit \/ Crash
  BY <1>9, DiesDrain DEF Exit, Crash, Goes
<1>10. CASE UNCHANGED vars
  BY <1>10 DEF vars, DrainInv, Waiting, InFlight, Transport
<1> QED
  BY <1>1, <1>3, <1>4, <1>5, <1>6, <1>7, <1>8, <1>9, <1>10 DEF Next, End, Terminated

LEMMA NextAudit == ShapeInv /\ DrainInv /\ AuditInv /\ [Next]_vars => AuditInv'
<1> SUFFICES ASSUME ShapeInv, DrainInv, AuditInv, [Next]_vars
             PROVE  AuditInv'
  OBVIOUS
<1>1. ASSUME NEW l \in Launches, Launch(l) PROVE AuditInv'
  BY <1>1 DEF Launch, Goes, AuditInv, Up
<1>2. ASSUME stage' \in {"down", "failed"} PROVE AuditInv'
  BY <1>2 DEF AuditInv, Up
<1>3. CASE Start
  <2>1. CASE StartFails
    BY <1>2, <2>1 DEF StartFails
  <2>2. CASE ~StartFails
    <3>1. /\ UNCHANGED <<answered, events>>
          /\ stage \in Starting
          /\ stage' \in (Starting \ {"loaded"}) \cup {"serving", "drainGrpc"}
          /\ stage' \in {"database", "storage", "audit"}
               => stage \in {"loaded", "database", "storage"}
          /\ \/ UNCHANGED auditor
             \/ stage = "audit" /\ auditor' \in {"nil", "open"}
      BY <1>3, <2>2 DEF Start, CheckSubnet, ConnectDatabase, UsePostgres, UseMemory, OpenAudit,
                       LoadKey, ListenGrpc, ListenHttp, HttpRefused, Goes, Starting, history
    <3> QED
      BY <3>1 DEF AuditInv, Up, Starting
  <2> QED
    BY <2>1, <2>2
<1>4. ASSUME NEW u \in Updates, Accept(u) \/ Apply(u) \/ CopyMemory(u) \/ Rename(u)
      PROVE  AuditInv'
  BY <1>4 DEF Accept, Apply, CopyMemory, Rename, AuditInv, Up, history
<1>5. ASSUME NEW u \in Updates, Answer(u) PROVE AuditInv'
  <2>1. /\ u \in InFlight
        /\ UNCHANGED <<stage, auditor, gaveUp>>
        /\ events' = (IF auditor = "open" THEN events \cup {u} ELSE events)
        /\ answered' \subseteq answered \cup {u}
    BY <1>5 DEF Answer, InFlight
  <2>2. stage \notin {"down", "failed", "exited", "loaded", "database", "storage", "audit"}
    BY <2>1 DEF ShapeInv, PhaseInv, Blind
  <2>3. stage = "leaving" => gaveUp
    BY <2>1 DEF DrainInv, Left, Waiting, Transport
  <2> QED
    BY <2>1, <2>2, <2>3 DEF AuditInv, Up
<1>6. CASE Tick \/ NoFinalSave \/ FinalCopy \/ FinalRename \/ Signal \/ HttpDrained \/ GrpcDrained
  <2>1. /\ UNCHANGED <<auditor, answered, events>>
        /\ \/ UNCHANGED <<stage, gaveUp>>
           \/ /\ stage \in {"serving", "drainHttp", "drainGrpc", "saving", "renaming"}
              /\ stage' \in {"drainHttp", "drainGrpc", "saving", "renaming", "closing"}
    BY <1>6 DEF Tick, NoFinalSave, FinalCopy, FinalRename, Signal, HttpDrained, GrpcDrained, Goes, history
  <2> QED
    BY <2>1 DEF AuditInv, Up
<1>7. CASE CloseAuditor
  BY <1>7 DEF CloseAuditor, Goes, AuditInv, Up, ShapeInv, TypeOK, history
<1>8. CASE Exit
  BY <1>8 DEF Exit, Goes, AuditInv, Up, history
<1>9. CASE Crash
  BY <1>2, <1>9 DEF Crash, Goes
<1>10. CASE UNCHANGED vars
  BY <1>10 DEF vars, AuditInv, Up
<1> QED
  BY <1>1, <1>3, <1>4, <1>5, <1>6, <1>7, <1>8, <1>9, <1>10 DEF Next, End, Terminated

\* A server that has returned from run() has told its auditor of every update it
\* has answered, unless a drain gave up: for any number of handlers, however they
\* interleave with the two drains and the deferred Close.
THEOREM AuditCompleteHolds == Spec => []AuditComplete
<1>1. AuditInv => AuditComplete
  BY DEF AuditInv, AuditComplete
<1> QED
  BY <1>1, InitShape, NextShape, InitDrain, NextDrain, NextAudit, PTL DEF Spec

-----------------------------------------------------------------------------
(* The order of precedence *)

\* The strongest source that gives a setting, found by asking them in turn.
LEMMA GivenIs ==
  ASSUME NEW defaults, NEW l, NEW s \in DOMAIN defaults
  PROVE  Given(defaults, l, s) =
           IF s \in DOMAIN l.env /\ l.env[s] # Blank THEN l.env[s]
           ELSE IF s \in DOMAIN l.flags THEN l.flags[s]
           ELSE IF s \in DOMAIN FromFile(File(l)) THEN FromFile(File(l))[s]
           ELSE defaults[s]
<1> DEFINE S == Sources(defaults, l)
           file == FromFile(File(l))
           giving == {i \in 1 .. 4 : s \in DOMAIN S[i] /\ (i = 4 => S[i][s] # Blank)}
<1>1. S[1] = defaults /\ S[2] = file /\ S[3] = l.flags /\ S[4] = l.env
  BY DEF Sources
<1>2. Given(defaults, l, s) = S[CHOOSE i \in giving : \A j \in giving : j <= i][s]
  BY DEF Given
<1> HIDE DEF S, file
<1>3. /\ 1 \in giving
      /\ 2 \in giving <=> s \in DOMAIN file
      /\ 3 \in giving <=> s \in DOMAIN l.flags
      /\ 4 \in giving <=> s \in DOMAIN l.env /\ l.env[s] # Blank
  BY <1>1
<1>4. giving \subseteq 1 .. 4
  OBVIOUS
<1> HIDE DEF giving
<1>5. ASSUME NEW m \in giving, \A j \in giving : j <= m
      PROVE  Given(defaults, l, s) = S[m][s]
  <2> DEFINE n == CHOOSE i \in giving : \A j \in giving : j <= i
  <2>1. n \in giving /\ \A j \in giving : j <= n
    BY <1>5
  <2> HIDE DEF n
  <2>2. n = m
    BY <1>4, <1>5, <2>1
  <2> QED
    BY <1>2, <2>2 DEF n
<1>6. CASE 4 \in giving
  BY <1>1, <1>3, <1>4, <1>5, <1>6
<1>7. CASE 4 \notin giving /\ 3 \in giving
  BY <1>1, <1>3, <1>4, <1>5, <1>7
<1>8. CASE 4 \notin giving /\ 3 \notin giving /\ 2 \in giving
  BY <1>1, <1>3, <1>4, <1>5, <1>8 DEF file
<1>9. CASE 4 \notin giving /\ 3 \notin giving /\ 2 \notin giving
  BY <1>1, <1>3, <1>4, <1>5, <1>9 DEF file
<1> QED
  BY <1>6, <1>7, <1>8, <1>9

\* Overlaying one source after the other comes to the same.
LEMMA MergedIsGiven ==
  ASSUME NEW defaults, NEW l, NEW s \in DOMAIN defaults
  PROVE  /\ DOMAIN Merged(defaults, l) = DOMAIN defaults
         /\ Merged(defaults, l)[s] = Given(defaults, l, s)
<1> DEFINE file == FromFile(File(l))
           one  == Overlay(defaults, file)
           two  == Overlay(one, l.flags)
           set  == NonBlank(l.env)
<1>1. /\ DOMAIN one = DOMAIN defaults
      /\ one[s] = IF s \in DOMAIN file THEN file[s] ELSE defaults[s]
  BY OverlayOK
<1>2. /\ DOMAIN two = DOMAIN defaults
      /\ two[s] = IF s \in DOMAIN l.flags THEN l.flags[s] ELSE one[s]
  BY <1>1, OverlayOK
<1>3. /\ DOMAIN Merged(defaults, l) = DOMAIN defaults
      /\ Merged(defaults, l)[s] = IF s \in DOMAIN set THEN set[s] ELSE two[s]
  BY <1>2, OverlayOK DEF Merged
<1>4. /\ s \in DOMAIN set <=> s \in DOMAIN l.env /\ l.env[s] # Blank
      /\ s \in DOMAIN set => set[s] = l.env[s]
  BY DEF NonBlank
<1> QED
  BY <1>1, <1>2, <1>3, <1>4, GivenIs

\* What a server that has just loaded its settings has loaded them from.
LoadedInv ==
  stage = "loaded" => launch \in Launches /\ ~LoadFails(launch) /\ cfg = ServerConfig(launch)

LEMMA LoadedAsGiven == LoadedInv => SettingsAsGiven
<1> SUFFICES ASSUME LoadedInv, stage = "loaded", NEW s \in DOMAIN cfg
             PROVE  cfg[s] = IF s = "path" /\ "storeFile" \in DOMAIN launch.env
                                  /\ "path" \notin DOMAIN launch.env
                             THEN launch.env.storeFile
                             ELSE Given(ServerDefaults, launch, s)
  BY DEF SettingsAsGiven
<1> DEFINE merged == Merged(ServerDefaults, launch)
<1>1. cfg = ApplyStoreFile(merged, launch.env)
  BY DEF LoadedInv, ServerConfig
<1>2. "path" \in DOMAIN merged /\ DOMAIN merged = DOMAIN ServerDefaults
  BY DefaultsOK, MergedIsGiven
<1> HIDE DEF merged
<1>3. DOMAIN cfg = DOMAIN merged
  BY <1>1 DEF ApplyStoreFile
<1>4. merged[s] = Given(ServerDefaults, launch, s)
  BY <1>2, <1>3, MergedIsGiven DEF merged
<1>5. CASE "path" \notin DOMAIN launch.env /\ "storeFile" \in DOMAIN launch.env
  BY <1>1, <1>2, <1>3, <1>4, <1>5 DEF ApplyStoreFile
<1>6. CASE ~("path" \notin DOMAIN launch.env /\ "storeFile" \in DOMAIN launch.env)
  BY <1>1, <1>4, <1>6 DEF ApplyStoreFile
<1> QED
  BY <1>5, <1>6

LEMMA InitLoaded == Init => LoadedInv
BY DEF Init, LoadedInv

LEMMA NextLoaded == LoadedInv /\ [Next]_vars => LoadedInv'
<1> SUFFICES ASSUME LoadedInv, [Next]_vars PROVE LoadedInv'
  OBVIOUS
<1>1. ASSUME NEW l \in Launches, Launch(l) PROVE LoadedInv'
  BY <1>1 DEF Launch, Goes, LoadedInv
<1>2. CASE Start \/ Signal \/ End \/ Crash
  <2>1. stage' # "loaded"
    BY <1>2 DEF Start, End, CheckSubnet, ConnectDatabase, UsePostgres, UseMemory, OpenAudit,
                LoadKey, ListenGrpc, ListenHttp, HttpRefused, StartFails, Signal, HttpDrained,
                GrpcDrained, NoFinalSave, FinalCopy, FinalRename, CloseAuditor, Exit, Crash, Goes
  <2> QED
    BY <2>1 DEF LoadedInv
<1>3. ASSUME NEW u \in Updates, Accept(u) \/ Apply(u) \/ CopyMemory(u) \/ Rename(u) \/ Answer(u)
      PROVE  LoadedInv'
  <2>1. UNCHANGED <<stage, launch, cfg>>
    BY <1>3 DEF Accept, Apply, CopyMemory, Rename, Answer, config
  <2> QED
    BY <2>1 DEF LoadedInv
<1>4. CASE Tick \/ UNCHANGED vars
  <2>1. UNCHANGED <<stage, launch, cfg>>
    BY <1>4 DEF Tick, config, vars
  <2> QED
    BY <2>1 DEF LoadedInv
<1> QED
  BY <1>1, <1>2, <1>3, <1>4 DEF Next, Terminated

\* Whatever the defaults, the file, the flags and the environment give, every
\* setting a server starts with is what the strongest source that gives it says:
\* for any launch, with any text in any of the sources.
THEOREM SettingsAsGivenHolds == Spec => []SettingsAsGiven
BY LoadedAsGiven, InitLoaded, NextLoaded, PTL DEF Spec
=============================================================================
