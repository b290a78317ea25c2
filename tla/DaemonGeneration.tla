-------------------------- MODULE DaemonGeneration --------------------------
(***************************************************************************)
(* How a daemon generation comes to be and how its POSIX endpoint is       *)
(* published and collected: src/src/daemon/bootstrap.c (the client that    *)
(* connects or launches), host.c (the daemon's claims, in order), ipc.c    *)
(* (startup lock, lifetime reservation, publication of the socket, its     *)
(* removal, and the cleanup of what a killed generation left behind) and   *)
(* version_cohort.c (the daemon's claim and its observation).              *)
(*                                                                         *)
(* A socket is listened on under its anchor name and linked to the stable  *)
(* name that clients connect to.  Two records say which socket is ours: a  *)
(* pending record, durable before the link, and a marker after it.  Each   *)
(* record is written under a temporary name and linked to its own.  Every  *)
(* step here is one change of the directory or one lock operation, and a   *)
(* process may be killed between any two: the kernel then frees its locks  *)
(* and the files stay.                                                     *)
(*                                                                         *)
(* Exact-build admission precedes all this and is in VersionCohort.        *)
(***************************************************************************)
EXTENDS Naturals, FiniteSets

CONSTANTS
  Starters,   \* processes that need a client connection
  Hosts,      \* daemon processes; also names the socket that one binds
  Foreign,    \* a legacy build's socket
  Nobody,     \* a free lock
  Absent,     \* a name that does not exist
  Torn        \* a record whose write has not completed

ASSUME ConstantsAssumption ==
  /\ Starters \cap Hosts = {} /\ Nobody \notin Starters \cup Hosts
  /\ Foreign \notin Hosts /\ Absent \notin Hosts \cup {Foreign, Torn}
  /\ \A x \in {Absent, Torn} : x \notin [owner : Hosts, ctime : Nat]

VARIABLES
  claim,      \* who holds the daemon marker of the cohort
  lifetime,   \* who holds the lifetime reservation
  startup,    \* who holds the startup lock
  socket,     \* the socket under the names "anchor" and "stable"
  inode,      \* of each host's socket: has it mode 0600, and its ctime
  record,     \* contents of the pending and the marker record
  temp,       \* contents of their temporary names
  host,       \* where a daemon process is, and which record it publishes
  starter,    \* where a client process is
  foreign     \* does a legacy daemon listen under the stable name?

locks == <<claim, lifetime, startup>>
files == <<socket, inode, record, temp>>
vars == <<locks, files, host, starter, foreign>>

Identity == [owner : Hosts, ctime : Nat]
Records == {"pending", "marker"}
Publishing == {"create", "write", "link", "clear"}

TypeOK ==
  /\ claim \in Hosts \cup Starters \cup {Nobody}
  /\ lifetime \in Hosts \cup Starters \cup {Nobody}
  /\ startup \in Starters \cup {Nobody}
  /\ socket \in [{"anchor", "stable"} -> Hosts \cup {Foreign, Absent}]
  /\ inode \in [Hosts -> [private : BOOLEAN, ctime : Nat]]
  /\ record \in [Records -> Identity \cup {Absent}]
  /\ temp \in [Records -> Identity \cup {Absent, Torn}]
  /\ host \in [Hosts -> [pc : Publishing \cup
        {"off", "join", "claim", "reserve", "listen", "secure", "expose",
         "retire", "serving", "close", "undo", "abort", "forget", "release", "unclaim"},
                         rec : Records]]
  /\ starter \in [Starters -> [pc : Publishing \cup
        {"idle", "probe", "observe", "lifetime", "connect", "lock",
         "prepare", "recover", "clean", "undo", "spawn"},
                         phase : {"free", "locked", "spawned"},
                         again : BOOLEAN]]
  /\ foreign \in BOOLEAN

Idle == [pc |-> "idle", phase |-> "free", again |-> FALSE]

Init ==
  /\ claim = Nobody /\ lifetime = Nobody /\ startup = Nobody
  /\ socket = [n \in {"anchor", "stable"} |-> Absent]
  /\ inode = [h \in Hosts |-> [private |-> FALSE, ctime |-> 0]]
  /\ record = [w \in Records |-> Absent]
  /\ temp = [w \in Records |-> Absent]
  /\ host = [h \in Hosts |-> [pc |-> "off", rec |-> "pending"]]
  /\ starter = [s \in Starters |-> Idle]
  /\ foreign = FALSE

-----------------------------------------------------------------------------
(* The endpoint's directory                                                *)

IdentityOf(h) == [owner |-> h, ctime |-> inode[h].ctime]

\* Both names carry the same socket, which then has two links.
Paired == socket["anchor"] # Absent /\ socket["anchor"] = socket["stable"]

\* A socket of ours that is not yet mode 0600 is unsafe to every reader.
Unsafe(n) == socket[n] \in Hosts /\ ~inode[socket[n]].private

NamespaceAbsent ==
  /\ \A n \in {"anchor", "stable"} : socket[n] = Absent
  /\ \A w \in Records : record[w] = Absent /\ temp[w] = Absent

Touched(h) == [inode EXCEPT ![h].ctime = @ + 1]

UnlinkSocket(n) ==
  /\ socket' = [socket EXCEPT ![n] = Absent]
  /\ inode' = IF socket[n] \in Hosts THEN Touched(socket[n]) ELSE inode
  /\ UNCHANGED <<record, temp>>

UnlinkRecord(w) ==
  /\ record' = [record EXCEPT ![w] = Absent]
  /\ UNCHANGED <<socket, inode, temp>>

UnlinkTemp(w) ==
  /\ temp' = [temp EXCEPT ![w] = Absent]
  /\ UNCHANGED <<socket, inode, record>>

\* One step of writing record w for the socket id: the temporary file is
\* created empty, filled and synced, linked to the record's name, removed.
Publish(w, step, id, next) ==
  /\ UNCHANGED <<socket, inode>>
  /\ \/ /\ step = "create" /\ next = "write"
        /\ record[w] = Absent /\ temp[w] = Absent
        /\ temp' = [temp EXCEPT ![w] = Torn]
        /\ UNCHANGED record
     \/ /\ step = "write" /\ next = "link"
        /\ temp' = [temp EXCEPT ![w] = id]
        /\ UNCHANGED record
     \/ /\ step = "link" /\ next = "clear"
        /\ record' = [record EXCEPT ![w] = temp[w]]
        /\ UNCHANGED temp
     \/ /\ step = "clear" /\ next = "published"
        /\ temp' = [temp EXCEPT ![w] = Absent]
        /\ UNCHANGED record

-----------------------------------------------------------------------------
(* The daemon process                                                      *)

HostAt(h, pc) == host[h].pc = pc
HostGoes(h, pc) == host' = [host EXCEPT ![h].pc = pc]

\* The participant guard, shared, on the frozen legacy startup file.
HostJoin(h) ==
  /\ HostAt(h, "join") /\ HostGoes(h, "claim")
  /\ UNCHANGED <<locks, files, starter, foreign>>

\* The claim is retried while it is busy, until a deadline.
HostClaim(h) ==
  /\ HostAt(h, "claim") /\ claim = Nobody
  /\ claim' = h /\ HostGoes(h, "reserve")
  /\ UNCHANGED <<lifetime, startup, files, starter, foreign>>

HostClaimTimeout(h) ==
  /\ HostAt(h, "claim") /\ claim # Nobody
  /\ HostGoes(h, "off")
  /\ UNCHANGED <<locks, files, starter, foreign>>

\* One attempt: a cleanup that holds the reservation ends this daemon.
HostReserve(h) ==
  /\ HostAt(h, "reserve")
  /\ IF lifetime = Nobody
     THEN lifetime' = h /\ HostGoes(h, "listen")
     ELSE HostGoes(h, "unclaim") /\ UNCHANGED lifetime
  /\ UNCHANGED <<claim, startup, files, starter, foreign>>

HostListen(h) ==
  /\ HostAt(h, "listen")
  /\ IF NamespaceAbsent
     THEN /\ socket' = [socket EXCEPT !["anchor"] = h]
          /\ inode' = [inode EXCEPT ![h] = [private |-> FALSE, ctime |-> 0]]
          /\ HostGoes(h, "secure")
     ELSE HostGoes(h, "release") /\ UNCHANGED <<socket, inode>>
  /\ UNCHANGED <<locks, record, temp, starter, foreign>>

HostSecure(h) ==
  /\ HostAt(h, "secure")
  /\ inode' = [inode EXCEPT ![h] = [private |-> TRUE, ctime |-> @.ctime + 1]]
  /\ host' = [host EXCEPT ![h] = [pc |-> "create", rec |-> "pending"]]
  /\ UNCHANGED <<locks, socket, record, temp, starter, foreign>>

\* (Mutant) the record's last step leads nowhere.
HostPublishEndless(h) ==
  /\ \E next \in Publishing \cup {"published"} :
       Publish(host[h].rec, host[h].pc, IdentityOf(h), next) /\ HostGoes(h, next)
  /\ UNCHANGED <<locks, starter, foreign>>

HostPublish(h) ==
  /\ \E next \in Publishing \cup {"published"} :
       /\ Publish(host[h].rec, host[h].pc, IdentityOf(h), next)
       /\ HostGoes(h, IF next # "published" THEN next
                      ELSE IF host[h].rec = "pending" THEN "expose" ELSE "retire")
  /\ UNCHANGED <<locks, starter, foreign>>

\* A second link to the socket, under the name that clients connect to.
HostExpose(h) ==
  /\ HostAt(h, "expose")
  /\ IF socket["stable"] = Absent
     THEN /\ socket' = [socket EXCEPT !["stable"] = h]
          /\ inode' = Touched(h)
          /\ host' = [host EXCEPT ![h] = [pc |-> "create", rec |-> "marker"]]
     ELSE HostGoes(h, "abort") /\ UNCHANGED <<socket, inode>>
  /\ UNCHANGED <<locks, record, temp, starter, foreign>>

HostRetire(h) ==
  /\ HostAt(h, "retire") /\ HostGoes(h, "serving")
  /\ UnlinkRecord("pending")
  /\ UNCHANGED <<locks, starter, foreign>>

\* An operation of the publication, or of what precedes it, fails.
HostFault(h) ==
  /\ host[h].pc \in Publishing \cup {"listen", "secure", "expose", "retire"}
  /\ HostGoes(h, CASE host[h].pc = "listen" -> "release"
                   [] host[h].pc \in Publishing -> "undo"
                   [] OTHER -> "abort")
  /\ UNCHANGED <<locks, files, starter, foreign>>

\* The record in the making is withdrawn first, its own name before the
\* temporary one.
UndoRecord(w) == IF record[w] # Absent THEN UnlinkRecord(w) ELSE UnlinkTemp(w)

HostUndo(h) ==
  /\ HostAt(h, "undo")
  /\ IF temp[host[h].rec] = Absent THEN HostGoes(h, "abort") /\ UNCHANGED files
     ELSE UndoRecord(host[h].rec) /\ UNCHANGED host
  /\ UNCHANGED <<locks, starter, foreign>>

\* Removal of a generation's names in the order of the code, sockets first.
\* What is read before stays true under the reservation, so each step may as
\* well look at the files afresh.
Withdraw ==
  \/ Paired /\ UnlinkSocket("stable")
  \/ ~Paired /\ socket["anchor"] # Absent /\ UnlinkSocket("anchor")
  \/ /\ socket["anchor"] = Absent /\ record["marker"] # Absent
     /\ UnlinkRecord("marker")
  \/ /\ socket["anchor"] = Absent /\ record["marker"] = Absent
     /\ record["pending"] # Absent
     /\ UnlinkRecord("pending")

Withdrawn == socket["anchor"] = Absent /\ \A w \in Records : record[w] = Absent

HostWithdraw(h) ==
  /\ host[h].pc \in {"abort", "close"}
  /\ \/ Withdraw /\ UNCHANGED host
     \/ Withdrawn /\ HostGoes(h, "release") /\ UNCHANGED files
  /\ UNCHANGED <<locks, starter, foreign>>

\* After a failed publication a socket that cannot be removed stays, and the
\* records are removed nevertheless.
HostForget(h) ==
  /\ \/ /\ HostAt(h, "abort") /\ socket["anchor"] # Absent
        /\ HostGoes(h, "forget") /\ UNCHANGED files
     \/ /\ HostAt(h, "forget")
        /\ \/ /\ record["marker"] # Absent
              /\ UnlinkRecord("marker") /\ UNCHANGED host
           \/ /\ record["marker"] = Absent /\ record["pending"] # Absent
              /\ UnlinkRecord("pending") /\ UNCHANGED host
           \/ /\ \A w \in Records : record[w] = Absent
              /\ HostGoes(h, "release") /\ UNCHANGED files
  /\ UNCHANGED <<locks, starter, foreign>>

\* The last client left, or somebody asked the daemon to stop.  The listener
\* removes its files only if the marker is the one it wrote.
HostStop(h) ==
  /\ HostAt(h, "serving")
  /\ HostGoes(h, IF record["marker"] = IdentityOf(h) THEN "close" ELSE "release")
  /\ UNCHANGED <<locks, files, starter, foreign>>

\* A closing listener gives up at the first removal that fails.
HostLeaves(h) ==
  /\ HostAt(h, "close") /\ HostGoes(h, "release")
  /\ UNCHANGED <<locks, files, starter, foreign>>

HostRelease(h) ==
  /\ HostAt(h, "release")
  /\ lifetime' = Nobody /\ HostGoes(h, "unclaim")
  /\ UNCHANGED <<claim, startup, files, starter, foreign>>

HostUnclaim(h) ==
  /\ HostAt(h, "unclaim")
  /\ claim' = Nobody /\ HostGoes(h, "off")
  /\ UNCHANGED <<lifetime, startup, files, starter, foreign>>

Freed(lock, p) == IF lock = p THEN Nobody ELSE lock

HostKilled(h) ==
  /\ ~HostAt(h, "off") /\ HostGoes(h, "off")
  /\ claim' = Freed(claim, h) /\ lifetime' = Freed(lifetime, h)
  /\ UNCHANGED <<startup, files, starter, foreign>>

-----------------------------------------------------------------------------
(* The client process                                                      *)

At(s, pc) == starter[s].pc = pc
Goes(s, pc) == starter' = [starter EXCEPT ![s].pc = pc]

\* The startup lock is released on the way out of every path.
Answers(s) ==
  /\ starter' = [starter EXCEPT ![s] = Idle]
  /\ startup' = Freed(startup, s)

\* A generation is there or on its way: a holder of the startup lock lets go.
\* The deadline may have passed.
Reserved(s) ==
  \/ Answers(s)
  \/ /\ starter' = [starter EXCEPT ![s] = [Idle EXCEPT !.pc = "probe"]]
     /\ startup' = Freed(startup, s)

\* Nothing is there.  Before a launch the deadline is not looked at again.
Unavailable(s) ==
  \/ starter[s].phase # "locked" /\ Answers(s)
  \/ /\ starter' = [starter EXCEPT
                     ![s].again = FALSE,
                     ![s].pc = CASE starter[s].phase = "free"    -> "lock"
                                 [] starter[s].phase = "locked"  -> "prepare"
                                 [] starter[s].phase = "spawned" -> "probe"]
     /\ UNCHANGED startup

Begin(s) ==
  /\ At(s, "idle") /\ Goes(s, "probe")
  /\ UNCHANGED <<locks, files, host, foreign>>

\* A client observes the daemon's claim by taking it: it is busy also while
\* another client observes it.
ProbeClaim(s) ==
  /\ At(s, "probe")
  /\ \/ /\ claim = Nobody
        /\ claim' = s /\ Goes(s, "observe") /\ UNCHANGED startup
     \/ /\ claim # Nobody
        /\ IF starter[s].again THEN Reserved(s)
           ELSE Goes(s, "connect") /\ UNCHANGED startup
        /\ UNCHANGED claim
  /\ UNCHANGED <<lifetime, files, host, foreign>>

ProbeRelease(s) ==
  /\ At(s, "observe")
  /\ claim' = Nobody /\ Goes(s, "lifetime")
  /\ UNCHANGED <<lifetime, startup, files, host, foreign>>

ProbeLifetime(s) ==
  /\ At(s, "lifetime")
  /\ IF lifetime = Nobody THEN Unavailable(s)
     ELSE IF starter[s].again THEN Reserved(s)
     ELSE Goes(s, "connect") /\ UNCHANGED startup
  /\ UNCHANGED <<claim, lifetime, files, host, foreign>>

\* A serving daemon accepts the client or tells it to wait; a legacy daemon is
\* a conflict.  Otherwise the two locks are observed once more.
Connect(s) ==
  /\ At(s, "connect")
  /\ LET peer == socket["stable"] IN
     \/ peer \in Hosts /\ HostAt(peer, "serving") /\ Reserved(s)
     \/ peer = Foreign /\ Answers(s)
     \/ /\ starter' = [starter EXCEPT ![s].pc = "probe", ![s].again = TRUE]
        /\ UNCHANGED startup
  /\ UNCHANGED <<claim, lifetime, files, host, foreign>>

TakeStartup(s) ==
  /\ At(s, "lock")
  /\ IF startup = Nobody
     THEN /\ startup' = s
          /\ starter' = [starter EXCEPT ![s].pc = "probe", ![s].phase = "locked"]
     ELSE Goes(s, "probe") /\ UNCHANGED startup
  /\ UNCHANGED <<claim, lifetime, files, host, foreign>>

\* (Mutant) the cleanup trusts the startup lock alone.
PrepareUnreserved(s) ==
  /\ At(s, "prepare") /\ Goes(s, "recover")
  /\ UNCHANGED <<locks, files, host, foreign>>

\* The handoff collects what an earlier generation left, under the startup
\* lock and a lifetime reservation of its own.
Prepare(s) ==
  /\ At(s, "prepare")
  /\ IF lifetime = Nobody
     THEN lifetime' = s /\ Goes(s, "recover") /\ UNCHANGED startup
     ELSE Answers(s) /\ UNCHANGED lifetime
  /\ UNCHANGED <<claim, files, host, foreign>>

\* (Mutant) the marker too is expected before the link.
CorroboratedMarkerUnlinked(w) ==
  /\ ~Unsafe("anchor") /\ ~Unsafe("stable")
  /\ socket["anchor"] \in Hosts /\ temp[w] = IdentityOf(socket["anchor"])
  /\ socket["stable"] = Absent

\* A temporary record is removed only if the sockets agree with it.
Corroborated(w) ==
  /\ ~Unsafe("anchor") /\ ~Unsafe("stable")
  /\ socket["anchor"] \in Hosts /\ temp[w] = IdentityOf(socket["anchor"])
  /\ CASE w = "pending" -> socket["stable"] = Absent
       [] w = "marker" -> Paired

TempLeft == {w \in Records : temp[w] # Absent}

RecoverRefused == \E w \in TempLeft :
  temp[w] = Torn \/ ~Corroborated(w) \/ record[w] \notin {Absent, temp[w]}

Recover(s) ==
  /\ At(s, "recover") /\ ~RecoverRefused
  /\ IF TempLeft = {} THEN Goes(s, "clean") /\ UNCHANGED files
     ELSE (\E w \in TempLeft : UnlinkTemp(w)) /\ UNCHANGED starter
  /\ UNCHANGED <<locks, host, foreign>>

\* The cleanup refuses what it cannot attribute to one generation of ours.
Owner(w) == IF record[w] = Absent THEN Absent ELSE record[w].owner

CleanRefused ==
  \/ Unsafe("anchor") \/ Unsafe("stable")
  \/ Absent \notin {Owner("marker"), Owner("pending")} /\ Owner("marker") # Owner("pending")
  \/ Owner("marker") # Absent /\ socket["anchor"] \notin {Absent, Owner("marker")}
  \/ /\ Owner("marker") # Absent /\ Paired
     /\ record["marker"] # IdentityOf(socket["anchor"])
  \/ /\ Owner("marker") = Absent /\ Owner("pending") # Absent
     /\ socket["anchor"] \notin {Absent, Owner("pending")}
  \/ Owner("marker") = Absent /\ Owner("pending") = Absent /\ Paired
  \/ Withdrawn /\ socket["stable"] # Absent

\* Killed between the link and the marker: the cleanup completes the marker,
\* and only then removes the pair.
Completes == Owner("marker") = Absent /\ Paired /\ socket["anchor"] = Owner("pending")

Clean(s) ==
  /\ At(s, "clean") /\ ~CleanRefused
  /\ IF Completes THEN Goes(s, "create") /\ UNCHANGED <<lifetime, files>>
     ELSE IF ~Withdrawn THEN Withdraw /\ UNCHANGED <<lifetime, starter>>
     ELSE lifetime' = Nobody /\ Goes(s, "spawn") /\ UNCHANGED files
  /\ UNCHANGED <<claim, startup, host, foreign>>

Complete(s) ==
  /\ \E next \in Publishing \cup {"published"} :
       /\ Publish("marker", starter[s].pc, IdentityOf(socket["anchor"]), next)
       /\ Goes(s, IF next = "published" THEN "clean" ELSE next)
  /\ UNCHANGED <<locks, host, foreign>>

CompleteFails(s) ==
  /\ starter[s].pc \in Publishing /\ Goes(s, "undo")
  /\ UNCHANGED <<locks, files, host, foreign>>

CompleteUndo(s) ==
  /\ At(s, "undo") /\ temp["marker"] # Absent
  /\ UndoRecord("marker")
  /\ UNCHANGED <<locks, host, starter, foreign>>

\* The cleanup refuses, or one of its operations fails.
CleanFails(s) ==
  /\ \/ starter[s].pc \in {"recover", "clean"}
     \/ At(s, "undo") /\ temp["marker"] = Absent
  /\ lifetime' = Nobody /\ Answers(s)
  /\ UNCHANGED <<claim, files, host, foreign>>

\* The slot of a new process: its socket is in nobody's directory or record.
Unused(h) ==
  /\ HostAt(h, "off")
  /\ h \notin {socket["anchor"], socket["stable"]}
  /\ \A w \in Records : h # Owner(w) /\ (temp[w] \notin {Absent, Torn} => temp[w].owner # h)

Spawn(s) ==
  /\ At(s, "spawn")
  /\ \/ \E h \in Hosts :
          /\ Unused(h) /\ HostGoes(h, "join")
          /\ starter' = [starter EXCEPT ![s].pc = "probe", ![s].phase = "spawned"]
          /\ UNCHANGED startup
     \/ Answers(s) /\ UNCHANGED host
  /\ UNCHANGED <<claim, lifetime, files, foreign>>

Killed(s) ==
  /\ ~At(s, "idle") /\ Answers(s)
  /\ claim' = Freed(claim, s) /\ lifetime' = Freed(lifetime, s)
  /\ UNCHANGED <<files, host, foreign>>

-----------------------------------------------------------------------------
(* A legacy daemon                                                         *)

\* It starts under the frozen startup file, exclusively, so not while a
\* client holds the startup lock or a daemon its participant guard, and
\* replaces whatever is under the stable name.
ForeignStart ==
  /\ ~foreign /\ startup = Nobody
  /\ \A h \in Hosts : host[h].pc \in {"off", "join", "unclaim"}
  /\ foreign' = TRUE
  /\ socket' = [socket EXCEPT !["stable"] = Foreign]
  /\ inode' = IF socket["stable"] \in Hosts THEN Touched(socket["stable"]) ELSE inode
  /\ UNCHANGED <<locks, record, temp, host, starter>>

ForeignStop ==
  /\ foreign /\ foreign' = FALSE
  /\ socket' = [socket EXCEPT !["stable"] = Absent]
  /\ UNCHANGED <<locks, inode, record, temp, host, starter>>

-----------------------------------------------------------------------------
HostNext(h) ==
  \/ HostJoin(h) \/ HostClaim(h) \/ HostClaimTimeout(h) \/ HostReserve(h)
  \/ HostListen(h) \/ HostSecure(h) \/ HostPublish(h) \/ HostExpose(h)
  \/ HostRetire(h) \/ HostFault(h) \/ HostUndo(h) \/ HostWithdraw(h)
  \/ HostForget(h) \/ HostStop(h) \/ HostLeaves(h) \/ HostRelease(h)
  \/ HostUnclaim(h) \/ HostKilled(h)

StarterNext(s) ==
  \/ Begin(s) \/ ProbeClaim(s) \/ ProbeRelease(s) \/ ProbeLifetime(s)
  \/ Connect(s) \/ TakeStartup(s) \/ Prepare(s) \/ Recover(s) \/ Clean(s)
  \/ Complete(s) \/ CompleteFails(s) \/ CompleteUndo(s) \/ CleanFails(s)
  \/ Spawn(s) \/ Killed(s)

Next ==
  \/ \E h \in Hosts : HostNext(h)
  \/ \E s \in Starters : StarterNext(s)
  \/ ForeignStart \/ ForeignStop

Spec == Init /\ [][Next]_vars

-----------------------------------------------------------------------------
(* Properties                                                              *)

\* While a daemon serves, the stable name leads to its socket, the marker is
\* exactly for it, and no other file is in the way, whatever launches,
\* cleanups and deaths happen beside it.  Nobody removes or replaces the
\* socket of a running legacy daemon.
Reachable(h) ==
  /\ claim = h /\ lifetime = h
  /\ socket["anchor"] = h /\ socket["stable"] = h /\ inode[h].private
  /\ record["marker"] = IdentityOf(h) /\ record["pending"] = Absent
  /\ \A w \in Records : temp[w] = Absent

ListenersReachable ==
  /\ \A h \in Hosts : HostAt(h, "serving") => Reachable(h)
  /\ foreign => socket["stable"] = Foreign

\* A kill of a daemon or of a cleanup between any two steps, or a failed
\* operation, leaves files that the next cleanup collects.  The exceptions: a
\* socket not yet mode 0600, a record not yet written, a legacy daemon's socket.
Excused ==
  \/ Unsafe("anchor")
  \/ \E w \in Records : temp[w] = Torn
  \/ socket["stable"] = Foreign
  \/ temp["marker"] # Absent /\ socket["stable"] = Absent
  \/ Paired /\ \A w \in Records : record[w] = Absent

LeftoversCollectable == \A s \in Starters :
  /\ At(s, "recover") /\ RecoverRefused => Excused
  /\ At(s, "clean") /\ CleanRefused => Excused
=============================================================================
