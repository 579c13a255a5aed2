----------------------------- MODULE SecondStar -----------------------------
(***************************************************************************)
(* SecondStar: the serial console of a machine over SSH.  The first        *)
(* session for a machine runs ipmitool, the later ones share its input and *)
(* output (internal/handler.go, multi.go, store.go, key.go), and the       *)
(* backend finds the machine and its credentials (kube/secondstar.go).     *)
(***************************************************************************)
EXTENDS Naturals, Sequences, FiniteSets

CONSTANTS Sessions,     \* SSH connections
          UserOf(_),    \* the machine a session asks for, by the name of its Hardware
          KeyOf(_),     \* the key it shows
          Consoles,     \* the machines, by name: [hardware : how many Hardware objects,
                        \*  keys : sequence, machines : how many Machine objects,
                        \*  secret : the keys of its Secret, options : BOOLEAN, port]
          SsNone,
          MaxChunks,    \* pieces of output of a console
          MaxKeys,      \* characters typed in all
          MaxSsFaults

ASSUME SsAssumption ==
  /\ IsFiniteSet(Sessions) /\ SsNone \notin Sessions
  /\ MaxChunks \in Nat /\ MaxKeys \in Nat /\ MaxSsFaults \in Nat

VARIABLES ssAt,        \* where each session's handler is
          ssBmc,       \* what the context of a session holds
          ssStore,     \* KeyValueStore: user -> the session whose State is stored
          ssState,     \* the State a session holds on to, by the session that made it
          ssCount,     \* State.additionalSessions
          ssWg,        \* State.wg
          ssWriters,   \* State.multiwriter
          ssOpen,      \* the SSH channel is open
          ssHere,      \* the connection, and so its context, lives
          ssExit,      \* the escape of an additional session waits to be received
          ssEsc,       \* the escape watcher: "scan", "tilde", "stopped"
          ssCmd,       \* ipmitool of an initial session: "none", "runs", "ended"
          ssCopy,      \* its output is being copied
          ssSeen,      \* output a session has received
          ssJoinedAt,  \* output of the console before the session joined
          ssSol,       \* the console of the machine: who activated it last, or SsNone
          ssStuck,     \* the machine's last deactivation failed
          ssChunks, ssTyped, ssFaults, ssPanic

ssVars == <<ssAt, ssBmc, ssStore, ssState, ssCount, ssWg, ssWriters, ssOpen, ssHere, ssExit,
            ssEsc, ssCmd, ssCopy, ssSeen, ssJoinedAt, ssSol, ssStuck, ssChunks, ssTyped, ssFaults,
            ssPanic>>

SsMachines == {UserOf(s) : s \in Sessions}

SsInit ==
  /\ ssAt = [s \in Sessions |-> "none"] /\ ssBmc = [s \in Sessions |-> FALSE]
  /\ ssStore = [u \in SsMachines |-> SsNone] /\ ssState = [s \in Sessions |-> SsNone]
  /\ ssCount = [s \in Sessions |-> 0] /\ ssWg = [s \in Sessions |-> 0]
  /\ ssWriters = [s \in Sessions |-> <<>>]
  /\ ssOpen = [s \in Sessions |-> FALSE] /\ ssHere = [s \in Sessions |-> FALSE]
  /\ ssExit = [s \in Sessions |-> FALSE] /\ ssEsc = [s \in Sessions |-> "scan"]
  /\ ssCmd = [s \in Sessions |-> "none"] /\ ssCopy = [s \in Sessions |-> FALSE]
  /\ ssSeen = [s \in Sessions |-> <<>>] /\ ssJoinedAt = [s \in Sessions |-> 0]
  /\ ssSol = [u \in SsMachines |-> SsNone] /\ ssStuck = [u \in SsMachines |-> FALSE]
  /\ ssChunks = 0 /\ ssTyped = 0 /\ ssFaults = 0 /\ ssPanic = FALSE

\* What the session and console bookkeeping of a step leaves alone.
ssShared == <<ssStore, ssState, ssCount, ssWg, ssWriters>>
ssIO == <<ssEsc, ssCopy, ssSeen, ssJoinedAt, ssChunks, ssTyped>>
ssConn == <<ssOpen, ssHere, ssExit>>

-----------------------------------------------------------------------------
(* Who may open a session.                                                 *)

\* filterMachine: exactly one Machine of the name the Hardware refers to.
filterMachine(c) == c.machines = 1

\* ReadAuthSecret: a user name and a password.
ReadAuthSecret(c) == {"username", "password"} \subseteq c.secret

\* The port is the default one only where options are given without one.
FilterBMCMachine(c) ==
  IF c.hardware = 1 /\ filterMachine(c) /\ ReadAuthSecret(c)
  THEN [found |-> TRUE, keys |-> c.keys,
        port |-> IF ~c.options THEN 0 ELSE IF c.port = 0 THEN 623 ELSE c.port]
  ELSE [found |-> FALSE, keys |-> <<>>, port |-> 0]

\* PubkeyAuth: keys that cannot be parsed are passed over.
PubkeyAuth(s) ==
  LET hw == FilterBMCMachine(Consoles[UserOf(s)])
  IN hw.found /\ \E i \in 1 .. Len(hw.keys) : hw.keys[i] # "bad" /\ hw.keys[i] = KeyOf(s)

Connect(s) ==
  /\ ~ssPanic /\ ssAt[s] = "none"
  /\ IF PubkeyAuth(s)
     THEN /\ ssAt' = [ssAt EXCEPT ![s] = "handler"]
          /\ ssOpen' = [ssOpen EXCEPT ![s] = TRUE] /\ ssHere' = [ssHere EXCEPT ![s] = TRUE]
          /\ ssBmc' = [ssBmc EXCEPT ![s] = TRUE]
     ELSE /\ ssAt' = [ssAt EXCEPT ![s] = "done"] /\ UNCHANGED <<ssOpen, ssHere, ssBmc>>
  /\ UNCHANGED <<ssShared, ssIO, ssExit, ssCmd, ssSol, ssStuck, ssFaults, ssPanic>>

\* The client goes away, or the server's idle timeout closes the connection.
Disconnect(s) ==
  /\ ~ssPanic /\ ssHere[s]
  /\ ssHere' = [ssHere EXCEPT ![s] = FALSE] /\ ssOpen' = [ssOpen EXCEPT ![s] = FALSE]
  /\ UNCHANGED <<ssAt, ssBmc, ssStuck, ssShared, ssIO, ssExit, ssCmd, ssSol, ssFaults, ssPanic>>

-----------------------------------------------------------------------------
(* Handler and initialSession.                                             *)

\* Handler: a stored State makes it an additional session.
Handler(s) ==
  /\ ~ssPanic /\ ssAt[s] = "handler"
  /\ LET st == ssStore[UserOf(s)]
     IN /\ ssState' = [ssState EXCEPT ![s] = st]
        /\ ssAt' = [ssAt EXCEPT ![s] = IF st = SsNone THEN "initial" ELSE "additional"]
  /\ UNCHANGED <<ssBmc, ssStuck, ssStore, ssCount, ssWg, ssWriters, ssIO, ssConn, ssCmd, ssSol, ssFaults,
                 ssPanic>>

\* initialSession up to cmd.Wait: ipmitool is started, which activates the
\* console, or ends at once where it is active, then the State is stored.
StartCommand(s) ==
  /\ ~ssPanic /\ ssAt[s] = "initial"
  /\ \/ /\ ssFaults < MaxSsFaults /\ ssFaults' = ssFaults + 1    \* a pipe, or the command, fails
        /\ ssAt' = [ssAt EXCEPT ![s] = "done"] /\ ssOpen' = [ssOpen EXCEPT ![s] = FALSE]
        /\ UNCHANGED <<ssCmd, ssSol>>
     \/ /\ ssAt' = [ssAt EXCEPT ![s] = "started"]
        /\ IF ssSol[UserOf(s)] = SsNone
           THEN /\ ssCmd' = [ssCmd EXCEPT ![s] = "runs"]
                /\ ssSol' = [ssSol EXCEPT ![UserOf(s)] = s]
           ELSE ssCmd' = [ssCmd EXCEPT ![s] = "ended"] /\ UNCHANGED ssSol
        /\ UNCHANGED <<ssOpen, ssFaults>>
  /\ UNCHANGED <<ssBmc, ssStuck, ssShared, ssIO, ssHere, ssExit, ssPanic>>

StoreState(s) ==
  /\ ~ssPanic /\ ssAt[s] = "started"
  /\ ssStore' = [ssStore EXCEPT ![UserOf(s)] = s]
  /\ ssState' = [ssState EXCEPT ![s] = s]
  /\ ssCopy' = [ssCopy EXCEPT ![s] = TRUE]
  /\ ssAt' = [ssAt EXCEPT ![s] = "serving"]
  /\ UNCHANGED <<ssBmc, ssStuck, ssCount, ssWg, ssWriters, ssEsc, ssSeen, ssJoinedAt, ssChunks, ssTyped,
                 ssConn, ssCmd, ssSol, ssFaults, ssPanic>>

\* ipmitool ends: by itself, or killed when the context of its session
\* ends, which leaves the console active.
CommandEnds(s) ==
  /\ ~ssPanic /\ ssCmd[s] = "runs"
  /\ \/ ~ssHere[s] /\ UNCHANGED <<ssSol, ssFaults>>
     \/ /\ ssFaults < MaxSsFaults /\ ssFaults' = ssFaults + 1
        /\ ssSol' = [ssSol EXCEPT ![UserOf(s)] = SsNone]
  /\ ssCmd' = [ssCmd EXCEPT ![s] = "ended"]
  /\ UNCHANGED <<ssAt, ssBmc, ssStuck, ssShared, ssIO, ssConn, ssPanic>>

\* After cmd.Wait: the State stored now is looked at, which is not there
\* when another initial session of the machine has removed it.
Closing(s) ==
  /\ ~ssPanic /\ ssAt[s] = "serving" /\ ssCmd[s] = "ended"
  /\ LET v == ssStore[UserOf(s)]
     IN IF v = SsNone
        THEN ssPanic' = TRUE /\ UNCHANGED <<ssAt, ssState>>
        ELSE /\ ssState' = [ssState EXCEPT ![s] = v]
             /\ ssAt' = [ssAt EXCEPT ![s] = IF ssCount[v] > 0 THEN "signal" ELSE "wait"]
             /\ UNCHANGED ssPanic
  /\ ssCopy' = [ssCopy EXCEPT ![s] = FALSE]
  /\ UNCHANGED <<ssBmc, ssStuck, ssStore, ssCount, ssWg, ssWriters, ssEsc, ssSeen, ssJoinedAt, ssChunks,
                 ssTyped, ssConn, ssCmd, ssSol, ssFaults>>

\* The signal is received by one additional session, where one selects.
SignalClosed(s, a) ==
  /\ ~ssPanic /\ ssAt[s] = "signal" /\ ssAt[a] = "joined" /\ ssState[a] = ssState[s]
  /\ ssAt' = [ssAt EXCEPT ![s] = "wait", ![a] = "leaving"]
  /\ ssOpen' = [ssOpen EXCEPT ![a] = FALSE]
  /\ UNCHANGED <<ssBmc, ssStuck, ssShared, ssIO, ssHere, ssExit, ssCmd, ssSol, ssFaults, ssPanic>>

\* A mutant of WaitSessions: the State stays stored.
WaitForgetful(s) ==
  /\ ~ssPanic /\ ssAt[s] = "wait" /\ ssWg[ssState[s]] = 0
  /\ ssAt' = [ssAt EXCEPT ![s] = "deactivate"]
  /\ UNCHANGED <<ssBmc, ssStuck, ssShared, ssIO, ssConn, ssCmd, ssSol, ssFaults, ssPanic>>

\* v.wg.Wait, then the State is removed.
WaitSessions(s) ==
  /\ ~ssPanic /\ ssAt[s] = "wait" /\ ssWg[ssState[s]] = 0
  /\ ssStore' = [ssStore EXCEPT ![UserOf(s)] = SsNone]
  /\ ssAt' = [ssAt EXCEPT ![s] = "deactivate"]
  /\ UNCHANGED <<ssBmc, ssStuck, ssState, ssCount, ssWg, ssWriters, ssIO, ssConn, ssCmd, ssSol, ssFaults,
                 ssPanic>>

\* The console is deactivated, whoever has it by now.  A failure is logged.
Deactivate(s) ==
  /\ ~ssPanic /\ ssAt[s] = "deactivate"
  /\ LET u == UserOf(s)
     IN \/ /\ ssCmd' = [x \in Sessions |-> IF x = ssSol[u] THEN "ended" ELSE ssCmd[x]]
           /\ ssSol' = [ssSol EXCEPT ![u] = SsNone] /\ ssStuck' = [ssStuck EXCEPT ![u] = FALSE]
           /\ UNCHANGED ssFaults
        \/ /\ ssFaults < MaxSsFaults /\ ssFaults' = ssFaults + 1
           /\ ssStuck' = [ssStuck EXCEPT ![u] = TRUE] /\ UNCHANGED <<ssCmd, ssSol>>
  /\ ssAt' = [ssAt EXCEPT ![s] = "done"] /\ ssOpen' = [ssOpen EXCEPT ![s] = FALSE]
  /\ UNCHANGED <<ssBmc, ssShared, ssIO, ssHere, ssExit, ssPanic>>

-----------------------------------------------------------------------------
(* additionalSession.                                                      *)

\* A mutant of With: the writer replaces the ones before.
WithOnly(writers, a) == <<a>>

\* MultiWriter.Add.
With(writers, a) == Append(writers, a)

\* A session looked up earlier joins a State, even one removed since.
Join(a) ==
  /\ ~ssPanic
  /\ LET st == ssState[a]
     IN \/ /\ ssAt[a] = "additional" /\ ssAt' = [ssAt EXCEPT ![a] = "counted"]
           /\ ssCount' = [ssCount EXCEPT ![st] = @ + 1]
           /\ UNCHANGED <<ssWg, ssWriters, ssJoinedAt>>
        \/ /\ ssAt[a] = "counted" /\ ssAt' = [ssAt EXCEPT ![a] = "joined"]
           /\ ssWg' = [ssWg EXCEPT ![st] = @ + 1]
           /\ ssWriters' = [ssWriters EXCEPT ![st] = With(@, a)]
           /\ ssJoinedAt' = [ssJoinedAt EXCEPT ![a] = Len(ssSeen[st])]
           /\ UNCHANGED ssCount
  /\ UNCHANGED <<ssBmc, ssStuck, ssStore, ssState, ssEsc, ssCopy, ssSeen, ssChunks, ssTyped, ssConn, ssCmd,
                 ssSol, ssFaults, ssPanic>>

\* The select: the context ended, or the escape was typed.
SelectLeave(a) ==
  /\ ~ssPanic /\ ssAt[a] = "joined" /\ (~ssHere[a] \/ ssExit[a])
  /\ ssAt' = [ssAt EXCEPT ![a] = "leaving"] /\ ssOpen' = [ssOpen EXCEPT ![a] = FALSE]
  /\ UNCHANGED <<ssBmc, ssStuck, ssShared, ssIO, ssHere, ssExit, ssCmd, ssSol, ssFaults, ssPanic>>

\* MultiWriter.Remove: the nth of the writers that are kept has n - 1 of them before it.
Without(writers, a) ==
  LET kept == {i \in DOMAIN writers : writers[i] # a}
  IN [n \in 1..Cardinality(kept) |->
        writers[CHOOSE i \in kept : Cardinality({j \in kept : j < i}) = n - 1]]

\* A mutant of LeaveConsole: wg.Done is called on the way out and deferred too.
LeavesTwice(a) ==
  /\ ~ssPanic /\ ssAt[a] = "leaving"
  /\ LET st == ssState[a]
     IN /\ ssWriters' = [ssWriters EXCEPT ![st] = Without(@, a)]
        /\ ssCount' = [ssCount EXCEPT ![st] = @ - 1]
        /\ ssWg' = [ssWg EXCEPT ![st] = @ - 2]
  /\ ssAt' = [ssAt EXCEPT ![a] = "done"]
  /\ UNCHANGED <<ssBmc, ssStuck, ssStore, ssState, ssIO, ssConn, ssCmd, ssSol, ssFaults, ssPanic>>

\* The deferred calls.
LeaveConsole(a) ==
  /\ ~ssPanic /\ ssAt[a] = "leaving"
  /\ LET st == ssState[a]
     IN /\ ssWriters' = [ssWriters EXCEPT ![st] = Without(@, a)]
        /\ ssCount' = [ssCount EXCEPT ![st] = @ - 1]
        /\ ssWg' = [ssWg EXCEPT ![st] = @ - 1]
  /\ ssAt' = [ssAt EXCEPT ![a] = "done"]
  /\ UNCHANGED <<ssBmc, ssStuck, ssStore, ssState, ssIO, ssConn, ssCmd, ssSol, ssFaults, ssPanic>>

-----------------------------------------------------------------------------
(* Input and output.                                                       *)

\* How far a chunk gets: to the writers before the first that is closed.
Reached(writers) ==
  {i \in 1 .. Len(writers) : \A j \in 1 .. i : ssOpen[writers[j]]}

\* MultiWriter.Write, after the write to the initial session itself: a
\* writer that fails stops the copying for good.
Output(s) ==
  /\ ~ssPanic /\ ssCmd[s] = "runs" /\ ssCopy[s] /\ ssChunks < MaxChunks
  /\ LET all == <<s>> \o ssWriters[s]
         got == {all[i] : i \in Reached(all)}
     IN /\ ssSeen' = [x \in Sessions |-> IF x \in got THEN Append(ssSeen[x], ssChunks) ELSE ssSeen[x]]
        /\ ssCopy' = [ssCopy EXCEPT ![s] = Cardinality(Reached(all)) = Len(all)]
  /\ ssChunks' = ssChunks + 1
  /\ UNCHANGED <<ssAt, ssBmc, ssStuck, ssShared, ssEsc, ssJoinedAt, ssTyped, ssConn, ssCmd, ssSol, ssFaults,
                 ssPanic>>

\* The escape watcher: after a tilde the next character is consumed.
Escaped(at, c) ==
  CASE at = "scan" -> IF c = "~" THEN "tilde" ELSE "scan"
    [] at = "tilde" -> IF c = "." THEN "stopped" ELSE "scan"
    [] OTHER -> at

\* A character is typed, sent to ipmitool and watched.  A watcher that has
\* stopped blocks the copying of input.
Type(s, c) ==
  /\ ~ssPanic /\ ssOpen[s] /\ ssAt[s] \in {"serving", "joined"} /\ ssTyped < MaxKeys
  /\ ssEsc[s] # "stopped"
  /\ ssTyped' = ssTyped + 1
  /\ LET next == Escaped(ssEsc[s], c)
     IN /\ ssEsc' = [ssEsc EXCEPT ![s] = next]
        /\ IF next = "stopped" /\ ssAt[s] = "serving"
           THEN ssOpen' = [ssOpen EXCEPT ![s] = FALSE] /\ UNCHANGED ssExit
           ELSE ssExit' = [ssExit EXCEPT ![s] = next = "stopped"] /\ UNCHANGED ssOpen
  /\ UNCHANGED <<ssAt, ssBmc, ssStuck, ssShared, ssHere, ssCopy, ssSeen, ssJoinedAt, ssChunks, ssCmd, ssSol,
                 ssFaults, ssPanic>>

SsStep(s) ==
  \/ Handler(s) \/ StartCommand(s) \/ StoreState(s) \/ CommandEnds(s) \/ Closing(s)
  \/ WaitSessions(s) \/ Deactivate(s) \/ Join(s) \/ SelectLeave(s) \/ LeaveConsole(s)
  \/ \E a \in Sessions : SignalClosed(s, a)

SsNext ==
  \E s \in Sessions :
    \/ SsStep(s) \/ Connect(s) \/ Disconnect(s) \/ Output(s)
    \/ \E c \in {"~", "."} : Type(s, c)

SsSpec == SsInit /\ [][SsNext]_ssVars

\* Every goroutine of the server runs on, and a killed command ends.
SsFairSpec == SsSpec /\ \A s \in Sessions : WF_ssVars(SsStep(s))

-----------------------------------------------------------------------------

SsTypeOK ==
  /\ ssAt \in [Sessions -> {"none", "handler", "initial", "started", "serving", "signal", "wait",
                            "deactivate", "additional", "counted", "joined", "leaving", "done"}]
  /\ ssStore \in [SsMachines -> Sessions \cup {SsNone}]
  /\ ssState \in [Sessions -> Sessions \cup {SsNone}]
  /\ ssCount \in [Sessions -> Nat] /\ ssWg \in [Sessions -> Nat]
  /\ \A s \in Sessions : ssWriters[s] \in Seq(Sessions)
  /\ ssCmd \in [Sessions -> {"none", "runs", "ended"}]
  /\ ssStuck \in [SsMachines -> BOOLEAN]

\* However sessions race to open and close a console, once the last one of
\* a machine is done its State is not left behind, which would make every
\* later session wait for one that is gone, and neither is the activated
\* console, which would turn the next session away, unless the last of its
\* deactivations failed.
ConsoleReleased ==
  ~ssPanic =>
    \A u \in SsMachines :
      (\A s \in Sessions : UserOf(s) = u => ssAt[s] \in {"none", "handler", "done"})
        => ssStore[u] = SsNone /\ (ssSol[u] = SsNone \/ ssStuck[u])

\* A session that joined has seen all the console wrote since, in its order,
\* whoever joined or left meanwhile, for as long as output is copied.
JoinedSeesAll ==
  \A a, s \in Sessions :
    ssAt[a] = "joined" /\ ssState[a] = s /\ ssCopy[s]
      => ssSeen[a] = SubSeq(ssSeen[s], ssJoinedAt[a] + 1, Len(ssSeen[s]))

\* Every session that has joined an initial session is closed when that one
\* signals its end: State documents initialClosed as the channel to signal to
\* all connected sessions that the initial session has closed.
AllToldOfTheEnd ==
  \A a, s \in Sessions :
    (ssAt[a] = "joined" /\ ssState[a] = s /\ ssAt[s] = "signal") ~> (ssAt[a] # "joined")

\* A console is shared by the sessions that are there and by no others.
ConsoleShared == ConsoleReleased /\ JoinedSeesAll
=============================================================================
