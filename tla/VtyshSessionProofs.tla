------------------------- MODULE VtyshSessionProofs -------------------------
(***************************************************************************)
(* Theorems about VtyshSession, for a descriptor table of any size and any *)
(* rules, texts and ports: what happens to stderr when tools are run with  *)
(* few descriptors left or none; which descriptors stay open; that rules   *)
(* stay in force and ports open.                                           *)
(***************************************************************************)
EXTENDS VtyshSession, NatBounds, FiniteSetTheorems

\* What a descriptor may be.
What == {Closed, "tty", "null", "file"}

\* A new descriptor is one that was closed, or there is none.
LEMMA FdIsClosed ==
  ASSUME NEW t \in [Fds -> What]
  PROVE  Fd(t) = None \/ (Fd(t) \in Fds /\ t[Fd(t)] = Closed)
<1>1. CASE Full(t)
  BY <1>1 DEF Fd
<1>2. CASE ~Full(t)
  <2> DEFINE free == Fds \ OpenFds(t)
  <2>1. free # {} /\ free \subseteq Nat
    BY <1>2, SessionAssumption DEF Full, OpenFds, Fds, Stderr
  <2>2. PICK x \in free : \A y \in free : x <= y
    <3> HIDE DEF free
    <3> QED
      BY <2>1, NatLeast
  <2>6. Min(free) \in free
    BY <2>2, Zenon DEF Min
  <2> QED
    BY <2>6, <1>2 DEF Fd, OpenFds
<1> QED
  BY <1>1, <1>2

----------------------------------------------------------------------------
\* A tool leaves stderr as it was, if it could be started.
LEMMA SystemCommandRestores ==
  ASSUME NEW t \in [Fds -> What], t[Stderr] # Closed, NEW forks \in BOOLEAN
  PROVE  /\ SystemCommand(t, forks) \in [Fds -> What]
         /\ SystemCommand(t, forks)[Stderr] # Closed
         /\ forks => SystemCommand(t, forks)[Stderr] = t[Stderr]
<1> DEFINE save_out == Fd(t)
           t1       == OpenAt(t, save_out, t[Stderr])
           dnull    == Fd(t1)
           t2       == Dup2(OpenAt(t1, dnull, "null"), dnull, Stderr)
           t3       == IF forks THEN Dup2(t2, save_out, Stderr) ELSE t2
<1>0. Stderr \in Fds /\ None \notin Fds /\ Stderr # None
  BY SessionAssumption DEF Fds, Stderr, None
<1>1. save_out = None \/ (save_out \in Fds /\ t[save_out] = Closed)
  BY FdIsClosed
<1>2. /\ t1 \in [Fds -> What] /\ t1[Stderr] = t[Stderr]
      /\ save_out = None => t1 = t
      /\ save_out # None => t1[save_out] = t[Stderr]
  BY <1>0, <1>1 DEF OpenAt, What
<1>3. dnull = None \/ (dnull \in Fds /\ t1[dnull] = Closed)
  BY <1>2, FdIsClosed
<1>4. save_out = None => dnull = None
  BY <1>2, <1>1, <1>0, FdIsClosed DEF Fd
<1>5. save_out # None => save_out # dnull
  BY <1>1, <1>2, <1>3
<1> HIDE DEF save_out, t1, dnull
<1>6. /\ t2 \in [Fds -> What] /\ t2[Stderr] # Closed
      /\ dnull = None => t2 = t1
      /\ save_out # None => t2[save_out] = t[Stderr]
  BY <1>0, <1>1, <1>2, <1>3, <1>5 DEF OpenAt, Dup2, What, Closed
<1> HIDE DEF t2
<1>7. /\ t3 \in [Fds -> What] /\ t3[Stderr] # Closed
      /\ forks => t3[Stderr] = t[Stderr]
  BY <1>0, <1>1, <1>2, <1>4, <1>6 DEF Dup2, What, Closed
<1>8. SystemCommand(t, forks) = Close(t3, dnull)
  BY Zenon DEF SystemCommand, save_out, t1, dnull, t2
<1> HIDE DEF t3
<1>9. dnull # Stderr
  BY <1>0, <1>2, <1>3
<1> QED
  BY <1>0, <1>3, <1>7, <1>8, <1>9 DEF Close, OpenAt, What

----------------------------------------------------------------------------
\* The table has its shape, stderr is never closed, and it is the terminal as
\* long as every fork succeeds.
StderrInv ==
  /\ fds \in [Fds -> What]
  /\ forkFailed \in BOOLEAN
  /\ fds[Stderr] # Closed
  /\ StderrRestored

\* What a command opens in a closed slot is never stderr.
LEMMA OpenKeepsStderr ==
  ASSUME NEW t \in [Fds -> What], t[Stderr] # Closed
  PROVE  /\ OpenAt(t, Fd(t), "file") \in [Fds -> What]
         /\ OpenAt(t, Fd(t), "file")[Stderr] = t[Stderr]
         /\ Close(OpenAt(t, Fd(t), "file"), Fd(t)) \in [Fds -> What]
         /\ Close(OpenAt(t, Fd(t), "file"), Fd(t))[Stderr] = t[Stderr]
<1>1. Stderr \in Fds /\ None \notin Fds
  BY SessionAssumption DEF Fds, Stderr, None
<1>2. Fd(t) = None \/ (Fd(t) \in Fds /\ t[Fd(t)] = Closed)
  BY FdIsClosed
<1> QED
  BY <1>1, <1>2 DEF OpenAt, Close, What

\* External: every tool keeps the invariant, the fork that fails included.
LEMMA ExternalKeepsStderr ==
  ASSUME StderrInv, NEW nodes, NEW forks \in BOOLEAN, External(nodes, forks)
  PROVE  StderrInv'
<1>1. /\ fds' \in [Fds -> What] /\ fds'[Stderr] # Closed
      /\ forks => fds'[Stderr] = fds[Stderr]
  BY SystemCommandRestores DEF StderrInv, External
<1>2. forkFailed' = (forkFailed \/ ~forks)
  BY DEF External
<1>3. forkFailed' \in BOOLEAN
  BY <1>2, Zenon DEF StderrInv
<1>4. fds'[Stderr] = "tty" \/ forkFailed'
  BY <1>1, <1>2 DEF StderrInv, StderrRestored
<1> QED
  BY <1>1, <1>3, <1>4 DEF StderrInv, StderrRestored, Stderr, Fds, Closed, What

\* Only four kinds of command touch the table: tools, files shown, files written and
\* applies; each keeps stderr.
LEMMA StderrStep == StderrInv /\ [Next]_vars => StderrInv'
<1> SUFFICES ASSUME StderrInv, [Next]_vars
             PROVE  StderrInv'
  OBVIOUS
<1> USE DEF StderrInv, StderrRestored
<1>1. CASE UNCHANGED <<fds, forkFailed>>
  BY <1>1
<1>2. ASSUME NEW forks \in BOOLEAN,
             Ping(forks) \/ Tcpdump(forks) \/ ShowIp(forks) \/ IpAddress(forks)
      PROVE  StderrInv'
  BY <1>2, ExternalKeepsStderr DEF Ping, Tcpdump, ShowIp, IpAddress
<1>3. CASE ShowFile
  BY <1>3, OpenKeepsStderr DEF ShowFile
<1>4. CASE WriteFile
  BY <1>4, OpenKeepsStderr DEF WriteFile
<1>5. ASSUME NEW k \in Kinds, Apply(k)
      PROVE  StderrInv'
  <2>1. forkFailed' = forkFailed /\ (fds' = fds \/ fds' = OpenAt(fds, Fd(fds), "file"))
    BY <1>5 DEF Apply
  <2> QED
    BY <2>1, OpenKeepsStderr
<1> QED
  BY <1>1, <1>2, <1>3, <1>4, <1>5
     DEF Next, vars, Enable, Disable, ConfigTerminal, Exit, Move, Reboot, EndOfInput,
         Change, Provide, WgListenport

\* StderrRestored holds for a descriptor table of any size and any rules: a tool
\* started with one slot left, or with none, gives the terminal back
\* (command.c cmd_execute_system_command).
THEOREM StderrRestoredTheorem == Spec => []StderrRestored
<1>1. Init => StderrInv
  BY SessionAssumption DEF Init, StderrInv, StderrRestored, What, Closed, Fds, Stderr
<1>2. StderrInv => StderrRestored
  BY DEF StderrInv
<1> QED
  BY <1>1, <1>2, StderrStep, PTL DEF Spec

----------------------------------------------------------------------------
(* Which descriptors are open.                                             *)

\* There is no new descriptor exactly if the table is full.
LEMMA FdIsNone ==
  ASSUME NEW t \in [Fds -> What]
  PROVE  Fd(t) = None <=> Full(t)
<1>1. None \notin Fds
  BY SessionAssumption DEF Fds, None
<1>2. Full(t) => Fd(t) = None
  BY DEF Fd
<1>3. ASSUME ~Full(t), Fd(t) = None PROVE FALSE
  <2> DEFINE free == Fds \ OpenFds(t)
  <2>1. free # {} /\ free \subseteq Nat
    BY <1>3, SessionAssumption DEF Full, OpenFds, Fds, Stderr
  <2>2. PICK x \in free : \A y \in free : x <= y
    <3> HIDE DEF free
    <3> QED
      BY <2>1, NatLeast
  <2>3. Min(free) \in free
    BY <2>2, Zenon DEF Min
  <2> QED
    BY <1>1, <1>3, <2>3 DEF Fd
<1> QED
  BY <1>2, <1>3

\* One more than before, if the table was not full.
Grown(t, u) == OpenFds(u) = IF Full(t) THEN OpenFds(t) ELSE OpenFds(t) \cup {Fd(t)}

\* A tool leaves one descriptor open, the one stderr was saved in.
LEMMA SystemCommandGrows ==
  ASSUME NEW t \in [Fds -> What], t[Stderr] # Closed, NEW forks \in BOOLEAN
  PROVE  Grown(t, SystemCommand(t, forks))
<1> DEFINE save_out == Fd(t)
           t1       == OpenAt(t, save_out, t[Stderr])
           dnull    == Fd(t1)
           t2       == Dup2(OpenAt(t1, dnull, "null"), dnull, Stderr)
           t3       == IF forks THEN Dup2(t2, save_out, Stderr) ELSE t2
<1>0. Stderr \in Fds /\ None \notin Fds /\ Stderr # None
  BY SessionAssumption DEF Fds, Stderr, None
<1>1. /\ save_out = None \/ (save_out \in Fds /\ t[save_out] = Closed)
      /\ save_out = None <=> Full(t)
  BY FdIsClosed, FdIsNone
<1>2. /\ t1 \in [Fds -> What] /\ t1[Stderr] # Closed
      /\ save_out = None => t1 = t
      /\ save_out # None => t1[save_out] # Closed
      /\ \A i \in Fds \ {save_out} : t1[i] = t[i]
  BY <1>0, <1>1 DEF OpenAt, What
<1>3. dnull = None \/ (dnull \in Fds /\ t1[dnull] = Closed)
  BY <1>2, FdIsClosed
<1>4. dnull = None \/ (dnull # Stderr /\ dnull # save_out)
  BY <1>0, <1>1, <1>2, <1>3
<1>5. save_out # None => save_out # Stderr
  BY <1>1
<1>6. SystemCommand(t, forks) = Close(t3, dnull)
  BY Zenon DEF SystemCommand
<1> HIDE DEF save_out, t1, dnull
<1>7. /\ t2 \in [Fds -> What] /\ t2[Stderr] # Closed
      /\ \A i \in Fds \ {dnull, Stderr} : t2[i] = t1[i]
  BY <1>0, <1>2, <1>3, <1>4 DEF OpenAt, Dup2, What, Closed
<1> HIDE DEF t2
<1>8. save_out # None => t2[save_out] # Closed
  BY <1>1, <1>2, <1>3, <1>4, <1>5, <1>7
<1>9. /\ t3 \in [Fds -> What] /\ t3[Stderr] # Closed
      /\ \A i \in Fds \ {dnull, Stderr} : t3[i] = t1[i]
  BY <1>0, <1>1, <1>7, <1>8 DEF Dup2
<1> HIDE DEF t3
<1>10. /\ Close(t3, dnull)[Stderr] # Closed
       /\ dnull # None => Close(t3, dnull)[dnull] = Closed
       /\ \A i \in Fds \ {dnull, Stderr} : Close(t3, dnull)[i] = t1[i]
  BY <1>0, <1>3, <1>4, <1>9 DEF Close, OpenAt, What
<1>11. \A i \in Fds : Close(t3, dnull)[i] # Closed <=> t1[i] # Closed
  BY <1>0, <1>2, <1>3, <1>10
<1>12. \A i \in Fds : t1[i] # Closed <=> t[i] # Closed \/ i = save_out
  BY <1>0, <1>1, <1>2
<1>13. OpenFds(Close(t3, dnull)) = {i \in Fds : t[i] # Closed \/ i = save_out}
  BY <1>11, <1>12 DEF OpenFds
<1>14. {i \in Fds : t[i] # Closed \/ i = save_out} = IF Full(t) THEN OpenFds(t) ELSE OpenFds(t) \cup {save_out}
  BY <1>0, <1>1 DEF OpenFds
<1> QED
  BY <1>6, <1>13, <1>14 DEF Grown, save_out

\* A file that is opened takes a descriptor; one that is closed again does not.
LEMMA OpenGrows ==
  ASSUME NEW t \in [Fds -> What]
  PROVE  /\ Grown(t, OpenAt(t, Fd(t), "file"))
         /\ OpenFds(Close(OpenAt(t, Fd(t), "file"), Fd(t))) = OpenFds(t)
<1>1. /\ Fd(t) = None \/ (Fd(t) \in Fds /\ t[Fd(t)] = Closed)
      /\ Fd(t) = None <=> Full(t)
      /\ None \notin Fds
  BY FdIsClosed, FdIsNone, SessionAssumption DEF Fds, None
<1> QED
  BY <1>1 DEF Grown, OpenAt, Close, OpenFds, What, Closed

\* The number of open descriptors.
LEMMA GrownCount ==
  ASSUME NEW t \in [Fds -> What], NEW u, Grown(t, u)
  PROVE  Cardinality(OpenFds(u)) = Cardinality(OpenFds(t)) + (IF Full(t) THEN 0 ELSE 1)
<1>1. IsFiniteSet(Fds)
  BY FS_Interval, SessionAssumption DEF Fds
<1>2. IsFiniteSet(OpenFds(t)) /\ Cardinality(OpenFds(t)) \in Nat
  BY <1>1, FS_Subset, FS_CardinalityType DEF OpenFds
<1>3. CASE Full(t)
  BY <1>2, <1>3 DEF Grown
<1>4. CASE ~Full(t)
  <2>1. Fd(t) \notin OpenFds(t)
    BY <1>4, FdIsClosed, FdIsNone DEF OpenFds
  <2> QED
    BY <1>2, <1>4, <2>1, FS_AddElement DEF Grown
<1> QED
  BY <1>3, <1>4

\* With the table's shape: the descriptors are accounted for.
CountInv == StderrInv /\ leaky \in Nat /\ DescriptorsAccounted

\* Every command takes as many descriptors as it is charged for.
LEMMA CountStep == CountInv /\ [Next]_vars => CountInv'
<1> SUFFICES ASSUME CountInv, [Next]_vars
             PROVE  CountInv'
  OBVIOUS
<1>1. fds \in [Fds -> What] /\ fds[Stderr] # Closed /\ leaky \in Nat /\ DescriptorsAccounted /\ StderrInv'
  BY StderrStep DEF CountInv, StderrInv
<1>2. ASSUME Grown(fds, fds'), leaky' = leaky + (IF Full(fds) THEN 0 ELSE 1)
      PROVE  CountInv'
  <2>1. Cardinality(OpenFds(fds')) = Cardinality(OpenFds(fds)) + (IF Full(fds) THEN 0 ELSE 1)
    BY <1>1, <1>2, GrownCount
  <2>2. Cardinality(OpenFds(fds')) = 3 + leaky' /\ leaky' \in Nat
    BY <1>1, <1>2, <2>1 DEF DescriptorsAccounted
  <2> QED
    BY <1>1, <2>2 DEF CountInv, DescriptorsAccounted
<1>3. ASSUME OpenFds(fds') = OpenFds(fds), leaky' = leaky
      PROVE  CountInv'
  BY <1>1, <1>3 DEF CountInv, DescriptorsAccounted
<1>4. ASSUME NEW forks \in BOOLEAN,
             Ping(forks) \/ Tcpdump(forks) \/ ShowIp(forks) \/ IpAddress(forks)
      PROVE  CountInv'
  <2>1. fds' = SystemCommand(fds, forks) /\ leaky' = leaky + (IF Full(fds) THEN 0 ELSE 1)
    BY <1>4 DEF Ping, Tcpdump, ShowIp, IpAddress, External
  <2> QED
    BY <1>1, <1>2, <2>1, SystemCommandGrows
<1>5. CASE ShowFile
  BY <1>1, <1>3, <1>5, OpenGrows DEF ShowFile
<1>6. CASE WriteFile
  BY <1>1, <1>2, <1>6, OpenGrows DEF WriteFile
<1>7. ASSUME NEW k \in Kinds, Apply(k)
      PROVE  CountInv'
  <2>1. \/ fds' = fds /\ leaky' = leaky + 0
        \/ /\ fds' = OpenAt(fds, Fd(fds), "file")
           /\ leaky' = leaky + (IF Full(fds) THEN 0 ELSE 1)
    BY <1>7 DEF Apply
  <2> QED
    BY <1>1, <1>2, <1>3, <2>1, OpenGrows
<1>8. CASE UNCHANGED <<fds, leaky>>
  BY <1>3, <1>8
<1> QED
  BY <1>4, <1>5, <1>6, <1>7, <1>8
     DEF Next, vars, Enable, Disable, ConfigTerminal, Exit, Move, Reboot, EndOfInput,
         Change, Provide, WgListenport

\* For a table of any size: what is open beside the three standard descriptors
\* are the one of each tool, each write and each apply without its text
\* (command.c cmd_execute_system_command, cmd_common.c config_write_file).
THEOREM DescriptorsAreAccounted == Spec => []DescriptorsAccounted
<1>1. Init => CountInv
  <2> SUFFICES ASSUME Init PROVE CountInv
    OBVIOUS
  <2>1. StderrInv /\ leaky \in Nat
    BY SessionAssumption DEF Init, StderrInv, StderrRestored, What, Closed, Fds, Stderr
  <2>2. OpenFds(fds) = 0 .. 2
    BY SessionAssumption DEF Init, OpenFds, Closed, Fds, Stderr
  <2>3. Cardinality(0 .. 2) = 3
    <3>1. Cardinality(0 .. 2) = IF 0 > 2 THEN 0 ELSE 2 - 0 + 1
      BY ONLY FS_Interval, 0 \in Int, 2 \in Int, Zenon
    <3> QED
      BY <3>1
  <2>4. leaky = 0
    BY DEF Init
  <2> QED
    BY <2>1, <2>2, <2>3, <2>4 DEF CountInv, DescriptorsAccounted
<1>2. CountInv => DescriptorsAccounted
  BY DEF CountInv
<1> QED
  BY <1>1, <1>2, CountStep, PTL DEF Spec

----------------------------------------------------------------------------
(* The firewall.                                                           *)

\* What the loop over a text file writes are entries of the firewall.
LEMMA TranslateType ==
  ASSUME NEW k \in Kinds, NEW lines \in Seq(Rules \cup {Junk})
  PROVE  Translate(k, lines) \in Seq(Entries)
<1> DEFINE n == Len(lines)
           E == Seq(Entries)
           Turn(i, s) == IF lines[i] \in Rules THEN Append(s, [kind |-> k, of |-> lines[i]]) ELSE s
           Copying(f) == [m \in 0 .. n |->
                           IF m = 0 THEN <<>>
                           ELSE IF lines[m] \in Rules THEN Append(f[m - 1], [kind |-> k, of |-> lines[m]])
                           ELSE f[m - 1]]
           Begun(m, f) == f[0] = <<>> /\ \A i \in 1 .. m : f[i] = Turn(i, f[i - 1])
<1>1. n \in Nat /\ <<>> \in E
  OBVIOUS
<1>2. ASSUME NEW i \in 1 .. n, NEW s \in E PROVE Turn(i, s) \in E
  BY DEF Entries
<1>3. \A m \in Nat : m <= n => \E f \in [0 .. m -> E] : Begun(m, f)
  <2> DEFINE P == {m \in Nat : m <= n => \E f \in [0 .. m -> E] : Begun(m, f)}
  <2> HIDE DEF n, E, Turn
  <2>1. 0 \in P
    <3>1. [i \in 0 .. 0 |-> <<>>] \in [0 .. 0 -> E] /\ Begun(0, [i \in 0 .. 0 |-> <<>>])
      BY <1>1
    <3> HIDE DEF Begun
    <3> QED
      BY <3>1
  <2>2. ASSUME NEW m \in Nat, m \in P PROVE m + 1 \in P
    <3> SUFFICES ASSUME m + 1 <= n PROVE \E f \in [0 .. m + 1 -> E] : Begun(m + 1, f)
      OBVIOUS
    <3>1. PICK f \in [0 .. m -> E] : Begun(m, f)
      BY <2>2, <1>1
    <3> DEFINE e == [i \in 0 .. m + 1 |-> IF i = m + 1 THEN Turn(m + 1, f[m]) ELSE f[i]]
    <3>2. m + 1 \in 1 .. n /\ f[m] \in E /\ Turn(m + 1, f[m]) \in E
      BY <1>1, <1>2
    <3>3. e \in [0 .. m + 1 -> E]
      BY <3>2
    <3>4. e[m + 1] = Turn(m + 1, f[m]) /\ \A i \in 0 .. m : e[i] = f[i]
      OBVIOUS
    <3> HIDE DEF e
    <3>5. ASSUME NEW i \in 1 .. m + 1 PROVE e[i] = Turn(i, e[i - 1])
      <4>1. CASE i = m + 1
        BY <4>1, <3>4
      <4>2. CASE i # m + 1
        <5>1. i \in 1 .. m /\ i - 1 \in 0 .. m /\ i \in 0 .. m
          BY <4>2
        <5> QED
          BY <5>1, <3>1, <3>4
      <4> QED
        BY <4>1, <4>2
    <3>6. Begun(m + 1, e)
      BY <3>1, <3>4, <3>5
    <3> HIDE DEF Begun
    <3> QED
      BY <3>3, <3>6
  <2> HIDE DEF P
  <2>3. Nat \subseteq P
    BY <2>1, <2>2, NatInductive
  <2> QED
    BY <2>3 DEF P
<1>4. PICK f \in [0 .. n -> E] : Begun(n, f)
  <2> HIDE DEF n, E, Begun
  <2> QED
    BY <1>1, <1>3
<1>5. \A i \in 1 .. n : f[i] = Turn(i, f[i - 1])
  BY <1>4
<1>6. f = Copying(f)
  <2>1. ASSUME NEW m \in 0 .. n PROVE f[m] = Copying(f)[m]
    <3>1. CASE m = 0
      BY <1>1, <1>4, <3>1
    <3>2. CASE m # 0
      <4>1. m \in 1 .. n /\ m > 0
        BY <1>1, <3>2
      <4>2. f[m] = Turn(m, f[m - 1])
        BY <1>5, <4>1
      <4> QED
        BY <4>1, <4>2
    <3> QED
      BY <3>1, <3>2
  <2> QED
    BY <2>1
<1> DEFINE written == CHOOSE w : w = Copying(w)
<1>7. written = Copying(written)
  <2> HIDE DEF Copying
  <2> QED
    BY <1>6, Zenon
<1>8. Translate(k, lines) = written[n]
  BY Zenon DEF Translate
<1> HIDE DEF written
<1>9. \A i \in Nat : i <= n => written[i] \in E
  <2> DEFINE P == {i \in Nat : i <= n => written[i] \in E}
  <2>1. 0 \in P
    BY <1>1, <1>7
  <2>2. ASSUME NEW i \in Nat, i \in P PROVE i + 1 \in P
    <3> SUFFICES ASSUME i + 1 <= n PROVE written[i + 1] \in E
      OBVIOUS
    <3>1. i + 1 \in 1 .. n /\ i + 1 \in 0 .. n /\ written[i] \in E /\ (i + 1) - 1 = i
      BY <2>2, <1>1
    <3>2. written[i + 1] = Copying(written)[i + 1]
      BY <1>7
    <3>3. Copying(written)[i + 1] = Turn(i + 1, written[i])
      BY <3>1
    <3> HIDE DEF Turn, E, n
    <3> QED
      BY <1>2, <3>1, <3>2, <3>3
  <2> HIDE DEF P
  <2>3. Nat \subseteq P
    BY <2>1, <2>2, NatInductive
  <2> QED
    BY <2>3 DEF P
<1> QED
  BY <1>1, <1>8, <1>9

\* A part of a sequence is a part of what the sequence is put into.
LEMMA OccursThere ==
  ASSUME NEW E, NEW part \in Seq(E), NEW a \in Seq(E), NEW b \in Seq(E)
  PROVE  /\ Occurs(part, part)
         /\ Occurs(part, a) => Occurs(part, a \o b)
         /\ Occurs(part, b) => Occurs(part, a \o b)
<1>1. Occurs(part, part)
  <2>1. 0 \in 0 .. Len(part) - Len(part) /\ \A j \in 1 .. Len(part) : part[0 + j] = part[j]
    OBVIOUS
  <2> QED
    BY <2>1 DEF Occurs
<1>2. Len(a \o b) = Len(a) + Len(b) /\ Len(a) \in Nat /\ Len(b) \in Nat /\ Len(part) \in Nat
  OBVIOUS
<1>3. ASSUME Occurs(part, a) PROVE Occurs(part, a \o b)
  <2>1. PICK i \in 0 .. Len(a) - Len(part) : \A j \in 1 .. Len(part) : a[i + j] = part[j]
    BY <1>3 DEF Occurs
  <2>2. i \in 0 .. Len(a \o b) - Len(part)
    BY <1>2
  <2>3. \A j \in 1 .. Len(part) : (a \o b)[i + j] = part[j]
    BY <1>2, <2>1
  <2> QED
    BY <2>2, <2>3 DEF Occurs
<1>4. ASSUME Occurs(part, b) PROVE Occurs(part, a \o b)
  <2>1. PICK i \in 0 .. Len(b) - Len(part) : \A j \in 1 .. Len(part) : b[i + j] = part[j]
    BY <1>4 DEF Occurs
  <2>2. Len(a) + i \in 0 .. Len(a \o b) - Len(part)
    BY <1>2
  <2>3. ASSUME NEW j \in 1 .. Len(part) PROVE (a \o b)[(Len(a) + i) + j] = part[j]
    <3>1. (Len(a) + i) + j \in Len(a) + 1 .. Len(a) + Len(b) /\ ((Len(a) + i) + j) - Len(a) = i + j
      BY <1>2
    <3>2. (a \o b)[(Len(a) + i) + j] = b[((Len(a) + i) + j) - Len(a)]
      BY <1>2, <3>1
    <3> QED
      BY <2>1, <3>1, <3>2
  <2> QED
    BY <2>2, <2>3 DEF Occurs
<1> QED
  BY <1>1, <1>3, <1>4

\* The same for an entry that is added.
LEMMA OccursAppend ==
  ASSUME NEW E, NEW part \in Seq(E), NEW a \in Seq(E), NEW e \in E
  PROVE  /\ Occurs(part, a) => Occurs(part, Append(a, e))
         /\ Occurs(<<e>>, Append(a, e))
<1>1. Append(a, e) = a \o <<e>> /\ <<e>> \in Seq(E)
  OBVIOUS
<1> QED
  BY <1>1, OccursThere

PortEntry == <<[kind |-> "port", of |-> port]>>

\* The rule files hold what was last applied, and firewall.ORG a port that was
\* set before it was made: the next apply will find them there.
FirewallInv ==
  /\ fw \in FirewallState
  /\ port \in Ports \cup {Missing}
  /\ last \in [Kinds -> Seq(Entries) \cup {Missing}]
  /\ \A k \in Kinds : last[k] # Missing => fw.rules[k] = last[k]
  /\ AppliedStays
  /\ PortStaysOpen
  /\ port # Missing /\ ~late => fw.org = Missing \/ Occurs(PortEntry, fw.org)

\* The firewall that apply_firewall_rules puts together.
LEMMA ApplyFirewallRulesType ==
  ASSUME NEW f \in FirewallState
  PROVE  LET g   == ApplyFirewallRules(f)
             org == IF f.org = Missing THEN f.uci ELSE f.org
             one == Content(f.rules["filter"])
             two == Content(f.rules["nat"])
         IN  /\ g \in FirewallState /\ g.txt = f.txt /\ g.org = org
             /\ org \in Seq(Entries) /\ one \in Seq(Entries) /\ two \in Seq(Entries)
             /\ \A k \in Kinds : g.rules[k] = Content(f.rules[k])
             /\ g.uci = (org \o one) \o two
<1> DEFINE g   == ApplyFirewallRules(f)
           org == IF f.org = Missing THEN f.uci ELSE f.org
           one == Content(f.rules["filter"])
           two == Content(f.rules["nat"])
<1>1. \A k \in Kinds : Content(f.rules[k]) \in Seq(Entries)
  BY DEF FirewallState, Content
<1>2. org \in Seq(Entries) /\ one \in Seq(Entries) /\ two \in Seq(Entries)
  BY <1>1 DEF FirewallState, Kinds
<1>3. g = [f EXCEPT !.org = org, !.rules = [k \in Kinds |-> Content(f.rules[k])],
                    !.uci = (org \o one) \o two]
  BY DEF ApplyFirewallRules
<1> HIDE DEF g, org, one, two
<1>4. (org \o one) \o two \in Seq(Entries)
  BY <1>2
<1>5. /\ g.txt = f.txt /\ g.org = org /\ g.uci = (org \o one) \o two
      /\ g.rules = [k \in Kinds |-> Content(f.rules[k])]
  BY <1>3 DEF FirewallState
<1>6. g \in FirewallState
  BY <1>1, <1>2, <1>3, <1>4 DEF FirewallState
<1> QED
  BY <1>1, <1>2, <1>5, <1>6 DEF g, org, one, two

\* An apply of either kind: readable, without its text file, and with a full table.
LEMMA ApplyFirewall ==
  ASSUME FirewallInv, NEW k \in Kinds, Apply(k)
  PROVE  FirewallInv'
<1> DEFINE readable == fw.txt[k] # Missing /\ Cardinality(OpenFds(fds)) + 2 <= MaxFds
           T == Translate(k, fw.txt[k])
<1>1. /\ fw \in FirewallState /\ port' = port /\ late' = late
      /\ last \in [Kinds -> Seq(Entries) \cup {Missing}]
      /\ fw' = IF Full(fds) THEN fw ELSE Applied(fw, k, readable)
      /\ last' = [last EXCEPT ![k] = IF readable THEN T ELSE IF Full(fds) THEN @ ELSE Missing]
  BY Zenon DEF FirewallInv, Apply
<1>2. Full(fds) => ~readable
  <2> SUFFICES ASSUME Full(fds) PROVE ~(Cardinality(OpenFds(fds)) + 2 <= MaxFds)
    OBVIOUS
  <2>1. MaxFds - 1 \in Int /\ 0 \in Int /\ ~(0 > MaxFds - 1)
    BY SessionAssumption DEF Stderr
  <2>2. Cardinality(Fds) = (MaxFds - 1) - 0 + 1
    BY <2>1, FS_Interval DEF Fds
  <2> QED
    BY <2>1, <2>2, SessionAssumption DEF Full
<1> HIDE DEF readable
<1>3. CASE Full(fds)
  <2>1. fw' = fw /\ last' = last
    BY <1>1, <1>2, <1>3
  <2> QED
    BY <1>1, <2>1 DEF FirewallInv, AppliedStays, PortStaysOpen, PortEntry
<1>4. CASE ~Full(fds) /\ ~readable
  <2>1. fw' = [fw EXCEPT !.rules[k] = <<>>] /\ last' = [last EXCEPT ![k] = Missing]
    BY <1>1, <1>4 DEF Applied
  <2>2. /\ fw' \in FirewallState /\ fw'.uci = fw.uci /\ fw'.org = fw.org
        /\ \A j \in Kinds \ {k} : fw'.rules[j] = fw.rules[j]
    <3>1. [fw.rules EXCEPT ![k] = <<>>] \in [Kinds -> Seq(Entries) \cup {Missing}]
      BY <1>1 DEF FirewallState
    <3>2. fw' = [fw EXCEPT !.rules = [fw.rules EXCEPT ![k] = <<>>]]
      BY <1>1, <2>1 DEF FirewallState
    <3> QED
      BY <1>1, <3>1, <3>2 DEF FirewallState
  <2>3. /\ last'[k] = Missing /\ last' \in [Kinds -> Seq(Entries) \cup {Missing}]
        /\ \A j \in Kinds \ {k} : last'[j] = last[j]
    BY <1>1, <2>1
  <2>4. AppliedStays' /\ \A j \in Kinds : last'[j] # Missing => fw'.rules[j] = last'[j]
    BY <2>2, <2>3 DEF FirewallInv, AppliedStays
  <2> QED
    BY <1>1, <2>2, <2>3, <2>4 DEF FirewallInv, PortStaysOpen, PortEntry
<1>5. CASE ~Full(fds) /\ readable
  <2>1. T \in Seq(Entries)
    BY <1>1, <1>5, TranslateType DEF FirewallState, readable
  <2> HIDE DEF T
  <2> DEFINE f   == [fw EXCEPT !.rules[k] = T]
             org == IF f.org = Missing THEN f.uci ELSE f.org
             one == Content(f.rules["filter"])
             two == Content(f.rules["nat"])
  <2>2. fw' = ApplyFirewallRules(f) /\ last' = [last EXCEPT ![k] = T]
    BY <1>1, <1>5 DEF Applied, T
  <2>3. /\ f \in FirewallState /\ f.uci = fw.uci /\ f.org = fw.org /\ f.rules[k] = T
        /\ \A j \in Kinds \ {k} : f.rules[j] = fw.rules[j]
    <3>1. [fw.rules EXCEPT ![k] = T] \in [Kinds -> Seq(Entries) \cup {Missing}]
      BY <1>1, <2>1 DEF FirewallState
    <3>2. f = [fw EXCEPT !.rules = [fw.rules EXCEPT ![k] = T]]
      BY <1>1 DEF FirewallState
    <3> HIDE DEF f
    <3> QED
      BY <1>1, <3>1, <3>2 DEF FirewallState
  <2> HIDE DEF f
  <2>4. /\ fw' \in FirewallState /\ fw'.org = org
        /\ org \in Seq(Entries) /\ one \in Seq(Entries) /\ two \in Seq(Entries)
        /\ \A j \in Kinds : fw'.rules[j] = Content(f.rules[j])
        /\ fw'.uci = (org \o one) \o two
    BY <2>2, <2>3, ApplyFirewallRulesType
  <2>5. org = (IF fw.org = Missing THEN fw.uci ELSE fw.org)
    BY <2>3
  <2> HIDE DEF org
  <2>6. /\ last' \in [Kinds -> Seq(Entries) \cup {Missing}] /\ last'[k] = T
        /\ \A j \in Kinds \ {k} : last'[j] = last[j]
    BY <1>1, <2>1, <2>2
  <2>7. ASSUME NEW j \in Kinds, last'[j] # Missing
        PROVE  fw'.rules[j] = last'[j] /\ last'[j] \in Seq(Entries) /\ Content(f.rules[j]) = last'[j]
    <3>1. f.rules[j] = last'[j]
      BY <2>3, <2>6, <2>7 DEF FirewallInv
    <3> QED
      BY <2>4, <2>6, <2>7, <3>1 DEF Content
  <2> DEFINE all == (org \o one) \o two
  <2>8. ASSUME NEW part \in Seq(Entries)
        PROVE  /\ Occurs(part, org) => Occurs(part, all)
               /\ Occurs(part, one) => Occurs(part, all)
               /\ Occurs(part, two) => Occurs(part, all)
    <3> HIDE DEF one, two
    <3>1. org \o one \in Seq(Entries)
      BY <2>4
    <3>2. /\ Occurs(part, org) => Occurs(part, org \o one)
          /\ Occurs(part, one) => Occurs(part, org \o one)
      BY <2>4, OccursThere
    <3>3. /\ Occurs(part, org \o one) => Occurs(part, all)
          /\ Occurs(part, two) => Occurs(part, all)
      BY <2>4, <3>1, OccursThere
    <3> QED
      BY <3>2, <3>3
  <2>9. ASSUME NEW j \in Kinds, last'[j] # Missing PROVE Occurs(last'[j], fw'.uci)
    <3>1. Occurs(last'[j], last'[j]) /\ (last'[j] = one \/ last'[j] = two)
      BY <2>7, <2>9, OccursThere DEF Kinds
    <3> HIDE DEF one, two, all
    <3> QED
      BY <2>4, <2>7, <2>8, <2>9, <3>1 DEF all
  <2>10. port # Missing /\ ~late => Occurs(PortEntry, org)
    BY <2>5 DEF FirewallInv, PortStaysOpen, PortEntry
  <2>11. port # Missing => PortEntry \in Seq(Entries)
    BY DEF FirewallInv, PortEntry, Entries
  <2>12. port # Missing /\ ~late => Occurs(PortEntry, fw'.uci) /\ Occurs(PortEntry, fw'.org)
    <3> HIDE DEF one, two, all
    <3> QED
      BY <2>4, <2>8, <2>10, <2>11 DEF all
  <2> QED
    BY <1>1, <2>4, <2>6, <2>7, <2>9, <2>12 DEF FirewallInv, AppliedStays, PortStaysOpen, PortEntry
<1> QED
  BY <1>3, <1>4, <1>5

\* A port that is set: nothing is removed from the firewall.
LEMMA ListenportFirewall ==
  ASSUME FirewallInv, NEW p \in Ports, WgListenport(p)
  PROVE  FirewallInv'
<1> DEFINE e == [kind |-> "port", of |-> p]
<1>1. /\ fw \in FirewallState /\ last \in [Kinds -> Seq(Entries) \cup {Missing}] /\ last' = last
      /\ late' = (fw.org # Missing) /\ e \in Entries /\ p # Missing
  BY SessionAssumption DEF FirewallInv, WgListenport, Entries
<1>2. CASE Full(fds)
  <2>1. fw' = fw /\ port' = Missing
    BY <1>2 DEF WgListenport
  <2> QED
    BY <1>1, <2>1 DEF FirewallInv, AppliedStays, PortStaysOpen
<1>3. CASE ~Full(fds)
  <2>1. fw' = [fw EXCEPT !.uci = Append(fw.uci, e)] /\ port' = p
    BY <1>1, <1>3 DEF WgListenport, AllowPort, FirewallState
  <2>2. /\ fw' \in FirewallState /\ fw'.uci = Append(fw.uci, e) /\ fw'.org = fw.org
        /\ fw'.rules = fw.rules /\ fw.uci \in Seq(Entries)
    <3> HIDE DEF e
    <3>1. fw.uci \in Seq(Entries) /\ Append(fw.uci, e) \in Seq(Entries)
      BY <1>1 DEF FirewallState
    <3> QED
      BY <1>1, <2>1, <3>1 DEF FirewallState
  <2>3. ASSUME NEW k \in Kinds, last'[k] # Missing
        PROVE  fw'.rules[k] = last'[k] /\ Occurs(last'[k], fw'.uci)
    <3>1. last[k] \in Seq(Entries) /\ Occurs(last[k], fw.uci) /\ fw.rules[k] = last[k]
      BY <1>1, <2>3 DEF FirewallInv, AppliedStays
    <3> HIDE DEF e
    <3> QED
      BY <1>1, <2>2, <3>1, OccursAppend
  <2>4. Occurs(<<e>>, fw'.uci)
    <3> HIDE DEF e
    <3> QED
      BY <1>1, <2>2, OccursAppend
  <2>5. PortStaysOpen' /\ (port' # Missing /\ ~late' => fw'.org = Missing)
    BY <1>1, <2>1, <2>2, <2>4 DEF PortStaysOpen
  <2> QED
    BY <1>1, <2>1, <2>2, <2>3, <2>5 DEF FirewallInv, AppliedStays
<1> QED
  BY <1>2, <1>3

\* Only an apply, a listen port and a new text file touch the firewall.
LEMMA FirewallStep == FirewallInv /\ [Next]_vars => FirewallInv'
<1> SUFFICES ASSUME FirewallInv, [Next]_vars
             PROVE  FirewallInv'
  OBVIOUS
<1>1. CASE UNCHANGED <<fw, port, late, last>>
  BY <1>1 DEF FirewallInv, AppliedStays, PortStaysOpen, PortEntry
<1>2. ASSUME NEW k \in Kinds, NEW lines \in Texts, Provide(k, lines)
      PROVE  FirewallInv'
  <2>1. fw \in FirewallState /\ lines \in Seq(Rules \cup {Junk}) /\ UNCHANGED <<port, late, last>>
    BY <1>2, SessionAssumption DEF FirewallInv, Provide
  <2>2. fw' = [fw EXCEPT !.txt = [fw.txt EXCEPT ![k] = lines]]
    BY <1>2, <2>1 DEF Provide, PutText, FirewallState
  <2>3. [fw.txt EXCEPT ![k] = lines] \in [Kinds -> Seq(Rules \cup {Junk}) \cup {Missing}]
    BY <2>1 DEF FirewallState
  <2>4. fw' \in FirewallState /\ fw'.rules = fw.rules /\ fw'.org = fw.org /\ fw'.uci = fw.uci
    BY <2>1, <2>2, <2>3 DEF FirewallState
  <2> QED
    BY <2>1, <2>4 DEF FirewallInv, AppliedStays, PortStaysOpen, PortEntry
<1> QED
  BY <1>1, <1>2, ApplyFirewall, ListenportFirewall
     DEF Next, vars, Enable, Disable, ConfigTerminal, Exit, Move, Reboot, EndOfInput,
         Change, ShowFile, WriteFile, Ping, Tcpdump, ShowIp, IpAddress, External

\* FirewallInv is an invariant.
LEMMA SpecFirewall == Spec => []FirewallInv
<1>1. Init => FirewallInv
  <2> SUFFICES ASSUME Init PROVE FirewallInv
    OBVIOUS
  <2>1. fw \in FirewallState
    BY DEF Init, NoFirewall, FirewallState
  <2> QED
    BY <2>1 DEF Init, FirewallInv, AppliedStays, PortStaysOpen
<1> QED
  BY <1>1, FirewallStep, PTL DEF Spec

\* Rules that were applied stay in force until their own kind is applied again,
\* for any text files (cmd_fw.c apply_firewall_rules).
THEOREM RulesStayInForce == Spec => []AppliedStays
<1>1. FirewallInv => AppliedStays
  BY DEF FirewallInv
<1> QED
  BY <1>1, SpecFirewall, PTL

\* A listen port that was set before the first apply stays allowed (cmd_vpn.c
\* wg_listenport, cmd_fw.c apply_firewall_rules).
THEOREM PortsStayOpen == Spec => []PortStaysOpen
<1>1. FirewallInv => PortStaysOpen
  BY DEF FirewallInv
<1> QED
  BY <1>1, SpecFirewall, PTL
=============================================================================
