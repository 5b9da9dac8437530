--------------------------- MODULE Resigner_proofs ---------------------------
(***************************************************************************)
(* What is proved about aabox-resigner (ResignerWatch, and the patcher and *)
(* the signer it calls), for every set of apps that may be downloaded and  *)
(* every number of downloads.                                              *)
(***************************************************************************)
EXTENDS ResignerWatch, WellFoundedInduction, TLAPS

-----------------------------------------------------------------------------
(* The daemon                                                              *)

\* What is handed to the package manager is what was just written, and what it
\* has just installed is that.
FromTheSameRead ==
  /\ daemon.at = "install" => patched = daemon.version
  /\ daemon.at = "remove" => installed = daemon.version

DaemonInv == TypeOK /\ FromTheSameRead

Names == {"download", "intermediate"}
Kinds == {"create", "close", "move"}

\* The queue stays a queue: an event is appended or left out.
LEMMA EventType ==
  ASSUME events \in Seq(Names \X Kinds), NEW name \in Names, NEW kind \in Kinds
  PROVE Event(name, kind) \in Seq(Names \X Kinds)
  BY DEF Event

FileType == [version : 0..MaxVersion, size : Sizes, open : BOOLEAN]
DaemonType == [at : DaemonAt, version : 0..MaxVersion, whole : BOOLEAN,
               gone : BOOLEAN]

\* The other conjuncts of TypeOK.
Rest ==
  /\ daemon.at \in {"create", "write", "install", "remove"} => product # NotAZip
  /\ patched \in 0..MaxVersion /\ installed \in 0..MaxVersion
  /\ missed \in BOOLEAN

\* The records the handlers make are of these types.
LEMMA Records ==
  /\ Idle \in DaemonType /\ Idle.at = "idle"
  /\ \A v \in 0..MaxVersion, size \in Sizes, open \in BOOLEAN :
       [version |-> v, size |-> size, open |-> open] \in FileType
<1>1. Idle \in DaemonType
  BY MaxVersionAssumption DEF Idle, DaemonType, DaemonAt
<1>2. Idle.at = "idle"
  BY DEF Idle
<1>3. ASSUME NEW v \in 0..MaxVersion, NEW size \in Sizes, NEW open \in BOOLEAN
      PROVE [version |-> v, size |-> size, open |-> open] \in FileType
  BY Zenon DEF FileType
<1> QED
  BY <1>1, <1>2, <1>3

\* In the beginning nothing has been downloaded and the daemon is down.
LEMMA DaemonInit == Init => DaemonInv
<1> SUFFICES ASSUME Init PROVE DaemonInv
  OBVIOUS
<1>1. file \in FileType
  <2>1. 0 \in 0..MaxVersion /\ "absent" \in Sizes
    BY MaxVersionAssumption DEF Sizes
  <2> QED
    BY <2>1, Records DEF Init
<1>2. daemon \in DaemonType /\ daemon.at = "down"
  BY Records DEF Init, DaemonType, DaemonAt
<1>3. events \in Seq(Names \X Kinds)
  <2>1. events = <<>>
    BY Zenon DEF Init
  <2> QED
    BY <2>1
<1>4. missed \in BOOLEAN
  BY Zenon DEF Init
<1>5. patched \in 0..MaxVersion /\ installed \in 0..MaxVersion
  BY MaxVersionAssumption DEF Init, None
<1> QED
  BY <1>1, <1>2, <1>3, <1>4, <1>5
  DEF DaemonInv, TypeOK, FromTheSameRead, FileType, DaemonType, Names, Kinds

\* Every step keeps the types and what the intermediate file holds.
LEMMA DaemonStep == DaemonInv /\ [Next]_vars => DaemonInv'
<1> SUFFICES ASSUME DaemonInv, [Next]_vars PROVE DaemonInv'
  OBVIOUS
<1> USE MaxVersionAssumption DEF Names, Kinds
<1>0. CASE UNCHANGED vars
  BY <1>0 DEF DaemonInv, TypeOK, FromTheSameRead, vars, const
<1>a. /\ file \in FileType /\ events \in Seq(Names \X Kinds)
      /\ daemon \in DaemonType
  BY DEF DaemonInv, TypeOK, FileType, DaemonType
<1>b. /\ Idle \in DaemonType /\ Idle.at = "idle"
      /\ daemon \in DaemonType /\ daemon.version \in 0..MaxVersion
  BY <1>a, Records DEF DaemonType
<1>e. \A name \in Names, kind \in Kinds :
        Event(name, kind) \in Seq(Names \X Kinds)
  BY EventType DEF DaemonInv, TypeOK
<1>c. FromTheSameRead /\ Rest
  BY DEF DaemonInv, TypeOK, Rest
<1>1. CASE Download
  <2>1. file' \in FileType /\ events' \in Seq(Names \X Kinds)
    BY <1>1, <1>a, <1>e, Records DEF Download, Sizes, FileType
  <2>2. daemon' \in DaemonType
    BY <1>1, <1>a, <1>b DEF Download, DaemonType, DaemonAt
  <2>3. FromTheSameRead' /\ Rest'
    BY <1>1, <1>a, <1>b, <1>c DEF Download, DaemonType, FromTheSameRead, Rest, None,
                               const
  <2> QED
    BY <2>1, <2>2, <2>3 DEF DaemonInv, TypeOK, FileType, DaemonType, Rest
<1>2. CASE Grow
  <2>1. file' \in FileType /\ events' \in Seq(Names \X Kinds)
    BY <1>2, <1>a, <1>e, Records, ZenonT(60) DEF Grow, Sizes, FileType
  <2>2. daemon' \in DaemonType
    BY <1>2, <1>a, <1>b DEF Grow, DaemonType, DaemonAt
  <2>3. FromTheSameRead' /\ Rest'
    BY <1>2, <1>a, <1>b, <1>c DEF Grow, DaemonType, FromTheSameRead, Rest, None,
                               const
  <2> QED
    BY <2>1, <2>2, <2>3 DEF DaemonInv, TypeOK, FileType, DaemonType, Rest
<1>3. CASE Close
  <2>1. file' \in FileType /\ events' \in Seq(Names \X Kinds)
    BY <1>3, <1>a, <1>e, Records DEF Close, Sizes, FileType
  <2>2. daemon' \in DaemonType
    BY <1>3, <1>a, <1>b DEF Close, DaemonType, DaemonAt
  <2>3. FromTheSameRead' /\ Rest'
    BY <1>3, <1>a, <1>b, <1>c DEF Close, DaemonType, FromTheSameRead, Rest, None,
                               const
  <2> QED
    BY <2>1, <2>2, <2>3 DEF DaemonInv, TypeOK, FileType, DaemonType, Rest
<1>4. CASE Reopen
  <2>1. file' \in FileType /\ events' \in Seq(Names \X Kinds)
    BY <1>4, <1>a, <1>e, Records DEF Reopen, Sizes, FileType
  <2>2. daemon' \in DaemonType
    BY <1>4, <1>a, <1>b DEF Reopen, DaemonType, DaemonAt
  <2>3. FromTheSameRead' /\ Rest'
    BY <1>4, <1>a, <1>b, <1>c DEF Reopen, DaemonType, FromTheSameRead, Rest, None,
                               const
  <2> QED
    BY <2>1, <2>2, <2>3 DEF DaemonInv, TypeOK, FileType, DaemonType, Rest
<1>5. CASE MoveIn
  <2>1. file' \in FileType /\ events' \in Seq(Names \X Kinds)
    BY <1>5, <1>a, <1>e, Records DEF MoveIn, Sizes, FileType
  <2>2. daemon' \in DaemonType
    BY <1>5, <1>a, <1>b DEF MoveIn, DaemonType, DaemonAt
  <2>3. FromTheSameRead' /\ Rest'
    BY <1>5, <1>a, <1>b, <1>c DEF MoveIn, DaemonType, FromTheSameRead, Rest, None,
                               const
  <2> QED
    BY <2>1, <2>2, <2>3 DEF DaemonInv, TypeOK, FileType, DaemonType, Rest
<1>6. CASE Delete
  <2>1. file' \in FileType /\ events' \in Seq(Names \X Kinds)
    BY <1>6, <1>a, <1>e, Records DEF Delete, Sizes, FileType
  <2>2. daemon' \in DaemonType
    BY <1>6, <1>a, <1>b DEF Delete, DaemonType, DaemonAt
  <2>3. FromTheSameRead' /\ Rest'
    BY <1>6, <1>a, <1>b, <1>c DEF Delete, DaemonType, FromTheSameRead, Rest, None,
                               const
  <2> QED
    BY <2>1, <2>2, <2>3 DEF DaemonInv, TypeOK, FileType, DaemonType, Rest
<1>7. CASE Start
  <2>1. file' \in FileType /\ events' \in Seq(Names \X Kinds)
    BY <1>7, <1>a, <1>e DEF Start
  <2>2. daemon' \in DaemonType
    BY <1>7, <1>a, <1>b DEF Start, DaemonType, DaemonAt
  <2>3. FromTheSameRead' /\ Rest'
    BY <1>7, <1>a, <1>b, <1>c DEF Start, DaemonType, FromTheSameRead, Rest, None,
                               const
  <2> QED
    BY <2>1, <2>2, <2>3 DEF DaemonInv, TypeOK, FileType, DaemonType, Rest
<1>8. CASE Crash
  <2>1. file' \in FileType /\ events' \in Seq(Names \X Kinds)
    BY <1>8, <1>a, <1>e DEF Crash
  <2>2. daemon' \in DaemonType
    BY <1>8, <1>a, <1>b DEF Crash, DaemonType, DaemonAt
  <2>3. FromTheSameRead' /\ Rest'
    BY <1>8, <1>a, <1>b, <1>c DEF Crash, DaemonType, FromTheSameRead, Rest, None,
                               const
  <2> QED
    BY <2>1, <2>2, <2>3 DEF DaemonInv, TypeOK, FileType, DaemonType, Rest
<1>9. CASE Take
  <2>1. file' \in FileType /\ events' \in Seq(Names \X Kinds)
    BY <1>9, <1>a, <1>e DEF Take
  <2>2. daemon' \in DaemonType
    BY <1>9, <1>a, <1>b DEF Take, DaemonType, DaemonAt
  <2>3. FromTheSameRead' /\ Rest'
    BY <1>9, <1>a, <1>b, <1>c DEF Take, DaemonType, FromTheSameRead, Rest, None,
                               const
  <2> QED
    BY <2>1, <2>2, <2>3 DEF DaemonInv, TypeOK, FileType, DaemonType, Rest
<1>10. CASE Stat
  <2>1. file' \in FileType /\ events' \in Seq(Names \X Kinds)
    BY <1>10, <1>a, <1>e DEF Stat
  <2>2. daemon' \in DaemonType
    BY <1>10, <1>a, <1>b DEF Stat, DaemonType, DaemonAt, FileType, Processed
  <2>3. FromTheSameRead' /\ Rest'
    BY <1>10, <1>a, <1>b, <1>c DEF Stat, DaemonType, FromTheSameRead, Rest, None,
                               const
  <2> QED
    BY <2>1, <2>2, <2>3 DEF DaemonInv, TypeOK, FileType, DaemonType, Rest
<1>11. CASE Read
  <2>1. file' \in FileType /\ events' \in Seq(Names \X Kinds)
    BY <1>11, <1>a, <1>e DEF Read
  <2>2. daemon' \in DaemonType
    BY <1>11, <1>a, <1>b, ZenonT(60) DEF Read, DaemonType, DaemonAt, FileType, Processed
  <2>3. FromTheSameRead' /\ Rest'
    BY <1>11, <1>a, <1>b, <1>c DEF Read, DaemonType, FromTheSameRead, Rest, None,
                               const, Processed
  <2> QED
    BY <2>1, <2>2, <2>3 DEF DaemonInv, TypeOK, FileType, DaemonType, Rest
<1>12. CASE CreateOutput
  <2>1. file' \in FileType /\ events' \in Seq(Names \X Kinds)
    BY <1>12, <1>a, <1>e DEF CreateOutput
  <2>2. daemon' \in DaemonType
    BY <1>12, <1>a, <1>b DEF CreateOutput, DaemonType, DaemonAt
  <2>3. FromTheSameRead' /\ Rest'
    BY <1>12, <1>a, <1>b, <1>c DEF CreateOutput, DaemonType, FromTheSameRead, Rest, None,
                               const
  <2> QED
    BY <2>1, <2>2, <2>3 DEF DaemonInv, TypeOK, FileType, DaemonType, Rest
<1>13. CASE WriteOutput
  <2>1. file' \in FileType /\ events' \in Seq(Names \X Kinds)
    BY <1>13, <1>a, <1>e DEF WriteOutput
  <2>2. daemon' \in DaemonType
    BY <1>13, <1>a, <1>b DEF WriteOutput, DaemonType, DaemonAt
  <2>3. FromTheSameRead' /\ Rest'
    BY <1>13, <1>a, <1>b, <1>c DEF WriteOutput, DaemonType, FromTheSameRead, Rest, None,
                               const
  <2> QED
    BY <2>1, <2>2, <2>3 DEF DaemonInv, TypeOK, FileType, DaemonType, Rest
<1>14. CASE WriteOutputFails
  <2>1. file' \in FileType /\ events' \in Seq(Names \X Kinds)
    BY <1>14, <1>a, <1>e DEF WriteOutputFails
  <2>2. daemon' \in DaemonType
    BY <1>14, <1>a, <1>b DEF WriteOutputFails, DaemonType, DaemonAt
  <2>3. FromTheSameRead' /\ Rest'
    BY <1>14, <1>a, <1>b, <1>c DEF WriteOutputFails, DaemonType, FromTheSameRead, Rest, None,
                               const
  <2> QED
    BY <2>1, <2>2, <2>3 DEF DaemonInv, TypeOK, FileType, DaemonType, Rest
<1>15. CASE Install
  <2>1. file' \in FileType /\ events' \in Seq(Names \X Kinds)
    BY <1>15, <1>a, <1>e DEF Install
  <2>2. daemon' \in DaemonType
    BY <1>15, <1>a, <1>b DEF Install, DaemonType, DaemonAt
  <2>3. FromTheSameRead' /\ Rest'
    BY <1>15, <1>a, <1>b, <1>c DEF Install, DaemonType, FromTheSameRead, Rest, None,
                               const
  <2> QED
    BY <2>1, <2>2, <2>3 DEF DaemonInv, TypeOK, FileType, DaemonType, Rest
<1>16. CASE InstallFails
  <2>1. file' \in FileType /\ events' \in Seq(Names \X Kinds)
    BY <1>16, <1>a, <1>e DEF InstallFails
  <2>2. daemon' \in DaemonType
    BY <1>16, <1>a, <1>b DEF InstallFails, DaemonType, DaemonAt
  <2>3. FromTheSameRead' /\ Rest'
    BY <1>16, <1>a, <1>b, <1>c DEF InstallFails, DaemonType, FromTheSameRead, Rest, None,
                               const
  <2> QED
    BY <2>1, <2>2, <2>3 DEF DaemonInv, TypeOK, FileType, DaemonType, Rest
<1>17. CASE RemoveOutput
  <2>1. file' \in FileType /\ events' \in Seq(Names \X Kinds)
    BY <1>17, <1>a, <1>e DEF RemoveOutput
  <2>2. daemon' \in DaemonType
    BY <1>17, <1>a, <1>b DEF RemoveOutput, DaemonType, DaemonAt
  <2>3. FromTheSameRead' /\ Rest'
    BY <1>17, <1>a, <1>b, <1>c DEF RemoveOutput, DaemonType, FromTheSameRead, Rest, None,
                               const
  <2> QED
    BY <2>1, <2>2, <2>3 DEF DaemonInv, TypeOK, FileType, DaemonType, Rest
<1> QED
  BY <1>0, <1>1, <1>2, <1>3, <1>4, <1>5, <1>6, <1>7, <1>8, <1>9, <1>10, <1>11,
     <1>12, <1>13, <1>14, <1>15, <1>16, <1>17
  DEF Next, Downloader, Daemon, HandleOne

\* The daemon's state stays well typed, and it writes and installs only what
\* process_apk could make (handle_one in watcher.rs).
THEOREM ResignerTypeCorrect == Spec => []TypeOK
<1>1. DaemonInv => TypeOK
  BY DEF DaemonInv
<1> QED
  BY DaemonInit, DaemonStep, <1>1, PTL DEF Spec

\* What is installed is what was read last, for all the writes and installs
\* that fail and all the kills in between.
THEOREM InstalledWasReadLast == Spec => []NothingTorn
<1>1. DaemonInv => NothingTorn
  BY DEF DaemonInv, FromTheSameRead, NothingTorn
<1> QED
  BY DaemonInit, DaemonStep, <1>1, PTL DEF Spec

-----------------------------------------------------------------------------
(* Induction over the naturals and functions defined by recursion          *)

Less == {p \in Nat \X Nat : p[1] < p[2]}

\* A set of numbers has a least one,
LEMMA Least ==
  ASSUME NEW T, T \subseteq Nat, T # {}
  PROVE \E x \in T : \A y \in T : x <= y
<1>1. IsWellFoundedOn(Less, Nat)
  BY NatLessThanWellFounded DEF OpToRel, Less
<1>2. \E x \in T : \A y \in T : ~ (<<y, x>> \in Less)
  BY <1>1, WFMin
<1>3. PICK x \in T : \A y \in T : ~ (<<y, x>> \in Less)
  BY <1>2
<1>4. \A y \in T : x <= y
  <2> TAKE y \in T
  <2>1. y < x => <<y, x>> \in Less
    BY DEF Less
  <2> QED
    BY <1>3, <2>1
<1> QED
  BY <1>4

\* so what holds at 0 and is passed on holds everywhere,
LEMMA Induction ==
  ASSUME NEW T, T \subseteq Nat, 0 \in T, \A m \in T : m + 1 \in T
  PROVE T = Nat
<1> SUFFICES ASSUME Nat \ T # {} PROVE FALSE
  OBVIOUS
<1>1. PICK x \in Nat \ T : \A y \in Nat \ T : x <= y
  <2>1. Nat \ T \subseteq Nat
    OBVIOUS
  <2> QED
    BY Least, <2>1
<1>2. x # 0
  OBVIOUS
<1>3. x - 1 \in Nat /\ x - 1 \in T
  BY <1>1, <1>2
<1> QED
  BY <1>3

\* and up to n, if it is passed on up to n.
LEMMA Counting ==
  ASSUME NEW n \in Nat, NEW T, 0 \in T, \A k \in 1..n : k - 1 \in T => k \in T
  PROVE \A k \in 0..n : k \in T
<1> DEFINE U == {k \in Nat : k <= n => k \in T}
<1>1. 0 \in U
  OBVIOUS
<1>2. ASSUME NEW k \in U PROVE k + 1 \in U
  <2>1. k \in Nat /\ (k + 1 <= n => k + 1 \in 1..n /\ (k + 1) - 1 = k)
    BY <1>2
  <2> QED
    BY <1>2, <2>1
<1>3. U \subseteq Nat
  OBVIOUS
<1>4. U = Nat
  <2> HIDE DEF U
  <2> QED
    BY <1>1, <1>2, <1>3, Induction
<1> QED
  BY <1>4

Iterates(f, n, start, step) ==
  f = [k \in 0..n |-> IF k = 0 THEN start ELSE step[<<f[k - 1], k>>]]

\* Hence a step that can be taken can be taken n times.
LEMMA Iteration ==
  ASSUME NEW n \in Nat, NEW S, NEW start \in S, NEW step \in [S \X (1..n) -> S]
  PROVE \E f \in [0..n -> S] : Iterates(f, n, start, step)
<1> DEFINE T == {m \in 0..n : \E f \in [0..m -> S] : Iterates(f, m, start, step)}
<1>1. 0 \in T
  <2> DEFINE f == [k \in 0..0 |-> start]
  <2>1. f \in [0..0 -> S]
    OBVIOUS
  <2>2. f = [k \in 0..0 |-> IF k = 0 THEN start ELSE step[<<f[k - 1], k>>]]
    OBVIOUS
  <2>3. Iterates(f, 0, start, step)
    BY <2>2 DEF Iterates
  <2> HIDE DEF f
  <2> QED
    BY <2>1, <2>3
<1>2. ASSUME NEW m \in 1..n, m - 1 \in T PROVE m \in T
  <2>1. PICK f \in [0..m - 1 -> S] : Iterates(f, m - 1, start, step)
    BY <1>2
  <2>2. f[m - 1] \in S
    OBVIOUS
  <2> DEFINE g == [k \in 0..m |-> IF k = m THEN step[<<f[m - 1], m>>] ELSE f[k]]
  <2>3. step[<<f[m - 1], m>>] \in S
    BY <2>2
  <2>4. g \in [0..m -> S]
    BY <2>3
  <2>5. ASSUME NEW k \in 0..m
        PROVE g[k] = IF k = 0 THEN start ELSE step[<<g[k - 1], k>>]
    <3>1. CASE k = m
      <4>1. g[k - 1] = f[m - 1] /\ g[k] = step[<<f[m - 1], m>>]
        BY <3>1
      <4> HIDE DEF g
      <4>2. k # 0 /\ g[k] = step[<<g[k - 1], k>>]
        BY <4>1, <3>1
      <4> QED
        BY <4>2
    <3>2. CASE k \in 0..m - 1
      <4>1. g[k] = f[k]
        BY <3>2
      <4>2. k # 0 => g[k - 1] = f[k - 1]
        BY <3>2
      <4>3. f[k] = IF k = 0 THEN start ELSE step[<<f[k - 1], k>>]
        BY <3>2, <2>1 DEF Iterates
      <4> QED
        BY <4>1, <4>2, <4>3
    <3> QED
      BY <3>1, <3>2
  <2>6. Iterates(g, m, start, step)
    <3> HIDE DEF g
    <3>1. g = [k \in 0..m |-> g[k]]
      BY <2>4
    <3> QED
      BY <3>1, <2>5 DEF Iterates
  <2> HIDE DEF g
  <2> QED
    BY <2>4, <2>6
<1>3. n \in T
  <2> HIDE DEF T
  <2> QED
    BY <1>1, <1>2, Counting
<1> QED
  BY <1>3

-----------------------------------------------------------------------------
(* The signer                                                              *)

\* The length of length-prefixed elements.
LEMMA LpNat ==
  ASSUME NEW lens \in Seq(Nat)
  PROVE LpElements(lens) \in Nat
<1> DEFINE Upto(f) == f = [k \in 0..Len(lens) |->
                             IF k = 0 THEN 0 ELSE f[k - 1] + 4 + lens[k]]
           upto == CHOOSE f : Upto(f)
<1>1. PICK n \in Nat : n = Len(lens)
  OBVIOUS
<1>2. PICK step \in [Nat \X (1..n) -> Nat] :
        \A i \in Nat, k \in 1..n : step[<<i, k>>] = i + 4 + lens[k]
  <2> DEFINE s == [p \in Nat \X (1..n) |-> p[1] + 4 + lens[p[2]]]
  <2>1. s \in [Nat \X (1..n) -> Nat]
    BY <1>1
  <2>2. \A i \in Nat, k \in 1..n : s[<<i, k>>] = i + 4 + lens[k]
    OBVIOUS
  <2> HIDE DEF s
  <2> QED
    BY <2>1, <2>2
<1>3. PICK f \in [0..n -> Nat] : Iterates(f, n, 0, step)
  BY Iteration
<1>4. Upto(f)
  <2>1. ASSUME NEW k \in 0..n
        PROVE f[k] = IF k = 0 THEN 0 ELSE f[k - 1] + 4 + lens[k]
    <3>1. CASE k = 0
      BY <1>3, <3>1 DEF Iterates
    <3>2. CASE k # 0
      <4>1. k \in 1..n /\ k - 1 \in 0..n
        BY <3>2
      <4>2. f[k] = step[<<f[k - 1], k>>] /\ f[k - 1] \in Nat
        BY <4>1, <1>3 DEF Iterates
      <4>3. step[<<f[k - 1], k>>] = f[k - 1] + 4 + lens[k]
        BY <4>1, <4>2, <1>2, Zenon
      <4> QED
        BY <3>2, <4>2, <4>3, Zenon
    <3> QED
      BY <3>1, <3>2
  <2>2. f = [k \in 0..n |-> f[k]]
    OBVIOUS
  <2> QED
    BY <2>1, <2>2, <1>1
<1>5. Upto(upto)
  BY <1>4
<1>6. \A k \in 0..n : upto[k] = IF k = 0 THEN 0 ELSE upto[k - 1] + 4 + lens[k]
  BY <1>5, <1>1
<1>7. upto[n] \in Nat
  <2> DEFINE T == {k \in 0..n : upto[k] \in Nat}
  <2>1. 0 \in T
    BY <1>6
  <2>2. ASSUME NEW k \in 1..n, k - 1 \in T PROVE k \in T
    <3>1. lens[k] \in Nat /\ upto[k - 1] \in Nat
      BY <2>2, <1>1
    <3>2. upto[k] = upto[k - 1] + 4 + lens[k]
      BY <1>6, SMTT(30)
    <3>3. PICK x \in Nat, y \in Nat : x = upto[k - 1] /\ y = lens[k]
      BY <3>1
    <3>4. upto[k] = x + 4 + y
      BY <3>2, <3>3, Zenon
    <3>5. upto[k] \in Nat
      BY <3>4
    <3> QED
      BY <3>5
  <2>3. n \in T
    <3>1. \A k \in 0..n : k \in T
      <4> HIDE DEF T
      <4> QED
        BY <2>1, <2>2, Counting
    <3> QED
      BY <3>1
  <2> QED
    BY <2>3
<1> QED
  BY <1>1, <1>7 DEF LpElements
\* Padding fills up the page.
LEMMA Page ==
  ASSUME NEW len \in Nat
  PROVE /\ Padding(len) \in 0..PAGE - 1
        /\ (len + Padding(len)) % PAGE = 0
  BY SMT DEF Padding, PAGE

Chunk(region) == [region : {region}, off : Nat, len : 1..CHUNK]

\* Rounding up: all chunks but the last are full.
LEMMA RoundUp ==
  ASSUME NEW len \in Nat, NEW count, count = (len + CHUNK - 1) \div CHUNK
  PROVE /\ count \in Nat /\ (count = 0 => len = 0)
        /\ \A k \in 1..count :
             /\ (k - 1) * CHUNK \in Nat
             /\ (k - 1) * CHUNK = IF k = 1 THEN 0 ELSE ((k - 1) - 1) * CHUNK + CHUNK
             /\ len - (k - 1) * CHUNK \in Nat \ {0}
             /\ len - (k - 1) * CHUNK <= CHUNK <=> k = count
<1>1. count \in Nat /\ len <= count * CHUNK /\ (count - 1) * CHUNK < len
  BY SMT DEF CHUNK
<1>2. \A k \in 1..count : (k - 1) * CHUNK <= (count - 1) * CHUNK
  BY <1>1, SMT DEF CHUNK
<1>3. \A k \in 1..count : k # count => k * CHUNK <= (count - 1) * CHUNK
  BY <1>1, SMT DEF CHUNK
<1> QED
  BY <1>1, <1>2, <1>3, SMT DEF CHUNK

\* Chunks follow one another without a gap, to the end of the region.
LEMMA Chunked ==
  ASSUME NEW region, NEW len \in Nat, NEW s, s = ChunksOf(region, len)
  PROVE /\ Len(s) = (len + CHUNK - 1) \div CHUNK
        /\ s \in Seq(Chunk(region))
        /\ \A k \in 1..Len(s) :
             /\ s[k].region = region
             /\ s[k].off = IF k = 1 THEN 0 ELSE s[k - 1].off + s[k - 1].len
        /\ len = IF s = <<>> THEN 0 ELSE s[Len(s)].off + s[Len(s)].len
<1>1. PICK count : count = (len + CHUNK - 1) \div CHUNK
  OBVIOUS
<1> DEFINE off(k) == (k - 1) * CHUNK
           rest(k) == len - (k - 1) * CHUNK
<1>2. s = [k \in 1..count |->
             [region |-> region, off |-> off(k),
              len |-> IF rest(k) < CHUNK THEN rest(k) ELSE CHUNK]]
  BY <1>1, Zenon DEF ChunksOf
<1>3. /\ count \in Nat /\ (count = 0 => len = 0) /\ CHUNK \in Nat \ {0}
      /\ \A k \in 1..count :
           /\ off(k) \in Nat
           /\ off(k) = IF k = 1 THEN 0 ELSE off(k - 1) + CHUNK
           /\ rest(k) \in Nat \ {0}
           /\ rest(k) <= CHUNK <=> k = count
           /\ off(k) + rest(k) = len
  <2>1. CHUNK \in Nat \ {0}
    BY SMT DEF CHUNK
  <2> QED
    BY <1>1, <2>1, RoundUp
<1> HIDE DEF off, rest
<1>4. ASSUME NEW k \in 1..count
      PROVE /\ s[k].off = off(k) /\ s[k] \in Chunk(region)
            /\ s[k].region = region
            /\ k # count => s[k].len = CHUNK
            /\ k = count => s[k].len = rest(k)
  BY <1>2, <1>3 DEF Chunk
<1>5. s \in Seq(Chunk(region)) /\ Len(s) = count
  <2>1. s \in [1..count -> Chunk(region)]
    BY <1>2, <1>4, Zenon
  <2> QED
    BY <2>1, <1>3
<1>6. ASSUME NEW k \in 1..count
      PROVE s[k].off = IF k = 1 THEN 0 ELSE s[k - 1].off + s[k - 1].len
  <2>1. CASE k = 1
    BY <2>1, <1>4, <1>3
  <2>2. CASE k # 1
    <3>1. k - 1 \in 1..count /\ k - 1 # count
      BY <2>2, <1>3
    <3>2. s[k - 1].off = off(k - 1) /\ s[k - 1].len = CHUNK /\ s[k].off = off(k)
      BY <3>1, <1>4
    <3> QED
      BY <3>2, <2>2, <1>3
  <2> QED
    BY <2>1, <2>2
<1>7. len = IF count = 0 THEN 0 ELSE s[count].off + s[count].len
  <2>1. CASE count # 0
    <3>1. count \in 1..count
      BY <2>1, <1>3
    <3> QED
      BY <3>1, <1>4, <1>3
  <2> QED
    BY <2>1, <1>3
<1>8. s = <<>> <=> count = 0
  BY <1>5
<1> QED
  BY <1>1, <1>4, <1>5, <1>6, <1>7, <1>8

\* A region's chunks in the list of all of them.
LEMMA Covered ==
  ASSUME NEW digest, NEW region, NEW len \in Nat, NEW before \in Nat,
         NEW total \in Nat, Len(digest.chunks) = total,
         DOMAIN digest.chunks = 1..total,
         NEW q, q = ChunksOf(region, len), before + Len(q) <= total,
         \A k \in 1..Len(q) : digest.chunks[before + k] = q[k],
         \A k \in 1..total :
           digest.chunks[k].region = region => k \in before + 1..before + Len(q)
  PROVE Covers(digest, region, len)
<1> DEFINE chunks == digest.chunks
           first == before + 1
           last == before + Len(q)
<1>1. PICK c \in Nat : c = Len(q) /\ c = last - before
  <2>1. q \in Seq(Chunk(region))
    BY Chunked
  <2> QED
    BY <2>1
<1>a. \A k \in 1..c :
        /\ q[k].region = region /\ q[k].len \in 1..CHUNK
        /\ q[k].off = IF k = 1 THEN 0 ELSE q[k - 1].off + q[k - 1].len
  <2>1. \A k \in 1..c : q[k] \in Chunk(region)
    BY <1>1, Chunked
  <2>2. \A k \in 1..c : q[k].region = region /\ q[k].len \in 1..CHUNK
    BY <2>1 DEF Chunk
  <2>3. \A k \in 1..c : q[k].off = IF k = 1 THEN 0 ELSE q[k - 1].off + q[k - 1].len
    BY <1>1, Chunked
  <2> QED
    BY <2>2, <2>3
<1>b. len = IF c = 0 THEN 0 ELSE q[c].off + q[c].len
  <2>1. q \in Seq(Chunk(region)) /\ len = IF q = <<>> THEN 0 ELSE q[Len(q)].off + q[Len(q)].len
    BY Chunked
  <2>2. q = <<>> <=> c = 0
    BY <1>1, <2>1
  <2> QED
    BY <1>1, <2>1, <2>2
<1>c. /\ first = before + 1 /\ last = before + c /\ last <= total
      /\ DOMAIN chunks = 1..total /\ Len(chunks) = total
      /\ \A k \in 1..c : chunks[before + k] = q[k]
      /\ \A k \in 1..total : chunks[k].region = region => k \in first..last
  BY <1>1
<1> HIDE DEF chunks, first, last
<1>2. ASSUME NEW k \in first..last
      PROVE \E j \in 1..c : k = before + j /\ chunks[k] = q[j]
  <2>1. PICK j \in 1..c : k = before + j
    <3>1. k - before \in 1..c /\ k = before + (k - before)
      BY <1>c
    <3> QED
      BY <3>1
  <2> QED
    BY <2>1, <1>c
<1>3. first \in 1..Len(chunks) + 1 /\ last \in 0..Len(chunks)
  BY <1>c
<1>4. {k \in DOMAIN chunks : chunks[k].region = region} = first..last
  <2>1. ASSUME NEW k \in first..last
        PROVE k \in DOMAIN chunks /\ chunks[k].region = region
    <3>1. k \in 1..total
      BY <1>c
    <3>2. PICK j \in 1..c : chunks[k] = q[j]
      BY <1>2
    <3>3. chunks[k].region = region
      BY <3>2, <1>a
    <3> QED
      BY <3>1, <3>3, <1>c
  <2>2. ASSUME NEW k \in DOMAIN chunks, chunks[k].region = region
        PROVE k \in first..last
    BY <2>2, <1>c
  <2> QED
    BY <2>1, <2>2
<1>5. ASSUME NEW k \in first..last
      PROVE /\ chunks[k].len \in 1..CHUNK
            /\ chunks[k].off = IF k - 1 < first THEN 0
                               ELSE chunks[k - 1].off + chunks[k - 1].len
  <2>1. PICK j \in 1..c : k = before + j /\ chunks[k] = q[j]
    BY <1>2
  <2>2. chunks[k].len \in 1..CHUNK
    BY <2>1, <1>a
  <2>3. CASE j = 1
    <3>1. k - 1 < first
      BY <2>1, <2>3, <1>c
    <3>2. q[j].off = 0
      BY <2>3, <1>a
    <3> QED
      BY <2>1, <2>2, <3>1, <3>2, Zenon
  <2>4. CASE j # 1
    <3>1. PICK i \in 1..c : i = j - 1
      BY <2>4
    <3>2. k - 1 = before + i /\ ~(k - 1 < first)
      BY <3>1, <2>1, <1>c
    <3>3. chunks[k - 1] = q[i]
      BY <3>2, <1>c
    <3>4. q[j].off = q[i].off + q[i].len
      BY <3>1, <2>4, <1>a
    <3> QED
      BY <2>1, <2>2, <3>2, <3>3, <3>4, Zenon
  <2> QED
    BY <2>3, <2>4
<1>6. len = IF last < first THEN 0 ELSE chunks[last].off + chunks[last].len
  <2>1. CASE c = 0
    <3>1. last < first
      BY <2>1, <1>c
    <3> QED
      BY <2>1, <3>1, <1>b
  <2>2. CASE c # 0
    <3>1. c \in 1..c /\ ~(last < first)
      BY <2>2, <1>c
    <3>2. chunks[last] = q[c]
      BY <3>1, <1>c
    <3> QED
      BY <2>2, <3>1, <3>2, <1>b, Zenon
  <2> QED
    BY <2>1, <2>2
<1> QED
  BY <1>3, <1>4, <1>5, <1>6, Zenon DEF Covers, chunks

AllCover(digest, before, cd, eocd) ==
  /\ digest.count = Len(digest.chunks)
  /\ Covers(digest, "before", before)
  /\ Covers(digest, "cd", cd)
  /\ Covers(digest, "eocd", eocd)

\* compute_chunked_sha256 digests every byte of the three regions once.
LEMMA AllCovered ==
  ASSUME NEW before \in Nat, NEW cd \in Nat, NEW eocd \in Nat
  PROVE AllCover(compute_chunked_sha256(before, cd, eocd), before, cd, eocd)
<1> DEFINE digest == compute_chunked_sha256(before, cd, eocd)
<1> HIDE DEF digest
<1>1. PICK a : a = ChunksOf("before", before)
  OBVIOUS
<1>2. PICK b : b = ChunksOf("cd", cd)
  OBVIOUS
<1>3. PICK c : c = ChunksOf("eocd", eocd)
  OBVIOUS
<1>4. /\ a \in Seq(Chunk("before")) /\ b \in Seq(Chunk("cd"))
      /\ c \in Seq(Chunk("eocd"))
  BY <1>1, <1>2, <1>3, Chunked
<1>5. /\ Len(a) = (before + CHUNK - 1) \div CHUNK
      /\ Len(b) = (cd + CHUNK - 1) \div CHUNK
      /\ Len(c) = (eocd + CHUNK - 1) \div CHUNK
  BY <1>1, <1>2, <1>3, Chunked
<1> DEFINE R == Chunk("before") \cup Chunk("cd") \cup Chunk("eocd")
<1>6. a \in Seq(R) /\ b \in Seq(R) /\ c \in Seq(R)
  BY <1>4
<1> HIDE DEF R
<1>7. PICK chunks : chunks = a \o b \o c
  OBVIOUS
<1>8. digest.chunks = chunks /\ digest.count = Len(a) + Len(b) + Len(c)
  BY <1>1, <1>2, <1>3, <1>5, <1>7, Zenon DEF digest, compute_chunked_sha256
<1>9. /\ Len(a) \in Nat /\ Len(b) \in Nat /\ Len(c) \in Nat
      /\ Len(chunks) = Len(a) + Len(b) + Len(c)
      /\ DOMAIN chunks = 1..Len(chunks)
  BY <1>6, <1>7
<1>10. /\ \A k \in 1..Len(a) : chunks[0 + k] = a[k]
       /\ \A k \in 1..Len(b) : chunks[Len(a) + k] = b[k]
       /\ \A k \in 1..Len(c) : chunks[Len(a) + Len(b) + k] = c[k]
  BY <1>6, <1>7
<1>11. /\ \A k \in 1..Len(a) : a[k].region = "before"
       /\ \A k \in 1..Len(b) : b[k].region = "cd"
       /\ \A k \in 1..Len(c) : c[k].region = "eocd"
  BY <1>1, <1>2, <1>3, Chunked
<1>12. ASSUME NEW k \in 1..Len(chunks)
       PROVE chunks[k].region =
               IF k <= Len(a) THEN "before"
               ELSE IF k <= Len(a) + Len(b) THEN "cd" ELSE "eocd"
  <2>1. CASE k <= Len(a)
    <3>1. k \in 1..Len(a) /\ 0 + k = k
      BY <2>1, <1>9
    <3> QED
      BY <3>1, <2>1, <1>10, <1>11
  <2>2. CASE k > Len(a) /\ k <= Len(a) + Len(b)
    <3>1. k - Len(a) \in 1..Len(b) /\ Len(a) + (k - Len(a)) = k
      BY <2>2, <1>9
    <3>2. chunks[k] = b[k - Len(a)]
      BY <3>1, <1>10
    <3>3. chunks[k].region = "cd"
      BY <3>1, <3>2, <1>11
    <3> QED
      BY <3>3, <2>2, <1>9
  <2>3. CASE k > Len(a) + Len(b)
    <3>1. /\ k - (Len(a) + Len(b)) \in 1..Len(c)
          /\ Len(a) + Len(b) + (k - (Len(a) + Len(b))) = k
      BY <2>3, <1>9
    <3>2. chunks[k] = c[k - (Len(a) + Len(b))]
      BY <3>1, <1>10
    <3>3. chunks[k].region = "eocd"
      BY <3>1, <3>2, <1>11
    <3> QED
      BY <3>3, <2>3, <1>9
  <2> QED
    BY <2>1, <2>2, <2>3, <1>9
<1>13. Covers(digest, "before", before)
  <2>1. \A k \in 1..Len(chunks) :
          chunks[k].region = "before" => k \in 0 + 1..0 + Len(a)
    BY <1>12, <1>9
  <2>2. 0 + Len(a) <= Len(chunks) /\ Len(chunks) \in Nat
    BY <1>9
  <2> QED
    BY <1>1, <1>8, <1>9, <1>10, <2>1, <2>2, Covered
<1>14. Covers(digest, "cd", cd)
  <2>1. \A k \in 1..Len(chunks) :
          chunks[k].region = "cd" => k \in Len(a) + 1..Len(a) + Len(b)
    BY <1>12, <1>9
  <2>2. Len(a) + Len(b) <= Len(chunks) /\ Len(chunks) \in Nat
    BY <1>9
  <2> QED
    BY <1>2, <1>8, <1>9, <1>10, <2>1, <2>2, Covered
<1>15. Covers(digest, "eocd", eocd)
  <2>1. \A k \in 1..Len(chunks) :
          chunks[k].region = "eocd" =>
            k \in (Len(a) + Len(b)) + 1..(Len(a) + Len(b)) + Len(c)
    BY <1>12, <1>9
  <2>2. /\ (Len(a) + Len(b)) + Len(c) <= Len(chunks) /\ Len(chunks) \in Nat
        /\ Len(a) + Len(b) \in Nat
    BY <1>9
  <2> QED
    BY <1>3, <1>8, <1>9, <1>10, <2>1, <2>2, Covered
<1> QED
  BY <1>8, <1>9, <1>13, <1>14, <1>15 DEF AllCover, digest

\* The size of one pair of the signing block,
LEMMA OnePair ==
  ASSUME NEW a \in Nat
  PROVE Pairs(<<a>>) = 8 + a
<1> DEFINE sizes == <<a>>
           Upto(f) == f = [k \in 0..Len(sizes) |->
                             IF k = 0 THEN 0 ELSE f[k - 1] + 8 + sizes[k]]
           upto == CHOOSE f : Upto(f)
           g == [k \in 0..1 |-> IF k = 0 THEN 0 ELSE 8 + a]
<1>1. Len(sizes) = 1 /\ sizes[1] = a
  OBVIOUS
<1>2. Pairs(sizes) = upto[Len(sizes)]
  BY Zenon DEF Pairs
<1> HIDE DEF sizes
<1>3. Upto(g)
  BY <1>1
<1>4. Upto(upto)
  <2> HIDE DEF Upto, g
  <2> QED
    BY <1>3
<1>5. upto[0] = 0 /\ upto[1] = upto[0] + 8 + a
  <2> HIDE DEF upto
  <2> QED
    BY <1>1, <1>4
<1> QED
  BY <1>1, <1>2, <1>5 DEF sizes

\* and of two.
LEMMA TwoPairs ==
  ASSUME NEW a \in Nat, NEW b \in Nat,
         NEW sizes, Len(sizes) = 2, sizes[1] = a, sizes[2] = b
  PROVE Pairs(sizes) = (8 + a) + (8 + b)
<1> DEFINE Upto(f) == f = [k \in 0..Len(sizes) |->
                             IF k = 0 THEN 0 ELSE f[k - 1] + 8 + sizes[k]]
           upto == CHOOSE f : Upto(f)
           g == [k \in 0..2 |-> IF k = 0 THEN 0 ELSE IF k = 1 THEN 8 + a
                                ELSE (8 + a) + 8 + b]
<1>2. Pairs(sizes) = upto[Len(sizes)]
  BY Zenon DEF Pairs
<1>3. Upto(g)
  OBVIOUS
<1>4. Upto(upto)
  <2> HIDE DEF Upto, g
  <2> QED
    BY <1>3
<1>5. /\ upto[0] = 0 /\ upto[1] = upto[0] + 8 + a
      /\ upto[2] = upto[1] + 8 + b
  <2> HIDE DEF upto
  <2> QED
    BY <1>4
<1> QED
  BY <1>2, <1>5

\* The v2 block has a size.
LEMMA BodyNat ==
  ASSUME NEW cert \in Nat
  PROVE V2Body(cert) \in Nat
<1>1. \A len \in Nat : LpPair(len) \in Nat
  BY DEF LpPair
<1>2. ASSUME NEW a \in Nat PROVE LpElements(<<a>>) \in Nat
  <2>1. <<a>> \in Seq(Nat)
    OBVIOUS
  <2> QED
    BY <2>1, LpNat, Zenon
<1>3. ASSUME NEW a \in Nat, NEW b \in Nat, NEW c \in Nat PROVE LpElements(<<a, b, c>>) \in Nat
  <2>1. <<a, b, c>> \in Seq(Nat)
    OBVIOUS
  <2> QED
    BY <2>1, LpNat, Zenon
<1>4. ASSUME NEW a \in Nat, NEW b \in Nat, NEW c \in Nat, NEW d \in Nat PROVE LpElements(<<a, b, c, d>>) \in Nat
  <2>1. <<a, b, c, d>> \in Seq(Nat)
    OBVIOUS
  <2> QED
    BY <2>1, LpNat, Zenon
<1> DEFINE signed_data == LpElements(<<LpPair(32), LpElements(<<cert>>), 0, 0>>)
           signer == LpElements(<<signed_data, LpPair(256), 294>>)
<1>5. signed_data \in Nat
  <2>1. LpPair(32) \in Nat /\ LpElements(<<cert>>) \in Nat /\ 0 \in Nat
    BY <1>1, <1>2
  <2> QED
    BY <2>1, <1>4
<1>6. signer \in Nat
  <2>1. LpPair(256) \in Nat /\ 294 \in Nat
    BY <1>1
  <2> HIDE DEF signed_data
  <2> QED
    BY <2>1, <1>3, <1>5
<1>7. LpElements(<<LpElements(<<signer>>)>>) \in Nat
  <2> HIDE DEF signer
  <2> QED
    BY <1>2, <1>6
<1> QED
  BY <1>7, Zenon DEF V2Body

\* build_signing_block makes whole pages, and its pairs add up to its size.
LEMMA Block ==
  ASSUME NEW body \in Nat
  PROVE LET block == build_signing_block(body)
        IN /\ block.len \in Nat /\ block.len % PAGE = 0
           /\ block.size = block.len - 8
           /\ \A k \in DOMAIN block.pairs : block.pairs[k] >= 4
           /\ Pairs(block.pairs) = block.size - 8 - 16
<1> DEFINE total == HEADER_FOOTER + PAIR + body
           padding == VerityPadding(total)
           pairs == <<4 + body>> \o IF padding = 0 THEN <<>> ELSE <<padding - 8>>
           block == build_signing_block(body)
<1>1. total = 44 + body /\ total \in Nat
  BY SMT DEF HEADER_FOOTER, PAIR
<1> HIDE DEF total
<1>2. /\ padding \in Nat /\ (padding = 0 \/ padding >= 12)
      /\ (total + padding) % PAGE = 0
  BY <1>1, SMT DEF VerityPadding, Padding, PAGE, PAIR
<1>3. block = [len |-> total + padding, size |-> total + padding - 8,
               pairs |-> pairs]
  BY DEF build_signing_block, total
<1> HIDE DEF padding, block
<1>4. /\ \A k \in DOMAIN pairs : pairs[k] >= 4
      /\ Pairs(pairs) = total + padding - 32
  <2>1. CASE padding = 0
    <3>1. pairs = <<4 + body>>
      BY <2>1
    <3>2. Pairs(<<4 + body>>) = 8 + (4 + body)
      BY OnePair
    <3> QED
      BY <3>1, <3>2, <2>1, <1>1
  <2>2. CASE padding # 0
    <3>1. PICK rest \in Nat : rest = padding - 8 /\ rest >= 4
      BY <2>2, <1>2
    <3>2. pairs = <<4 + body>> \o <<rest>>
      BY <2>2, <3>1
    <3> HIDE DEF pairs
    <3>3. /\ Len(pairs) = 2 /\ DOMAIN pairs = 1..2
          /\ pairs[1] = 4 + body /\ pairs[2] = rest
      <4>1. <<4 + body>> \in Seq(Nat) /\ <<rest>> \in Seq(Nat)
        OBVIOUS
      <4> QED
        BY <3>2, <4>1
    <3>4. Pairs(pairs) = (8 + (4 + body)) + (8 + rest)
      <4>1. 4 + body \in Nat
        OBVIOUS
      <4> QED
        BY <3>3, <4>1, TwoPairs
    <3>5. Pairs(pairs) = total + padding - 32
      BY <3>1, <3>3, <3>4, <1>1, <1>2
    <3>6. \A k \in DOMAIN pairs : pairs[k] >= 4
      BY <3>1, <3>3
    <3> QED
      BY <3>5, <3>6
  <2> QED
    BY <2>1, <2>2
<1> HIDE DEF pairs
<1>5. /\ block.len = total + padding /\ block.size = total + padding - 8
      /\ block.pairs = pairs
  BY <1>3
<1>6. block.len \in Nat /\ block.size = block.len - 8
  BY <1>1, <1>2, <1>5
<1>7. Pairs(block.pairs) = block.size - 8 - 16
  BY <1>1, <1>2, <1>4, <1>5
<1> QED
  BY <1>2, <1>4, <1>5, <1>6, <1>7 DEF block

\* locate_zip_layout finds the end of the central directory that fits the
\* archive.
LEMMA Located ==
  ASSUME NEW zip, IsArchive(zip),
         NEW layout, layout = locate_zip_layout(zip), layout # NotAZip
  PROVE \E e \in zip.eocds :
          /\ e.at + EOCD + e.comment = zip.len
          /\ layout = [cd |-> e.cd, cd_size |-> e.cd_size, eocd |-> e.at]
<1> DEFINE at == {e \in zip.eocds : e.at + EOCD + e.comment = zip.len}
           last == CHOOSE e \in at : \A d \in at : d.at <= e.at
<1>1. at # {} /\ layout = [cd |-> last.cd, cd_size |-> last.cd_size,
                           eocd |-> last.at]
  BY Zenon DEF locate_zip_layout
<1>2. \E e \in at : \A d \in at : d.at <= e.at
  <2> DEFINE T == {zip.len - e.at : e \in at}
  <2>1. \A e \in at : zip.len - e.at \in Nat /\ e.at \in Nat
    BY DEF EOCD, IsArchive
  <2>2. T \subseteq Nat /\ T # {}
    BY <2>1, <1>1
  <2>3. PICK x \in T : \A y \in T : x <= y
    <3> HIDE DEF T
    <3> QED
      BY <2>2, Least
  <2>4. PICK e \in at : x = zip.len - e.at
    BY <2>3
  <2>5. ASSUME NEW d \in at PROVE d.at <= e.at
    <3>1. zip.len - e.at <= zip.len - d.at
      BY <2>3, <2>4
    <3> QED
      BY <3>1, <2>1 DEF IsArchive
  <2> QED
    BY <2>5
<1>3. last \in at
  BY <1>2, Zenon
<1> HIDE DEF last
<1> QED
  BY <1>1, <1>3

\* What is put together from a digest and a block of such sizes verifies.
LEMMA Fits ==
  ASSUME NEW before \in Nat, before % PAGE = 0, NEW cd_size \in Nat,
         NEW eocd \in Nat, NEW body \in Nat,
         NEW digest, digest = compute_chunked_sha256(before, cd_size, eocd),
         NEW block, block = build_signing_block(body),
         NEW apk,
         apk = [before |-> before, block |-> block, cd_size |-> cd_size,
                eocd |-> eocd, cd |-> before + block.len,
                signed |-> [offset |-> before, digest |-> digest]]
  PROVE Verifies(apk)
<1>1. AllCover(digest, before, cd_size, eocd)
  BY AllCovered
<1>2. /\ apk.before = before /\ apk.block = block /\ apk.cd_size = cd_size
      /\ apk.eocd = eocd /\ apk.cd = before + block.len
      /\ apk.signed.offset = before /\ apk.signed.digest = digest
  OBVIOUS
<1>3. /\ block.len \in Nat /\ block.len % PAGE = 0
      /\ block.size = block.len - 8
      /\ \A k \in DOMAIN block.pairs : block.pairs[k] >= 4
      /\ Pairs(block.pairs) = block.size - 8 - 16
  BY Block
<1>4. apk.cd - (block.size + 8) = before /\ apk.cd % PAGE = 0
  BY <1>2, <1>3, SMT DEF PAGE
<1> QED
  BY <1>1, <1>2, <1>3, <1>4, Zenon DEF Verifies, AllCover

\* Whatever archive sign_apk_v2 signs verifies, for every size of its parts.
LEMMA Signed ==
  ASSUME NEW zip, IsArchive(zip), NEW cert \in Nat,
         sign_apk_v2(zip, cert) # NotAZip
  PROVE Verifies(sign_apk_v2(zip, cert))
<1>1. PICK layout : layout = locate_zip_layout(zip)
  OBVIOUS
<1>2. layout # NotAZip
  BY <1>1, Zenon DEF sign_apk_v2
<1>3. PICK e \in zip.eocds :
        /\ e.at + EOCD + e.comment = zip.len
        /\ layout = [cd |-> e.cd, cd_size |-> e.cd_size, eocd |-> e.at]
  BY <1>1, <1>2, Located
<1>4. /\ layout.cd \in Nat /\ layout.cd_size \in Nat
      /\ zip.len - layout.eocd \in Nat
  BY <1>3 DEF EOCD, IsArchive
<1>5. PICK before \in Nat :
        /\ before = layout.cd + Padding(layout.cd)
        /\ before % PAGE = 0
  BY <1>4, Page
<1>6. PICK block : block = build_signing_block(V2Body(cert))
  OBVIOUS
<1>7. PICK digest : digest = compute_chunked_sha256(before, layout.cd_size,
                                                    zip.len - layout.eocd)
  OBVIOUS
<1>8. sign_apk_v2(zip, cert) =
        [before |-> before, block |-> block, cd_size |-> layout.cd_size,
         eocd |-> zip.len - layout.eocd, cd |-> before + block.len,
         signed |-> [offset |-> before, digest |-> digest]]
  BY <1>1, <1>2, <1>5, <1>6, <1>7, Zenon DEF sign_apk_v2, SignedOffset
<1> QED
  BY <1>4, <1>5, <1>6, <1>7, <1>8, BodyNat, Fits

-----------------------------------------------------------------------------
(* What process_apk makes                                                  *)

Written(entry) ==
  IF entry.kind = "dex" THEN [entry EXCEPT !.data = patch_dex(@)] ELSE entry

Kept(entries) ==
  {Written(entries[k]) :
     k \in {j \in 1..Len(entries) : entries[j].kind # "signature"}}

\* The archive is rewritten from its own entries.
LEMMA RepackedType ==
  ASSUME NEW entries, Len(entries) \in Nat
  PROVE Repacked(entries) \in Seq(Kept(entries))
<1> DEFINE Rec(f) == f = [k \in 0..Len(entries) |->
                        IF k = 0 THEN <<>>
                        ELSE IF entries[k].kind = "signature" THEN f[k - 1]
                        ELSE Append(f[k - 1], Written(entries[k]))]
           upto == CHOOSE f : Rec(f)
<1>1. PICK n \in Nat : n = Len(entries)
  OBVIOUS
<1>2. PICK S : S = Seq(Kept(entries))
  OBVIOUS
<1>3. \A s \in S, k \in 1..n :
        entries[k].kind # "signature" => Append(s, Written(entries[k])) \in S
  BY <1>1, <1>2 DEF Kept
<1>4. <<>> \in S
  BY <1>2
<1>5. PICK step \in [S \X (1..n) -> S] :
        \A s \in S, k \in 1..n :
          step[<<s, k>>] = IF entries[k].kind = "signature" THEN s
                           ELSE Append(s, Written(entries[k]))
  <2> DEFINE g == [p \in S \X (1..n) |->
                     IF entries[p[2]].kind = "signature" THEN p[1]
                     ELSE Append(p[1], Written(entries[p[2]]))]
  <2>1. g \in [S \X (1..n) -> S]
    BY <1>3
  <2>2. \A s \in S, k \in 1..n :
          g[<<s, k>>] = IF entries[k].kind = "signature" THEN s
                        ELSE Append(s, Written(entries[k]))
    OBVIOUS
  <2> HIDE DEF g
  <2> QED
    BY <2>1, <2>2
<1>6. PICK f \in [0..n -> S] : Iterates(f, n, <<>>, step)
  BY <1>4, Iteration
<1>7. Rec(f)
  <2>1. ASSUME NEW k \in 0..n
        PROVE f[k] = IF k = 0 THEN <<>>
                     ELSE IF entries[k].kind = "signature" THEN f[k - 1]
                     ELSE Append(f[k - 1], Written(entries[k]))
    <3>1. k # 0 => k \in 1..n /\ f[k - 1] \in S
      OBVIOUS
    <3>2. f[k] = IF k = 0 THEN <<>> ELSE step[<<f[k - 1], k>>]
      BY <1>6 DEF Iterates
    <3> QED
      BY <3>1, <3>2, <1>5
  <2>2. f = [k \in 0..n |-> f[k]]
    OBVIOUS
  <2> QED
    BY <2>1, <2>2, <1>1
<1>8. Rec(upto)
  <2> HIDE DEF Rec
  <2> QED
    BY <1>7
<1>9. Repacked(entries) = upto[n]
  BY <1>1, Zenon DEF Repacked, Written
<1> HIDE DEF upto
<1>10. upto[n] \in S
  <2> DEFINE T == {k \in 0..n : upto[k] \in S}
  <2>1. \A k \in 0..n :
          upto[k] = IF k = 0 THEN <<>>
                    ELSE IF entries[k].kind = "signature" THEN upto[k - 1]
                    ELSE Append(upto[k - 1], Written(entries[k]))
    BY <1>1, <1>8
  <2>2. 0 \in T
    <3>1. 0 \in 0..n /\ upto[0] = <<>>
      BY <2>1
    <3> QED
      BY <3>1, <1>4
  <2>3. ASSUME NEW k \in 1..n, k - 1 \in T PROVE k \in T
    <3>1. upto[k - 1] \in S /\ k \in 0..n /\ k # 0
      BY <2>3
    <3> QED
      BY <3>1, <2>1, <1>3
  <2>4. \A k \in 0..n : k \in T
    <3> HIDE DEF T
    <3> QED
      BY <2>2, <2>3, Counting
  <2> QED
    BY <2>4
<1> QED
  BY <1>2, <1>9, <1>10

\* Whatever dex patch_dex returns has checksums that fit it.
LEMMA PatchedFits ==
  ASSUME NEW dex, DOMAIN dex = {"valid", "body", "sha", "adler"},
         ~dex.valid \/ HeaderFits(dex), patch_dex(dex) # Failed
  PROVE HeaderFits(patch_dex(dex))
<1>1. \/ patch_dex(dex) = dex /\ HeaderFits(dex)
      \/ \E body : patch_dex(dex) =
                     recompute_header_checksums([dex EXCEPT !.body = body])
  BY Zenon DEF patch_dex
<1>2. ASSUME NEW body
      PROVE HeaderFits(recompute_header_checksums([dex EXCEPT !.body = body]))
  <2>1. PICK d : d = [dex EXCEPT !.body = body]
    OBVIOUS
  <2>2. DOMAIN d = {"valid", "body", "sha", "adler"}
    BY <2>1
  <2>3. PICK r : r = recompute_header_checksums(d)
    OBVIOUS
  <2>4. r.sha = d.body /\ r.adler = [sha |-> d.body, body |-> d.body] /\ r.body = d.body
    BY <2>2, <2>3 DEF recompute_header_checksums
  <2> QED
    BY <2>1, <2>3, <2>4, Zenon DEF HeaderFits
<1> QED
  BY <1>1, <1>2

ProductInv == app \in Apps /\ product = process_apk(app)

\* The app does not change, so its product stays what process_apk makes of it.
LEMMA AppStays ==
  /\ Init => ProductInv
  /\ ProductInv /\ [Next]_vars => ProductInv'
<1>1. Init => ProductInv
  BY DEF Init, ProductInv
<1>2. ProductInv /\ [Next]_vars => ProductInv'
  <2> SUFFICES ASSUME ProductInv, [Next]_vars PROVE UNCHANGED const
    BY DEF ProductInv, const
  <2> QED
    BY DEF Next, vars, Downloader, Daemon, HandleOne, Download, Grow, Close,
           Reopen, MoveIn, Delete, Start, Crash, Take, Stat, Read, CreateOutput,
           WriteOutput, WriteOutputFails, Install, InstallFails, RemoveOutput
<1> QED
  BY <1>1, <1>2

\* What process_apk returns: entries kept or patched, in a signed archive;
LEMMA Products ==
  ASSUME NEW a, IsApp(a), NEW p, p = process_apk(a), p # NotAZip
  PROVE /\ p.entries \in Seq(Kept(a.entries))
        /\ \A k \in DOMAIN p.entries : p.entries[k].data # Failed
        /\ p.signature = sign_apk_v2(a.zip, a.cert)
        /\ p.signature # NotAZip
<1>1. PICK entries : entries = Repacked(a.entries)
  OBVIOUS
<1>2. entries \in Seq(Kept(a.entries))
  BY <1>1, RepackedType DEF IsApp
<1>3. PICK signed : signed = sign_apk_v2(a.zip, a.cert)
  OBVIOUS
<1>4. /\ signed # NotAZip /\ \A k \in DOMAIN entries : entries[k].data # Failed
      /\ p = [entries |-> entries, signature |-> signed]
  BY <1>1, <1>3, Zenon DEF process_apk
<1> QED
  BY <1>2, <1>3, <1>4

\* every dex in it fits its header, and its signature verifies.
LEMMA ProductAccepted ==
  ASSUME NEW a, IsApp(a), NEW p, p = process_apk(a), p # NotAZip
  PROVE /\ \A k \in DOMAIN p.entries :
             p.entries[k].kind = "dex" => HeaderFits(p.entries[k].data)
        /\ Verifies(p.signature)
<1>1. Verifies(p.signature)
  BY Products, Signed DEF IsApp
<1>2. ASSUME NEW k \in DOMAIN p.entries, p.entries[k].kind = "dex"
      PROVE HeaderFits(p.entries[k].data)
  <2>1. p.entries[k] \in Kept(a.entries) /\ p.entries[k].data # Failed
    <3>1. p.entries \in Seq(Kept(a.entries)) /\ p.entries[k].data # Failed
      BY Products
    <3> QED
      BY <3>1
  <2>2. PICK j \in 1..Len(a.entries) : p.entries[k] = Written(a.entries[j])
    BY <2>1 DEF Kept
  <2>3. PICK e : e = a.entries[j]
    OBVIOUS
  <2>4. {"kind", "data"} \subseteq DOMAIN e
    BY <2>3 DEF IsApp
  <2>5. e.kind = "dex" /\ p.entries[k].data = patch_dex(e.data)
    <3>1. CASE e.kind = "dex"
      BY <3>1, <2>2, <2>3, <2>4 DEF Written
    <3>2. CASE e.kind # "dex"
      BY <3>2, <2>2, <2>3, <1>2 DEF Written
    <3> QED
      BY <3>1, <3>2
  <2>6. PICK dex : dex = e.data
    OBVIOUS
  <2>7. /\ DOMAIN dex = {"valid", "body", "sha", "adler"}
        /\ ~dex.valid \/ HeaderFits(dex)
    BY <2>3, <2>5, <2>6, Zenon DEF IsApp
  <2> QED
    BY <2>1, <2>5, <2>6, <2>7, PatchedFits
<1> QED
  BY <1>1, <1>2

\* For every app, whatever its classes, its code and the sizes of its archive:
\* what is installed has dex files with checksums that fit and a signature that
\* verifies (patch_dex and recompute_header_checksums, sign_apk_v2).
THEOREM ProductIsAccepted == Spec => []PlatformAccepts
<1>1. ProductInv /\ DaemonInv => PlatformAccepts
  <2> SUFFICES ASSUME ProductInv, DaemonInv, daemon.at = "remove"
               PROVE /\ \A dex \in Dexes : HeaderFits(dex)
                     /\ Verifies(product.signature)
    BY DEF PlatformAccepts
  <2>1. product # NotAZip
    BY DEF DaemonInv, TypeOK
  <2>2. IsApp(app) /\ product = process_apk(app)
    BY AppsAssumption DEF ProductInv
  <2>3. /\ \A k \in DOMAIN product.entries :
             product.entries[k].kind = "dex" => HeaderFits(product.entries[k].data)
        /\ Verifies(product.signature)
    BY <2>1, <2>2, ProductAccepted
  <2> QED
    BY <2>3, Zenon DEF Dexes
<1> QED
  BY DaemonInit, DaemonStep, AppStays, <1>1, PTL DEF Spec

-----------------------------------------------------------------------------
(* Parts put one behind the other                                          *)

\* Where each of n parts begins, and where the next one would.
Begins(start, n, len) ==
  /\ start \in [1..n + 1 -> Nat]
  /\ start[1] = 1
  /\ \A k \in 1..n : start[k + 1] = start[k] + len[k]

\* Every part begins somewhere.
LEMMA BeginsExist ==
  ASSUME NEW n \in Nat, NEW len \in [1..n -> Nat]
  PROVE \E start : Begins(start, n, len)
<1>1. PICK step \in [Nat \X (1..n) -> Nat] :
        \A s \in Nat, k \in 1..n : step[<<s, k>>] = s + len[k]
  <2> DEFINE g == [p \in Nat \X (1..n) |-> p[1] + len[p[2]]]
  <2>1. g \in [Nat \X (1..n) -> Nat]
    OBVIOUS
  <2>2. \A s \in Nat, k \in 1..n : g[<<s, k>>] = s + len[k]
    OBVIOUS
  <2> HIDE DEF g
  <2> QED
    BY <2>1, <2>2
<1>2. PICK f \in [0..n -> Nat] : Iterates(f, n, 1, step)
  BY Iteration
<1> DEFINE start == [k \in 1..n + 1 |-> f[k - 1]]
<1>3. start \in [1..n + 1 -> Nat] /\ start[1] = 1
  BY <1>2 DEF Iterates
<1>4. ASSUME NEW k \in 1..n PROVE start[k + 1] = start[k] + len[k]
  <2>1. f[k] = step[<<f[k - 1], k>>] /\ f[k - 1] \in Nat
    BY <1>2, SMTT(30) DEF Iterates
  <2>2. start[k + 1] = f[k] /\ start[k] = f[k - 1]
    OBVIOUS
  <2> QED
    BY <2>1, <2>2, <1>1
<1>5. Begins(start, n, len)
  <2> HIDE DEF start
  <2> QED
    BY <1>3, <1>4 DEF Begins
<1> QED
  BY <1>5

\* Parts do not overlap.
LEMMA Apart ==
  ASSUME NEW n \in Nat, NEW len \in [1..n -> Nat],
         NEW start, Begins(start, n, len),
         NEW k \in 1..n, NEW l \in 1..n + 1, k < l
  PROVE start[k] + len[k] <= start[l]
<1>1. PICK d \in Nat : d = l - (k + 1)
  OBVIOUS
<1> DEFINE T == {i \in 0..d : start[k] + len[k] <= start[k + 1 + i]}
<1>2. 0 \in T
  <2>1. start[k + 1] = start[k] + len[k] /\ start[k] \in Nat
    BY DEF Begins
  <2> QED
    BY <2>1
<1>3. ASSUME NEW i \in 1..d, i - 1 \in T PROVE i \in T
  <2>1. PICK p \in 1..n : p = k + i
    BY <1>1
  <2>2. k + 1 + (i - 1) = p /\ k + 1 + i = p + 1 /\ p \in 1..n + 1 /\ k \in 1..n + 1
    BY <2>1
  <2>3. start[p + 1] = start[p] + len[p]
    BY DEF Begins
  <2>4. len[p] \in Nat /\ start[p] \in Nat /\ start[k] \in Nat /\ len[k] \in Nat
    BY <2>2 DEF Begins
  <2>5. start[k] + len[k] <= start[p]
    BY <1>3, <2>2
  <2>6. start[k] + len[k] <= start[p + 1]
    BY <2>3, <2>4, <2>5
  <2> QED
    BY <2>2, <2>6
<1>4. d \in T
  <2>1. \A i \in 0..d : i \in T
    <3> HIDE DEF T
    <3> QED
      BY <1>2, <1>3, Counting
  <2> QED
    BY <2>1, SMTT(30)
<1> QED
  BY <1>1, <1>4

\* The sequence made of the parts m[1] to m[k].
Joins(f, k, m, start) ==
  /\ f \in Seq(Nat)
  /\ Len(f) = start[k + 1] - 1
  /\ \A l \in 1..k : \A j \in 1..Len(m[l]) : f[start[l] + j - 1] = m[l][j]
  /\ \A i \in 1..Len(f) : \E l \in 1..k : \E j \in 1..Len(m[l]) : i = start[l] + j - 1

\* Of two parts, each keeps its places.
LEMMA TwoJoined ==
  ASSUME NEW g \in Seq(Nat), NEW h \in Seq(Nat)
  PROVE /\ g \o h \in Seq(Nat) /\ Len(g \o h) = Len(g) + Len(h)
        /\ Len(g) \in Nat /\ Len(h) \in Nat
        /\ \A i \in 1..Len(g) : (g \o h)[i] = g[i]
        /\ \A j \in 1..Len(h) : (g \o h)[Len(g) + j] = h[j]
  OBVIOUS

\* The first part is a join,
LEMMA JoinFirst ==
  ASSUME NEW n \in Nat, NEW m \in [1..n -> Seq(Nat)],
         NEW len \in [1..n -> Nat], \A k \in 1..n : len[k] = Len(m[k]),
         NEW start, Begins(start, n, len), n # 0
  PROVE Joins(m[1], 1, m, start)
<1> DEFINE f == m[1]
<1>1. f \in Seq(Nat) /\ Len(f) \in Nat /\ len[1] = Len(f)
  OBVIOUS
<1>2. start[1] = 1 /\ start[1 + 1] = 1 + Len(f)
  BY <1>1 DEF Begins
<1>3. Len(f) = start[1 + 1] - 1
  BY <1>1, <1>2
<1>4. ASSUME NEW l \in 1..1, NEW j \in 1..Len(m[l])
      PROVE f[start[l] + j - 1] = m[l][j]
  <2>1. l = 1 /\ start[l] + j - 1 = j
    BY <1>1, <1>2
  <2> QED
    BY <2>1
<1>5. ASSUME NEW i \in 1..Len(f)
      PROVE \E l \in 1..1 : \E j \in 1..Len(m[l]) : i = start[l] + j - 1
  <2>1. 1 \in 1..1 /\ i \in 1..Len(m[1]) /\ i = start[1] + i - 1
    BY <1>1, <1>2
  <2> QED
    BY <2>1
<1> QED
  BY <1>1, <1>3, <1>4, <1>5 DEF Joins

\* and the next one behind a join makes a join.
LEMMA JoinNext ==
  ASSUME NEW n \in Nat, NEW m \in [1..n -> Seq(Nat)],
         NEW len \in [1..n -> Nat], \A k \in 1..n : len[k] = Len(m[k]),
         NEW start, Begins(start, n, len),
         NEW k \in 2..n, NEW g, Joins(g, k - 1, m, start)
  PROVE Joins(g \o m[k], k, m, start)
<1>1. PICK h \in Seq(Nat) : h = m[k]
  OBVIOUS
<1>2. PICK f : f = g \o h
  OBVIOUS
<1>3. g \in Seq(Nat) /\ Len(g) = start[(k - 1) + 1] - 1
  BY DEF Joins
<1>4. PICK a \in Nat : a = Len(g)
  BY <1>3
<1>5. PICK b \in Nat : b = Len(h)
  OBVIOUS
<1>6. /\ f \in Seq(Nat) /\ Len(f) = Len(g) + Len(h)
      /\ \A i \in 1..Len(g) : f[i] = g[i]
      /\ \A j \in 1..Len(h) : f[Len(g) + j] = h[j]
  BY <1>2, <1>3, TwoJoined, Zenon
<1>7. Len(f) = a + b /\ \A i \in 1..a : f[i] = g[i]
  BY <1>4, <1>5, <1>6, Zenon
<1>8. \A j \in 1..b : f[a + j] = h[j]
  BY <1>4, <1>5, <1>6, Zenon
<1>9. start[k] = a + 1 /\ start[k + 1] = (a + 1) + b /\ start[1] = 1
  <2>1. start[k] \in Nat /\ start[1] = 1
    BY DEF Begins
  <2>2. a = start[k] - 1
    <3>1. (k - 1) + 1 = k
      OBVIOUS
    <3> QED
      BY <3>1, <1>3, <1>4, Zenon
  <2>a. k \in 1..n
    OBVIOUS
  <2>3. start[k + 1] = start[k] + len[k] /\ len[k] = Len(m[k])
    BY <2>a, Zenon DEF Begins
  <2>4. start[k + 1] = start[k] + b
    <3>1. b = len[k]
      BY <2>3, <1>1, <1>5
    <3> QED
      BY <2>3, <3>1, Zenon
  <2>5. PICK x \in Nat : x = start[k]
    BY <2>1
  <2>6. x = a + 1
    BY <2>2, <2>5
  <2> QED
    BY <2>1, <2>4, <2>5, <2>6, Zenon
<1>10. Len(f) = start[k + 1] - 1
  BY <1>7, <1>9
<1>11. ASSUME NEW l \in 1..k, NEW j \in 1..Len(m[l])
       PROVE f[start[l] + j - 1] = m[l][j]
  <2>1. CASE l = k
    <3>1. j \in 1..b
      BY <2>1, <1>1, <1>5
    <3>2. start[l] + j - 1 = a + j
      BY <2>1, <3>1, <1>9
    <3> QED
      BY <3>1, <3>2, <2>1, <1>1, <1>8
  <2>2. CASE l # k
    <3>1. l \in 1..k - 1 /\ l \in 1..n /\ l < k /\ k \in 1..n + 1 /\ l \in 1..n + 1
      BY <2>2
    <3>2. start[l] + len[l] <= start[k]
      BY <3>1, Apart
    <3>3. PICK s \in Nat : s = start[l]
      BY <3>1 DEF Begins
    <3>4. PICK c \in Nat : c = len[l] /\ c = Len(m[l])
      BY <3>1
    <3>5. s >= 1
      <4>1. CASE l # 1
        <5>1. 1 \in 1..n /\ 1 < l /\ len[1] \in Nat
          BY <3>1, <4>1
        <5>2. start[1] + len[1] <= start[l]
          BY <3>1, <5>1, Apart
        <5> QED
          BY <5>1, <5>2, <3>3, <1>9, SMTT(30)
      <4> QED
        BY <4>1, <1>9, <3>3, SMTT(30)
    <3>6. j \in 1..c
      BY <3>4
    <3>7. s + c <= a + 1
      BY <3>2, <3>3, <3>4, <1>9
    <3>8. s + j - 1 \in 1..a
      BY <3>5, <3>6, <3>7
    <3>9. g[start[l] + j - 1] = m[l][j]
      BY <3>1 DEF Joins
    <3> QED
      BY <3>3, <3>8, <3>9, <1>7
  <2> QED
    BY <2>1, <2>2
<1>12. ASSUME NEW i \in 1..Len(f)
       PROVE \E l \in 1..k : \E j \in 1..Len(m[l]) : i = start[l] + j - 1
  <2>0. i \in 1..a + b
    BY <1>7
  <2>1. CASE i <= a
    <3>1. i \in 1..Len(g)
      BY <2>0, <2>1, <1>4
    <3>2. PICK l \in 1..k - 1 : \E j \in 1..Len(m[l]) : i = start[l] + j - 1
      BY <3>1 DEF Joins
    <3>3. l \in 1..k
      OBVIOUS
    <3> QED
      BY <3>2, <3>3
  <2>2. CASE i > a
    <3>1. PICK j \in 1..b : i = a + j
      <4>1. i - a \in 1..b /\ i = a + (i - a)
        BY <2>0, <2>2
      <4> QED
        BY <4>1
    <3>2. i = start[k] + j - 1
      BY <3>1, <1>9
    <3>3. k \in 1..k /\ j \in 1..Len(m[k])
      BY <3>1, <1>1, <1>5
    <3> QED
      BY <3>2, <3>3
  <2> QED
    BY <2>0, <2>1, <2>2
<1>13. Joins(f, k, m, start)
  BY <1>6, <1>10, <1>11, <1>12 DEF Joins
<1> QED
  BY <1>1, <1>2, <1>13

\* Nothing is in front of the first part.
LEMMA NothingJoined ==
  ASSUME NEW h \in Seq(Nat)
  PROVE <<>> \o h = h
<1>1. \A i \in 1..Len(h) : (<<>> \o h)[i] = h[i]
  OBVIOUS
<1>2. <<>> \o h \in Seq(Nat) /\ Len(<<>> \o h) = Len(h)
  OBVIOUS
<1> QED
  BY <1>1, <1>2

\* FlattenSeq joins them all.
LEMMA Flattened ==
  ASSUME NEW n \in Nat, n # 0, NEW m \in [1..n -> Seq(Nat)],
         NEW len \in [1..n -> Nat], \A k \in 1..n : len[k] = Len(m[k]),
         NEW start, Begins(start, n, len)
  PROVE Joins(FlattenSeq(m), n, m, start)
<1> DEFINE Rec(f) == f = [i \in 1..Len(m) |->
                            IF i = 1 THEN m[i] ELSE f[i - 1] \o m[i]]
           flat == CHOOSE f : Rec(f)
<1>1. n = Len(m)
  <2>1. m \in Seq(Seq(Nat)) /\ DOMAIN m = 1..Len(m) /\ DOMAIN m = 1..n /\ Len(m) \in Nat
    OBVIOUS
  <2> QED
    BY <2>1
<1>2. PICK step \in [Seq(Nat) \X (1..n) -> Seq(Nat)] :
        \A s \in Seq(Nat), k \in 1..n : step[<<s, k>>] = s \o m[k]
  <2> DEFINE g == [p \in Seq(Nat) \X (1..n) |-> p[1] \o m[p[2]]]
  <2>0. ASSUME NEW s \in Seq(Nat), NEW k \in 1..n PROVE s \o m[k] \in Seq(Nat)
    <3>1. m[k] \in Seq(Nat)
      OBVIOUS
    <3> QED
      BY <3>1, TwoJoined
  <2>1. g \in [Seq(Nat) \X (1..n) -> Seq(Nat)]
    BY <2>0
  <2>2. \A s \in Seq(Nat), k \in 1..n : g[<<s, k>>] = s \o m[k]
    OBVIOUS
  <2> HIDE DEF g
  <2> QED
    BY <2>1, <2>2
<1>3. PICK f \in [0..n -> Seq(Nat)] : Iterates(f, n, <<>>, step)
  <2>1. <<>> \in Seq(Nat)
    OBVIOUS
  <2> QED
    BY <2>1, Iteration
<1> DEFINE g == [i \in 1..n |-> f[i]]
<1>4. ASSUME NEW i \in 1..n PROVE f[i] = IF i = 1 THEN m[i] ELSE f[i - 1] \o m[i]
  <2>0. i \in 0..n /\ i # 0 /\ i - 1 \in 0..n /\ (i = 1 => i - 1 = 0) /\ 0 \in 0..n
    OBVIOUS
  <2>1. f[i] = step[<<f[i - 1], i>>] /\ f[0] = <<>>
    BY <2>0, <1>3, Zenon DEF Iterates
  <2>a. f[i - 1] \in Seq(Nat) /\ (i = 1 => f[i - 1] = <<>>)
    BY <2>0, <2>1
  <2>2. f[i] = f[i - 1] \o m[i]
    BY <2>1, <2>a, <1>2, Zenon
  <2>3. m[i] \in Seq(Nat)
    OBVIOUS
  <2>4. i = 1 => f[i - 1] \o m[i] = m[i]
    BY <2>a, <2>3, NothingJoined
  <2> QED
    BY <2>2, <2>4
<1>5. Rec(g)
  <2>1. ASSUME NEW i \in 1..n PROVE g[i] = IF i = 1 THEN m[i] ELSE g[i - 1] \o m[i]
    <3>1. g[i] = f[i] /\ (i # 1 => i - 1 \in 1..n /\ g[i - 1] = f[i - 1])
      OBVIOUS
    <3> HIDE DEF g
    <3> QED
      BY <3>1, <1>4
  <2>2. g = [i \in 1..n |-> g[i]]
    OBVIOUS
  <2> HIDE DEF g
  <2> QED
    BY <2>1, <2>2, <1>1
<1>6. Rec(flat)
  <2> HIDE DEF Rec, g
  <2> QED
    BY <1>5
<1>7. FlattenSeq(m) = flat[n]
  BY <1>1, Zenon DEF FlattenSeq
<1>8. \A i \in 1..n : flat[i] = IF i = 1 THEN m[i] ELSE flat[i - 1] \o m[i]
  <2> HIDE DEF flat
  <2> QED
    BY <1>1, <1>6
<1> HIDE DEF flat
<1> DEFINE T == {k \in 0..n - 1 : Joins(flat[k + 1], k + 1, m, start)}
<1>9. 0 \in T
  <2>1. flat[1] = m[1]
    BY <1>8
  <2>2. Joins(m[1], 1, m, start)
    BY JoinFirst
  <2> QED
    BY <2>1, <2>2
<1>10. ASSUME NEW k \in 1..n - 1, k - 1 \in T PROVE k \in T
  <2>1. PICK i \in 2..n : i = k + 1
    OBVIOUS
  <2>2. Joins(flat[i - 1], i - 1, m, start)
    <3>1. (k - 1) + 1 = i - 1
      BY <2>1
    <3> QED
      BY <3>1, <1>10
  <2>3. Joins(flat[i - 1] \o m[i], i, m, start)
    BY <2>2, JoinNext
  <2>4. i # 1 /\ i \in 1..n
    OBVIOUS
  <2>5. flat[i] = flat[i - 1] \o m[i]
    BY <2>4, <1>8, Zenon
  <2>6. Joins(flat[i], i, m, start)
    BY <2>3, <2>5, Zenon
  <2>7. Joins(flat[k + 1], k + 1, m, start)
    BY <2>1, <2>6, Zenon
  <2>8. k \in 0..n - 1
    OBVIOUS
  <2> QED
    BY <2>7, <2>8, Zenon
<1>11. n - 1 \in T
  <2> HIDE DEF T
  <2>1. n - 1 \in Nat /\ n - 1 \in 0..n - 1
    OBVIOUS
  <2> QED
    BY <2>1, <1>9, <1>10, Counting
<1>12. (n - 1) + 1 = n
  OBVIOUS
<1> QED
  BY <1>7, <1>11, <1>12

\* Sequences joined of equal parts are equal.
LEMMA JoinedEqual ==
  ASSUME NEW n \in Nat, NEW m, NEW start,
         NEW f, Joins(f, n, m, start), NEW g, Joins(g, n, m, start)
  PROVE f = g
<1>1. f \in Seq(Nat) /\ g \in Seq(Nat) /\ Len(f) = Len(g)
  BY DEF Joins
<1>2. ASSUME NEW i \in 1..Len(f) PROVE f[i] = g[i]
  <2>1. PICK l \in 1..n : \E j \in 1..Len(m[l]) : i = start[l] + j - 1
    BY DEF Joins
  <2>2. PICK j \in 1..Len(m[l]) : i = start[l] + j - 1
    BY <2>1
  <2>3. f[start[l] + j - 1] = m[l][j] /\ g[start[l] + j - 1] = m[l][j]
    BY DEF Joins
  <2> QED
    BY <2>2, <2>3
<1>3. f = [i \in 1..Len(f) |-> f[i]] /\ g = [i \in 1..Len(g) |-> g[i]]
  BY <1>1
<1> QED
  BY <1>1, <1>2, <1>3

-----------------------------------------------------------------------------
(* The walk over a method's instructions                                    *)

\* Opcodes have at most five units, a read of a static field two.
LEMMA Units ==
  /\ \A u \in Nat : opcode(u) \in 0..255 /\ high(u) \in Nat
  /\ \A op \in 0..255 : CodeUnits(op) \in 0..5
  /\ \A op \in Sgets : CodeUnits(op) = 2 /\ op # 0
<1>1. \A u \in Nat : opcode(u) \in 0..255 /\ high(u) \in Nat
  BY DEF opcode, high
<1>2. \A op \in 0..255 : CodeUnits(op) \in 0..5
  BY DEF CodeUnits
<1>3. ASSUME NEW op \in Sgets PROVE CodeUnits(op) = 2 /\ op # 0
  BY DEF CodeUnits, Sgets
<1> QED
  BY <1>1, <1>2, <1>3

\* An instruction is as long as the code takes it to be: its table of lengths has
\* the formats' lengths, and its sizes of tables are what their entries take.
LEMMA AsLong ==
  ASSUME NEW w, Instruction(w)
  PROVE /\ w \in Seq(Nat) /\ w # <<>>
        /\ opcode(w[1]) = 0 => ~CutShort(w, 1) /\ Len(w) = PayloadUnits(w, 1)
        /\ opcode(w[1]) # 0 => Len(w) = CodeUnits(opcode(w[1]))
<1>1. w \in Seq(Nat) /\ w # <<>>
  BY DEF Instruction
<1>2. PICK n \in Nat \ {0} : n = Len(w)
  BY <1>1
<1>3. ASSUME w = << 0 >>
      PROVE opcode(w[1]) = 0 /\ ~CutShort(w, 1) /\ Len(w) = PayloadUnits(w, 1)
  <2>1. w[1] = 0 /\ Len(w) = 1
    BY <1>3
  <2>2. opcode(w[1]) = 0 /\ high(w[1]) = 0
    BY <2>1 DEF opcode, high
  <2> QED
    BY <2>1, <2>2 DEF CutShort, PayloadUnits
<1>4. ASSUME n >= 2, IsTable(w)
      PROVE opcode(w[1]) = 0 /\ ~CutShort(w, 1) /\ Len(w) = PayloadUnits(w, 1)
  <2>1. PICK x \in Nat : x = w[2] /\ x = w[1 + 1]
    BY <1>1, <1>2, <1>4
  <2>2. CASE w[1] = 256 /\ n = 4 + 2 * x
    <3>1. opcode(w[1]) = 0 /\ high(w[1]) = 1
      BY <2>2 DEF opcode, high
    <3> QED
      BY <1>2, <2>1, <2>2, <3>1 DEF CutShort, PayloadUnits
  <2>3. CASE w[1] = 512 /\ n = 2 + 4 * x
    <3>1. opcode(w[1]) = 0 /\ high(w[1]) = 2
      BY <2>3 DEF opcode, high
    <3> QED
      BY <1>2, <2>1, <2>3, <3>1 DEF CutShort, PayloadUnits
  <2>4. CASE w[1] = 768 /\ n >= 4 /\ 2 * (n - 4) \in {x * w[3], x * w[3] + 1}
    <3>1. opcode(w[1]) = 0 /\ high(w[1]) = 3
      BY <2>4 DEF opcode, high
    <3>2. w[3] \in Nat /\ 1 + 2 = 3
      BY <1>1, <1>2, <2>4
    <3>3. PICK y \in Nat : y = x * w[3]
      BY <3>2
    <3>4. n = 4 + (y + 1) \div 2
      BY <2>4, <3>3
    <3>5. PayloadUnits(w, 1) = 4 + (y + 1) \div 2
      BY <2>1, <3>1, <3>2, <3>3 DEF PayloadUnits
    <3>6. ~CutShort(w, 1)
      BY <1>2, <2>4, <3>1 DEF CutShort
    <3> QED
      BY <1>2, <3>1, <3>4, <3>5, <3>6
  <2> QED
    BY <1>2, <1>4, <2>1, <2>2, <2>3, <2>4 DEF IsTable
<1>5. ASSUME NEW op \in (1..226 \cup 250..255) \ (62..67 \cup {115, 121, 122})
      PROVE CodeUnits(op) = FormatUnits(op) /\ op # 0
  BY DEF CodeUnits, FormatUnits
<1>6. \/ w = <<0>>
      \/ Len(w) >= 2 /\ IsTable(w)
      \/ /\ opcode(w[1]) \in (1..226 \cup 250..255) \ (62..67 \cup {115, 121, 122})
         /\ Len(w) = FormatUnits(opcode(w[1]))
  BY Zenon DEF Instruction
<1>7. ASSUME opcode(w[1]) \in (1..226 \cup 250..255) \ (62..67 \cup {115, 121, 122}),
             Len(w) = FormatUnits(opcode(w[1]))
      PROVE opcode(w[1]) # 0 /\ Len(w) = CodeUnits(opcode(w[1]))
  <2>a. PICK op : op = opcode(w[1])
    OBVIOUS
  <2>b. op \in (1..226 \cup 250..255) \ (62..67 \cup {115, 121, 122})
    BY <1>7, <2>a, Zenon
  <2>2. CodeUnits(op) = FormatUnits(op) /\ op # 0
    BY <2>b, <1>5
  <2>3. Len(w) = FormatUnits(op)
    BY <1>7, <2>a
  <2> QED
    BY <2>a, <2>2, <2>3, Zenon
<1> QED
  BY <1>1, <1>2, <1>3, <1>4, <1>6, <1>7, ZenonT(60)

\* The size of a table is a number, if its size fields are there.
LEMMA TableSize ==
  ASSUME NEW s \in Seq(Nat), NEW i \in 1..Len(s), opcode(s[i]) = 0, ~CutShort(s, i)
  PROVE PayloadUnits(s, i) \in Nat \ {0}
<1>a. s[i] \in Nat
  OBVIOUS
<1>0. PICK h \in Nat : h = high(s[i])
  BY <1>a, Units, Zenon
<1>1. CASE h \in {1, 2}
  <2>1. i + 2 <= Len(s) + 1
    BY <1>0, <1>1 DEF CutShort
  <2>2. PICK x \in Nat : x = s[i + 1]
    BY <2>1
  <2>3. CASE h = 1
    BY <1>0, <2>2, <2>3, SMTT(30) DEF PayloadUnits
  <2>4. CASE h = 2
    BY <1>0, <2>2, <2>4, SMTT(30) DEF PayloadUnits
  <2> QED
    BY <1>1, <2>3, <2>4
<1>2. CASE h = 3
  <2>1. i + 4 <= Len(s) + 1
    BY <1>0, <1>2 DEF CutShort
  <2>2. s[i + 1] \in Nat /\ s[i + 2] \in Nat
    BY <2>1
  <2>3. PICK y \in Nat : y = s[i + 1] * s[i + 2]
    BY <2>2
  <2>4. PayloadUnits(s, i) = 4 + (y + 1) \div 2
    BY <1>0, <1>2, <2>3 DEF PayloadUnits
  <2>5. (y + 1) \div 2 \in Nat
    OBVIOUS
  <2> QED
    BY <2>4, <2>5
<1>3. CASE h \notin {1, 2, 3}
  BY <1>0, <1>3 DEF PayloadUnits
<1> QED
  BY <1>1, <1>2, <1>3

\* The walk advances.
LEMMA Advances ==
  ASSUME NEW s \in Seq(Nat), NEW i \in 1..Len(s), ~CutShort(s, i)
  PROVE Advance(s, i) \in Nat \ {0}
<1>0. s[i] \in Nat
  OBVIOUS
<1>1. CASE opcode(s[i]) = 0
  BY <1>1, TableSize DEF Advance
<1>2. CASE opcode(s[i]) # 0
  <2>1. CodeUnits(opcode(s[i])) \in 0..5
    BY <1>0, Units
  <2> QED
    BY <1>2, <2>1 DEF Advance
<1> QED
  BY <1>1, <1>2

\* Over an instruction it advances by its length.
LEMMA OneInstruction ==
  ASSUME NEW f \in Seq(Nat), NEW w, Instruction(w), NEW p \in Nat, p >= 1,
         p + Len(w) <= Len(f) + 1, \A j \in 1..Len(w) : f[p + j - 1] = w[j]
  PROVE /\ Len(w) # 0 /\ p \in 1..Len(f)
        /\ ~CutShort(f, p) /\ Advance(f, p) = Len(w)
<1>0. PICK n \in Nat : n = Len(w)
  BY AsLong
<1>c. p + n <= Len(f) + 1 /\ \A j \in 1..n : f[p + j - 1] = w[j]
  BY <1>0
<1>1. w \in Seq(Nat) /\ w # <<>> /\ n # 0 /\ w[1] \in Nat
  BY <1>0, AsLong
<1>2. p \in 1..Len(f) /\ f[p] = w[1]
  <2>1. p + 1 - 1 = p /\ 1 \in 1..n
    BY <1>1
  <2>2. f[p + 1 - 1] = w[1]
    BY <2>1, <1>c
  <2> QED
    BY <1>1, <1>c, <2>1, <2>2
<1>a. PICK op \in 0..255 : op = opcode(f[p]) /\ op = opcode(w[1])
  BY <1>1, <1>2, Units
<1>b. PICK h \in Nat : h = high(f[p]) /\ h = high(w[1])
  BY <1>1, <1>2, Units
<1>3. CASE op # 0
  <2>1. n = CodeUnits(op)
    BY <1>0, <1>3, <1>a, AsLong
  <2>2. ~CutShort(f, p)
    BY <1>c, <1>3, <1>a, <2>1 DEF CutShort
  <2>3. Advance(f, p) = n
    BY <1>3, <1>1, <1>a, <2>1 DEF Advance
  <2> QED
    BY <1>0, <1>1, <1>2, <2>2, <2>3
<1>4. CASE op = 0
  <2>1. ~CutShort(w, 1) /\ n = PayloadUnits(w, 1)
    BY <1>0, <1>4, <1>a, AsLong
  <2>2. h \in {1, 2} => n >= 2
    BY <1>0, <1>4, <1>a, <1>b, <2>1 DEF CutShort
  <2>3. h = 3 => n >= 4
    BY <1>0, <1>4, <1>a, <1>b, <2>1 DEF CutShort
  <2>4. ~CutShort(f, p)
    <3>1. p + n <= Len(f) + 1 /\ n >= 1 /\ Len(f) \in Nat
      BY <1>c, <1>1
    <3>2. PICK needs \in Nat :
            needs = CASE h \in {1, 2} -> 2 [] h = 3 -> 4 [] OTHER -> 1
      OBVIOUS
    <3>3. needs <= n
      BY <2>2, <2>3, <3>1, <3>2
    <3>4. CutShort(f, p) <=> p + needs > Len(f) + 1
      BY <1>4, <1>a, <1>b, <3>2, Zenon DEF CutShort
    <3> QED
      BY <3>1, <3>3, <3>4
  <2>5. n >= 2 => f[p + 1] = w[2]
    <3>1. p + 2 - 1 = p + 1
      OBVIOUS
    <3>2. n >= 2 => 2 \in 1..n
      OBVIOUS
    <3> QED
      BY <1>c, <3>1, <3>2
  <2>6. n >= 4 => f[p + 2] = w[3]
    <3>1. p + 3 - 1 = p + 2
      OBVIOUS
    <3>2. n >= 4 => 3 \in 1..n
      OBVIOUS
    <3> QED
      BY <1>c, <3>1, <3>2
  <2>7. 1 + 1 = 2 /\ 1 + 2 = 3
    OBVIOUS
  <2>8. CASE h \in {1, 2}
    <3>1. f[p + 1] = w[1 + 1]
      BY <2>2, <2>5, <2>7, <2>8
    <3>2. PayloadUnits(f, p) = PayloadUnits(w, 1)
      BY <1>b, <2>8, <3>1 DEF PayloadUnits
    <3> QED
      BY <1>0, <1>1, <1>2, <1>4, <1>a, <2>1, <2>4, <3>2 DEF Advance
  <2>9. CASE h = 3
    <3>1. f[p + 1] = w[1 + 1] /\ f[p + 2] = w[1 + 2]
      BY <2>3, <2>5, <2>6, <2>7, <2>9
    <3>2. PayloadUnits(f, p) = PayloadUnits(w, 1)
      BY <1>b, <2>9, <3>1 DEF PayloadUnits
    <3> QED
      BY <1>0, <1>1, <1>2, <1>4, <1>a, <2>1, <2>4, <3>2 DEF Advance
  <2>10. CASE h \notin {1, 2, 3}
    <3>2. PayloadUnits(f, p) = PayloadUnits(w, 1)
      BY <1>b, <2>10 DEF PayloadUnits
    <3> QED
      BY <1>0, <1>1, <1>2, <1>4, <1>a, <2>1, <2>4, <3>2 DEF Advance
  <2> QED
    BY <2>8, <2>9, <2>10
<1> QED
  BY <1>0, <1>3, <1>4

\* A function that is defined from the end: what it is at a place follows from
\* what it is at a later one.
FromTheEnd(from, n, base, cut, next, step) ==
  from = [i \in 1..n |->
            IF i \in cut THEN base
            ELSE step[<<i, IF next[i] > n THEN base ELSE from[next[i]]>>]]

\* A walk that only goes forward defines one,
LEMMA EndExists ==
  ASSUME NEW n \in Nat, NEW S, NEW base \in S, NEW cut \in SUBSET (1..n),
         NEW next \in [1..n -> Nat], \A i \in (1..n) \ cut : next[i] > i,
         NEW step \in [(1..n) \X S -> S]
  PROVE \E from \in [1..n -> S] : FromTheEnd(from, n, base, cut, next, step)
<1> DEFINE F == [1..n -> S]
           There(f, i) == f[i] = IF i \in cut THEN base
                                 ELSE step[<<i, IF next[i] > n THEN base
                                                ELSE f[next[i]]>>]
           T == {d \in 0..n : \E f \in F : \A i \in n + 1 - d..n : There(f, i)}
<1>1. 0 \in T
  <2>1. [i \in 1..n |-> base] \in F
    OBVIOUS
  <2>2. n + 1 - 0..n = {} /\ 0 \in 0..n
    OBVIOUS
  <2> HIDE DEF F, There
  <2> QED
    BY <2>1, <2>2
<1>2. ASSUME NEW d \in 1..n, d - 1 \in T PROVE d \in T
  <2>1. PICK p \in 1..n : p = n + 1 - d
    OBVIOUS
  <2>2. PICK f \in F : \A i \in p + 1..n : There(f, i)
    <3>1. n + 1 - (d - 1) = p + 1
      BY <2>1
    <3>2. PICK f \in F : \A i \in n + 1 - (d - 1)..n : There(f, i)
      BY <1>2
    <3> QED
      BY <3>1, <3>2
  <2>3. PICK v \in S :
          v = IF p \in cut THEN base
              ELSE step[<<p, IF next[p] > n THEN base ELSE f[next[p]]>>]
    <3>1. p \notin cut /\ ~(next[p] > n) => next[p] \in 1..n
      OBVIOUS
    <3>2. PICK s \in S : s = IF p \in cut \/ next[p] > n THEN base ELSE f[next[p]]
      BY <3>1
    <3>3. step[<<p, s>>] \in S
      OBVIOUS
    <3> QED
      BY <3>2, <3>3
  <2>4. PICK g \in F : g[p] = v /\ \A i \in 1..n : i # p => g[i] = f[i]
    <3> DEFINE g == [f EXCEPT ![p] = v]
    <3>1. g \in F /\ g[p] = v /\ \A i \in 1..n : i # p => g[i] = f[i]
      OBVIOUS
    <3> HIDE DEF g, F
    <3> QED
      BY <3>1
  <2>5. ASSUME NEW i \in p..n PROVE There(g, i)
    <3>1. i \in 1..n /\ (i \notin cut => next[i] > i /\ next[i] \in Nat)
      OBVIOUS
    <3>2. i \notin cut /\ ~(next[i] > n) => next[i] \in 1..n /\ next[i] # p
      BY <3>1
    <3>3. i \notin cut /\ ~(next[i] > n) => g[next[i]] = f[next[i]]
      BY <3>2, <2>4
    <3>4. CASE i = p
      BY <3>3, <3>4, <2>3, <2>4
    <3>5. CASE i # p
      <4>1. i \in p + 1..n
        BY <3>5
      <4>2. There(f, i)
        BY <4>1, <2>2
      <4>3. g[i] = f[i]
        BY <3>1, <3>5, <2>4
      <4> QED
        BY <4>2, <4>3, <3>3
    <3> QED
      BY <3>4, <3>5
  <2>6. d \in 0..n
    OBVIOUS
  <2>7. \A i \in n + 1 - d..n : There(g, i)
    <3> HIDE DEF There
    <3> QED
      BY <2>1, <2>5
  <2> QED
    <3> HIDE DEF There, F
    <3> QED
      BY <2>6, <2>7
<1>3. n \in T
  <2> HIDE DEF T
  <2>1. \A d \in 0..n : d \in T
    BY <1>1, <1>2, Counting
  <2> QED
    BY <2>1
<1>4. PICK f \in F : \A i \in 1..n : There(f, i)
  <2>1. PICK f \in F : \A i \in n + 1 - n..n : There(f, i)
    BY <1>3
  <2>2. n + 1 - n = 1
    OBVIOUS
  <2> HIDE DEF There, F
  <2> QED
    BY <2>1, <2>2
<1>5. PICK g : g = [i \in 1..n |->
                      IF i \in cut THEN base
                      ELSE step[<<i, IF next[i] > n THEN base ELSE f[next[i]]>>]]
  OBVIOUS
<1>6. \A i \in 1..n : g[i] = f[i]
  BY <1>4, <1>5
<1>7. f = [i \in 1..n |-> f[i]] /\ g = [i \in 1..n |-> g[i]]
  BY <1>5
<1>8. f = g
  BY <1>6, <1>7
<1> QED
  BY <1>5, <1>8 DEF FromTheEnd

\* and Visited is such a walk.
LEMMA VisitedFrom ==
  ASSUME NEW s \in Seq(Nat), s # <<>>
  PROVE \E from :
          /\ Visited(s) = from[1]
          /\ \A i \in 1..Len(s) :
               from[i] = IF CutShort(s, i) THEN {}
                         ELSE {i} \cup IF i + Advance(s, i) > Len(s) THEN {}
                                       ELSE from[i + Advance(s, i)]
<1>1. PICK n \in Nat : n = Len(s)
  OBVIOUS
<1>2. PICK cut \in SUBSET (1..n) : \A i \in 1..n : i \in cut <=> CutShort(s, i)
  <2>1. {i \in 1..n : CutShort(s, i)} \in SUBSET (1..n)
    OBVIOUS
  <2>2. \A i \in 1..n : i \in {k \in 1..n : CutShort(s, k)} <=> CutShort(s, i)
    OBVIOUS
  <2> QED
    BY <2>1, <2>2
<1>3. \A i \in (1..n) \ cut : Advance(s, i) \in Nat \ {0}
  BY <1>1, <1>2, Advances
<1>4. PICK next \in [1..n -> Nat] :
        \A i \in (1..n) \ cut : next[i] = i + Advance(s, i)
  <2> DEFINE next == [i \in 1..n |-> IF i \in cut THEN 0 ELSE i + Advance(s, i)]
  <2>1. next \in [1..n -> Nat]
    BY <1>3
  <2>2. \A i \in (1..n) \ cut : next[i] = i + Advance(s, i)
    OBVIOUS
  <2> HIDE DEF next
  <2> QED
    BY <2>1, <2>2
<1>5. \A i \in (1..n) \ cut : next[i] > i
  BY <1>3, <1>4
<1> DEFINE Walk(f) == f = [i \in 1..Len(s) |->
                             IF CutShort(s, i) THEN {}
                             ELSE LET next_ == i + Advance(s, i)
                                  IN {i} \cup IF next_ > Len(s) THEN {} ELSE f[next_]]
           from == CHOOSE f : Walk(f)
<1>a. PICK step \in [(1..n) \X SUBSET (1..n) -> SUBSET (1..n)] :
        \A i \in 1..n, p \in SUBSET (1..n) : step[<<i, p>>] = {i} \cup p
  <2> DEFINE g == [q \in (1..n) \X SUBSET (1..n) |-> {q[1]} \cup q[2]]
  <2>1. g \in [(1..n) \X SUBSET (1..n) -> SUBSET (1..n)]
    OBVIOUS
  <2>2. \A i \in 1..n, p \in SUBSET (1..n) : g[<<i, p>>] = {i} \cup p
    OBVIOUS
  <2> HIDE DEF g
  <2> QED
    BY <2>1, <2>2
<1>6. PICK f \in [1..n -> SUBSET (1..n)] : FromTheEnd(f, n, {}, cut, next, step)
  <2>1. {} \in SUBSET (1..n)
    OBVIOUS
  <2> QED
    BY <1>5, <2>1, EndExists, Zenon
<1>7. Walk(f)
  <2>1. \A i \in 1..n : /\ i \in cut <=> CutShort(s, i)
                        /\ i \notin cut => next[i] = i + Advance(s, i)
    BY <1>2, <1>4
  <2>2. \A i \in 1..n :
          f[i] = IF i \in cut THEN {}
                 ELSE {i} \cup IF next[i] > n THEN {} ELSE f[next[i]]
    <3> TAKE i \in 1..n
    <3>1. f[i] = IF i \in cut THEN {}
                 ELSE step[<<i, IF next[i] > n THEN {} ELSE f[next[i]]>>]
      BY <1>6 DEF FromTheEnd
    <3>2. i \notin cut /\ ~(next[i] > n) => next[i] \in 1..n
      BY <1>5
    <3>3. PICK p \in SUBSET (1..n) :
            p = IF i \in cut \/ next[i] > n THEN {} ELSE f[next[i]]
      BY <3>2
    <3>4. step[<<i, p>>] = {i} \cup p
      BY <1>a
    <3> QED
      BY <3>1, <3>3, <3>4
  <2>3. f = [i \in 1..n |-> f[i]]
    OBVIOUS
  <2> QED
    BY <1>1, <2>1, <2>2, <2>3, ZenonT(60)
<1>8. Walk(from)
  <2> HIDE DEF Walk
  <2> QED
    BY <1>7
<1>9. Visited(s) = from[1]
  BY Zenon DEF Visited
<1>10. \A i \in 1..Len(s) :
         from[i] = IF CutShort(s, i) THEN {}
                   ELSE {i} \cup IF i + Advance(s, i) > Len(s) THEN {}
                                 ELSE from[i + Advance(s, i)]
  <2> HIDE DEF from
  <2> QED
    BY <1>8
<1> HIDE DEF from
<1> QED
  BY <1>9, <1>10

\* A sequence, of which parts it is made and where they begin.
Parts(n, m, len, start, f) ==
  /\ n \in Nat \ {0}
  /\ m \in [1..n -> Seq(Nat)] /\ \A k \in 1..n : m[k] # <<>>
  /\ len \in [1..n -> Nat] /\ \A k \in 1..n : len[k] = Len(m[k])
  /\ Begins(start, n, len)
  /\ Joins(f, n, m, start)

PartAt(n, m, len, start, f, k) ==
  /\ f \in Seq(Nat) /\ start[k] \in 1..Len(f)
  /\ len[k] \in Nat \ {0} /\ len[k] = Len(m[k])
  /\ start[k + 1] = start[k] + len[k] /\ start[k] + len[k] <= Len(f) + 1
  /\ \A j \in 1..len[k] : f[start[k] + j - 1] = m[k][j]
  /\ (start[k + 1] > Len(f) <=> k = n)

\* Where a part is.
LEMMA AtPart ==
  ASSUME NEW n, NEW m, NEW len, NEW start, NEW f, Parts(n, m, len, start, f),
         NEW k \in 1..n
  PROVE PartAt(n, m, len, start, f, k)
<1>0. n \in Nat \ {0} /\ f \in Seq(Nat) /\ Len(f) \in Nat /\ start[n + 1] = Len(f) + 1
  <2>1. n \in Nat \ {0} /\ start[n + 1] \in Nat
    BY DEF Parts, Begins
  <2>2. f \in Seq(Nat) /\ Len(f) = start[n + 1] - 1
    BY DEF Parts, Joins
  <2> QED
    BY <2>1, <2>2
<1>1. PICK p \in Nat : p = start[k]
  BY DEF Parts, Begins
<1>2. PICK c \in Nat : c = len[k] /\ c = Len(m[k])
  BY DEF Parts
<1>3. start[k + 1] = p + c
  BY <1>1, <1>2 DEF Parts, Begins
<1>4. ASSUME NEW j \in 1..c PROVE f[p + j - 1] = m[k][j]
  BY <1>1, <1>2 DEF Parts, Joins
<1>a. \A l \in 1..n : len[l] # 0 /\ len[l] \in Nat
  <2> TAKE l \in 1..n
  <2>1. len[l] = Len(m[l]) /\ len[l] \in Nat /\ m[l] \in Seq(Nat) /\ m[l] # <<>>
    BY DEF Parts
  <2> QED
    BY <2>1
<1>5. p >= 1
  <2>1. CASE k = 1
    BY <2>1, <1>1 DEF Parts, Begins
  <2>2. CASE k # 1
    <3>1. 1 \in 1..n /\ 1 < k /\ k \in 1..n + 1
      BY <2>2, <1>0
    <3>2. start[1] + len[1] <= start[k] /\ start[1] = 1 /\ len[1] \in Nat
      BY <3>1, Apart DEF Parts, Begins
    <3> QED
      BY <3>2, <1>1
  <2> QED
    BY <2>1, <2>2
<1>6. p + c <= Len(f) + 1
  <2>1. k \in 1..n /\ n + 1 \in 1..n + 1 /\ k < n + 1
    BY <1>0
  <2>2. start[k] + len[k] <= start[n + 1]
    BY <2>1, Apart DEF Parts
  <2> QED
    BY <2>2, <1>0, <1>1, <1>2
<1>7. p \in 1..Len(f)
  <2>1. c # 0
    BY <1>2, <1>a
  <2> QED
    BY <2>1, <1>0, <1>5, <1>6
<1>8. start[k + 1] > Len(f) <=> k = n
  <2>1. CASE k = n
    BY <2>1, <1>0
  <2>2. CASE k # n
    <3>1. PICK l \in 1..n : l = k + 1
      BY <2>2, <1>0
    <3>2. n + 1 \in 1..n + 1 /\ l < n + 1
      BY <3>1, <1>0
    <3>3. start[l] + len[l] <= start[n + 1] /\ len[l] # 0 /\ len[l] \in Nat
      BY <3>2, <1>a, Apart DEF Parts
    <3>4. start[l] \in Nat
      BY <1>1, <1>2, <1>3, <3>1
    <3> QED
      BY <3>1, <3>3, <3>4, <1>0, <2>2
  <2> QED
    BY <2>1, <2>2
<1>9. len[k] \in Nat \ {0} /\ len[k] = Len(m[k]) /\ start[k] \in 1..Len(f)
  BY <1>1, <1>2, <1>7, <1>a
<1>10. start[k + 1] = start[k] + len[k] /\ start[k] + len[k] <= Len(f) + 1
  BY <1>1, <1>2, <1>3, <1>6
<1>11. \A j \in 1..len[k] : f[start[k] + j - 1] = m[k][j]
  BY <1>1, <1>2, <1>4
<1> QED
  BY <1>0, <1>8, <1>9, <1>10, <1>11, Zenon DEF PartAt

\* Parts can be put one behind the other.
LEMMA PartsExist ==
  ASSUME NEW n \in Nat \ {0}, NEW m \in [1..n -> Seq(Nat)],
         \A k \in 1..n : m[k] # <<>>
  PROVE \E len, start : Parts(n, m, len, start, FlattenSeq(m))
<1>1. PICK len \in [1..n -> Nat] : \A k \in 1..n : len[k] = Len(m[k])
  <2>1. \A k \in 1..n : Len(m[k]) \in Nat
    OBVIOUS
  <2>2. [k \in 1..n |-> Len(m[k])] \in [1..n -> Nat]
    BY <2>1
  <2>3. \A k \in 1..n : [l \in 1..n |-> Len(m[l])][k] = Len(m[k])
    OBVIOUS
  <2> QED
    BY <2>2, <2>3, Zenon
<1>2. PICK start : Begins(start, n, len)
  BY BeginsExist
<1>3. PICK f : f = FlattenSeq(m)
  OBVIOUS
<1>4. Joins(f, n, m, start)
  BY <1>1, <1>2, <1>3, Flattened
<1>5. Parts(n, m, len, start, f)
  BY <1>1, <1>2, <1>4 DEF Parts
<1> QED
  BY <1>3, <1>5

\* Any place lies in one instruction.
LEMMA OnePlace ==
  ASSUME NEW n \in Nat, NEW len \in [1..n -> Nat],
         NEW start, Begins(start, n, len)
  PROVE \A k, l \in 1..n : \A j \in 1..len[k], i \in 1..len[l] :
          start[k] + j = start[l] + i => k = l /\ j = i
<1> SUFFICES ASSUME NEW k \in 1..n, NEW l \in 1..n, NEW j \in 1..len[k],
                    NEW i \in 1..len[l], start[k] + j = start[l] + i
             PROVE k = l /\ j = i
  OBVIOUS
<1>1. /\ start[k] \in Nat /\ start[l] \in Nat /\ len[k] \in Nat /\ len[l] \in Nat
      /\ k \in 1..n + 1 /\ l \in 1..n + 1
  BY DEF Begins
<1>a. PICK s \in Nat, t \in Nat, a \in Nat, b \in Nat :
        s = start[k] /\ t = start[l] /\ a = len[k] /\ b = len[l]
  BY <1>1
<1>b. j \in 1..a /\ i \in 1..b /\ s + j = t + i
  BY <1>a
<1>2. CASE k < l
  <2>1. start[k] + len[k] <= start[l]
    BY <1>1, <1>2, Apart
  <2>2. s + a <= t
    BY <2>1, <1>a, Zenon
  <2> QED
    BY <1>b, <2>2
<1>3. CASE l < k
  <2>1. start[l] + len[l] <= start[k]
    BY <1>1, <1>3, Apart
  <2>2. t + b <= s
    BY <2>1, <1>a, Zenon
  <2> QED
    BY <1>b, <2>2
<1>4. CASE k = l
  <2>1. s = t
    BY <1>4, <1>a, Zenon
  <2> QED
    BY <1>4, <1>b, <2>1
<1> QED
  BY <1>2, <1>3, <1>4

\* A method is made of its instructions.
Method(n, m, len, start, f) ==
  Parts(n, m, len, start, f) /\ \A k \in 1..n : Instruction(m[k])

\* Where the walk is at the beginning of an instruction.
LEMMA AtInstruction ==
  ASSUME NEW n, NEW m, NEW len, NEW start, NEW f, Method(n, m, len, start, f),
         NEW k \in 1..n
  PROVE /\ f \in Seq(Nat) /\ start[k] \in 1..Len(f) /\ ~CutShort(f, start[k])
        /\ start[k] + Advance(f, start[k]) = start[k + 1]
        /\ len[k] \in Nat \ {0} /\ len[k] = Len(m[k]) /\ start[k + 1] = start[k] + len[k]
        /\ \A j \in 1..len[k] : f[start[k] + j - 1] = m[k][j]
        /\ start[k + 1] > Len(f) <=> k = n
<1>1. Parts(n, m, len, start, f) /\ Instruction(m[k])
  BY DEF Method, Parts
<1>p. PartAt(n, m, len, start, f, k)
  BY <1>1, AtPart, Zenon
<1>2. /\ f \in Seq(Nat) /\ start[k] \in 1..Len(f)
      /\ len[k] \in Nat \ {0} /\ len[k] = Len(m[k])
      /\ start[k + 1] = start[k] + len[k] /\ start[k] + len[k] <= Len(f) + 1
      /\ \A j \in 1..len[k] : f[start[k] + j - 1] = m[k][j]
      /\ (start[k + 1] > Len(f) <=> k = n)
  BY <1>p, Zenon DEF PartAt
<1>3. PICK w, p : w = m[k] /\ p = start[k]
  OBVIOUS
<1>4. /\ f \in Seq(Nat) /\ Instruction(w) /\ p \in Nat /\ p >= 1
      /\ p + Len(w) <= Len(f) + 1 /\ \A j \in 1..Len(w) : f[p + j - 1] = w[j]
  BY <1>1, <1>2, <1>3
<1>5. ~CutShort(f, p) /\ Advance(f, p) = Len(w)
  BY <1>4, OneInstruction
<1> QED
  BY <1>2, <1>3, <1>5

\* The walk stops at every instruction and nowhere else.
LEMMA StopsAtInstructions ==
  ASSUME NEW n, NEW m, NEW len, NEW start, NEW f, Method(n, m, len, start, f)
  PROVE Visited(f) = {start[k] : k \in 1..n}
<1>0. n \in Nat \ {0} /\ f \in Seq(Nat) /\ f # <<>> /\ start[1] = 1
  <2>1. n \in Nat \ {0} /\ start[1] = 1
    BY DEF Method, Parts, Begins
  <2>2. 1 \in 1..n
    BY <2>1
  <2>3. f \in Seq(Nat) /\ start[1] \in 1..Len(f)
    BY <2>2, AtInstruction
  <2> QED
    BY <2>1, <2>3
<1>1. PICK from :
          /\ Visited(f) = from[1]
          /\ \A i \in 1..Len(f) :
               from[i] = IF CutShort(f, i) THEN {}
                         ELSE {i} \cup IF i + Advance(f, i) > Len(f) THEN {}
                                       ELSE from[i + Advance(f, i)]
  BY <1>0, VisitedFrom
<1>2. ASSUME NEW k \in 1..n
      PROVE from[start[k]] = {start[k]} \cup IF k = n THEN {} ELSE from[start[k + 1]]
  <2>1. /\ start[k] \in 1..Len(f) /\ ~CutShort(f, start[k])
        /\ start[k] + Advance(f, start[k]) = start[k + 1]
        /\ start[k + 1] > Len(f) <=> k = n
    BY AtInstruction
  <2> QED
    BY <1>1, <2>1, Zenon
<1> DEFINE T == {d \in 0..n - 1 : from[start[n - d]] = {start[k] : k \in n - d..n}}
<1>3. 0 \in T
  <2>1. n - 0 = n /\ n \in 1..n /\ n..n = {n} /\ 0 \in 0..n - 1
    BY <1>0
  <2>2. from[start[n]] = {start[n]}
    BY <2>1, <1>2
  <2>3. {start[k] : k \in n..n} = {start[n]}
    BY <2>1
  <2> QED
    BY <2>1, <2>2, <2>3
<1>4. ASSUME NEW d \in 1..n - 1, d - 1 \in T PROVE d \in T
  <2>1. PICK p \in 1..n - 1 : p = n - d
    BY <1>0
  <2>2. n - (d - 1) = p + 1 /\ p \in 1..n /\ p # n /\ d \in 0..n - 1
    BY <1>0, <2>1
  <2>3. from[start[p + 1]] = {start[k] : k \in p + 1..n}
    BY <1>4, <2>2
  <2>4. from[start[p]] = {start[p]} \cup {start[k] : k \in p + 1..n}
    BY <1>2, <2>2, <2>3
  <2>5. p..n = {p} \cup (p + 1..n)
    BY <1>0, <2>1
  <2>6. {start[k] : k \in p..n} = {start[p]} \cup {start[k] : k \in p + 1..n}
    BY <2>5
  <2> QED
    BY <2>1, <2>2, <2>4, <2>6
<1>5. n - 1 \in T
  <2> HIDE DEF T
  <2>1. n - 1 \in Nat /\ n - 1 \in 0..n - 1
    BY <1>0
  <2>2. \A d \in 0..n - 1 : d \in T
    BY <2>1, <1>3, <1>4, Counting
  <2> QED
    BY <2>1, <2>2
<1>6. n - (n - 1) = 1
  BY <1>0
<1> QED
  BY <1>0, <1>1, <1>5, <1>6

-----------------------------------------------------------------------------
(* What the patcher makes of a method                                      *)

\* An instruction that reads the field, and what becomes of each.
ReadsField(w, field) == opcode(w[1]) \in Sgets /\ w[2] = field
Replaced(w, field) ==
  IF ReadsField(w, field)
  THEN <<256 * high(w[1]) + Const16, CLAMPED_SDK_INT>> ELSE w

\* The reads are instructions of two units.
ReadsAre(reads, n, m, len, start, field) ==
  /\ reads = {start[k] : k \in {l \in 1..n : ReadsField(m[l], field)}}
  /\ \A k \in 1..n : ReadsField(m[k], field) => len[k] = 2

\* Reads finds the instructions that read the field, and no data of a table.
LEMMA ReadsFound ==
  ASSUME NEW n, NEW m, NEW len, NEW start, NEW f, Method(n, m, len, start, f),
         NEW field
  PROVE ReadsAre(Reads(f, field), n, m, len, start, field)
<1>1. ASSUME NEW k \in 1..n, opcode(m[k][1]) \in Sgets PROVE len[k] = 2
  <2>1. Instruction(m[k]) /\ len[k] = Len(m[k])
    BY DEF Method, Parts
  <2>2. CodeUnits(opcode(m[k][1])) = 2 /\ opcode(m[k][1]) # 0
    BY <1>1, Units
  <2> QED
    BY <2>1, <2>2, AsLong
<1>2. ASSUME NEW k \in 1..n
      PROVE opcode(f[start[k]]) \in Sgets /\ f[start[k] + 1] = field
              <=> ReadsField(m[k], field)
  <2>a. \A j \in 1..len[k] : f[start[k] + j - 1] = m[k][j]
    BY AtInstruction
  <2>b. len[k] \in Nat \ {0} /\ start[k] \in 1..Len(f) /\ f \in Seq(Nat)
    BY AtInstruction
  <2>1. /\ \A j \in 1..len[k] : f[start[k] + j - 1] = m[k][j]
        /\ len[k] \in Nat \ {0} /\ start[k] \in 1..Len(f) /\ f \in Seq(Nat)
    BY <2>a, <2>b, Zenon
  <2>2. start[k] + 1 - 1 = start[k] /\ start[k] + 2 - 1 = start[k] + 1
    BY <2>1
  <2>3. f[start[k]] = m[k][1]
    <3>1. 1 \in 1..len[k]
      BY <2>1
    <3> QED
      BY <3>1, <2>1, <2>2
  <2>4. opcode(m[k][1]) \in Sgets => f[start[k] + 1] = m[k][2]
    <3>1. len[k] = 2 => 2 \in 1..len[k]
      OBVIOUS
    <3> QED
      BY <3>1, <1>1, <2>1, <2>2
  <2> QED
    BY <2>3, <2>4 DEF ReadsField
<1>3. Visited(f) = {start[k] : k \in 1..n}
  BY StopsAtInstructions
<1>4. Reads(f, field) = {start[k] : k \in {l \in 1..n : ReadsField(m[l], field)}}
  BY <1>2, <1>3 DEF Reads
<1> QED
  BY <1>1, <1>4 DEF ReadsAre, ReadsField

\* What is at each place of the rewritten method.
PlaceByPlace(g, f, reads) ==
  /\ g \in Seq(Nat) /\ Len(g) = Len(f)
  /\ \A i \in 1..Len(f) :
       /\ i \in reads /\ i - 1 \notin reads => g[i] = 256 * high(f[i]) + Const16
       /\ i \notin reads /\ i - 1 \in reads => g[i] = CLAMPED_SDK_INT
       /\ i \notin reads /\ i - 1 \notin reads => g[i] = f[i]

\* Rewritten puts these there.
LEMMA RewrittenAt ==
  ASSUME NEW f \in Seq(Nat), NEW field
  PROVE PlaceByPlace(Rewritten(f, field), f, Reads(f, field))
<1>0. PICK g, reads : g = Rewritten(f, field) /\ reads = Reads(f, field)
  OBVIOUS
<1>1. PICK n \in Nat : n = Len(f) /\ DOMAIN f = 1..n
  OBVIOUS
<1>2. g = [i \in DOMAIN f |->
             CASE i \in Reads(f, field) -> 256 * high(f[i]) + Const16
               [] i - 1 \in Reads(f, field) -> CLAMPED_SDK_INT
               [] OTHER -> f[i]]
  BY <1>0, Zenon DEF Rewritten
<1>3. ASSUME NEW i \in 1..n
      PROVE /\ i \in reads /\ i - 1 \notin reads =>
                 g[i] = 256 * high(f[i]) + Const16
            /\ i \notin reads /\ i - 1 \in reads => g[i] = CLAMPED_SDK_INT
            /\ i \notin reads /\ i - 1 \notin reads => g[i] = f[i]
  <2>1. PICK a, b : a = 256 * high(f[i]) + Const16 /\ b = i - 1
    OBVIOUS
  <2>2. g[i] = CASE i \in Reads(f, field) -> 256 * high(f[i]) + Const16
                 [] i - 1 \in Reads(f, field) -> CLAMPED_SDK_INT
                 [] OTHER -> f[i]
    BY <1>1, <1>2, Zenon
  <2>3. g[i] = CASE i \in reads -> a
                 [] b \in reads -> CLAMPED_SDK_INT
                 [] OTHER -> f[i]
    BY <1>0, <2>1, <2>2, Zenon
  <2>4. /\ i \in reads /\ b \notin reads => g[i] = a
        /\ i \notin reads /\ b \in reads => g[i] = CLAMPED_SDK_INT
        /\ i \notin reads /\ b \notin reads => g[i] = f[i]
    BY <2>3
  <2> QED
    BY <2>1, <2>4, Zenon
<1>4. ASSUME NEW i \in 1..n PROVE g[i] \in Nat
  <2>1. f[i] \in Nat
    BY <1>1
  <2>2. high(f[i]) \in Nat
    BY <2>1, Units
  <2> QED
    <3>1. g[i] = CASE i \in reads -> 256 * high(f[i]) + Const16
                   [] i - 1 \in reads -> CLAMPED_SDK_INT
                   [] OTHER -> f[i]
      BY <1>0, <1>1, <1>2, Zenon
    <3>2. g[i] \in {256 * high(f[i]) + Const16, CLAMPED_SDK_INT, f[i]}
      BY <3>1
    <3> QED
      BY <3>2, <2>1, <2>2 DEF Const16, CLAMPED_SDK_INT
<1>5. g = [i \in 1..n |-> g[i]]
  <2>1. DOMAIN g = DOMAIN f /\ g = [i \in DOMAIN g |-> g[i]]
    BY <1>2
  <2> QED
    BY <1>1, <2>1, Zenon
<1>6. g \in [1..n -> Nat]
  BY <1>4, <1>5
<1>7. g \in Seq(Nat) /\ Len(g) = n
  BY <1>6
<1>8. PlaceByPlace(g, f, reads)
  BY <1>1, <1>3, <1>7, Zenon DEF PlaceByPlace
<1> QED
  BY <1>0, <1>8, Zenon

\* Joins, of parts that are as long as these.
JoinsReplaced(g, n, r, len, start) ==
  /\ Joins(g, n, r, start)
  /\ r \in [1..n -> Seq(Nat)] /\ \A k \in 1..n : len[k] = Len(r[k])

\* The rewritten method joins the replaced instructions.
LEMMA RewrittenJoins ==
  ASSUME NEW n, NEW m, NEW len, NEW start, NEW f, Method(n, m, len, start, f),
         NEW field
  PROVE JoinsReplaced(Rewritten(f, field), n,
                      [k \in 1..n |-> Replaced(m[k], field)], len, start)
<1>r. PICK r : r = [k \in 1..n |-> Replaced(m[k], field)]
  OBVIOUS
<1>a. /\ len \in [1..n -> Nat] /\ Begins(start, n, len) /\ n \in Nat
      /\ \A k \in 1..n : start[k] \in Nat /\ len[k] \in Nat
  <2>1. len \in [1..n -> Nat] /\ Begins(start, n, len) /\ n \in Nat
    BY DEF Method, Parts
  <2>2. \A k \in 1..n : start[k] \in Nat /\ len[k] \in Nat
    BY <2>1 DEF Begins
  <2> QED
    BY <2>1, <2>2
<1>2. n \in Nat \ {0} /\ f \in Seq(Nat) /\ Len(f) \in Nat
  <2>1. 1 \in 1..n /\ n \in Nat \ {0}
    BY DEF Method, Parts
  <2> QED
    BY <2>1, AtInstruction
<1>1. PICK reads :
        /\ reads = Reads(f, field)
        /\ ReadsAre(reads, n, m, len, start, field)
  BY ReadsFound
<1>c. /\ reads = {start[k] : k \in {l \in 1..n : ReadsField(m[l], field)}}
      /\ \A k \in 1..n : ReadsField(m[k], field) => len[k] = 2
  BY <1>1 DEF ReadsAre
<1>d. PICK g : g = Rewritten(f, field)
  OBVIOUS
<1>e. PlaceByPlace(g, f, reads)
  BY <1>1, <1>2, <1>d, RewrittenAt, Zenon
<1>5. g \in Seq(Nat) /\ Len(g) = Len(f) /\ DOMAIN f = 1..Len(f)
  BY <1>2, <1>e DEF PlaceByPlace
<1>b. \A i \in DOMAIN f :
        /\ i \in reads /\ i - 1 \notin reads => g[i] = 256 * high(f[i]) + Const16
        /\ i \notin reads /\ i - 1 \in reads => g[i] = CLAMPED_SDK_INT
        /\ i \notin reads /\ i - 1 \notin reads => g[i] = f[i]
  BY <1>e, <1>5, Zenon DEF PlaceByPlace
<1>f. \A k, l \in 1..n : \A j \in 1..len[k], i \in 1..len[l] :
        start[k] + j = start[l] + i => k = l /\ j = i
  BY <1>a, OnePlace
<1>6. ASSUME NEW k \in 1..n
      PROVE /\ r[k] \in Seq(Nat) /\ Len(r[k]) = len[k]
            /\ \A j \in 1..len[k] : g[start[k] + j - 1] = r[k][j]
  <2>1. /\ start[k] \in 1..Len(f)
        /\ len[k] \in Nat \ {0} /\ len[k] = Len(m[k]) /\ start[k + 1] = start[k] + len[k]
        /\ \A j \in 1..len[k] : f[start[k] + j - 1] = m[k][j]
    BY AtInstruction
  <2>2. m[k] \in Seq(Nat) /\ m[k][1] \in Nat
    <3>1. m[k] \in Seq(Nat) /\ len[k] = Len(m[k])
      BY DEF Method, Parts
    <3> QED
      BY <3>1, <2>1
  <2>3. r[k] = Replaced(m[k], field)
    BY <1>r
  <2>4. ASSUME NEW j \in 1..len[k]
        PROVE start[k] + j - 1 \in 1..Len(f)
    <3>1. start[k] + len[k] <= Len(f) + 1
      <4>1. n + 1 \in 1..n + 1 /\ k < n + 1
        BY <1>2
      <4>2. start[k] + len[k] <= start[n + 1]
        BY <4>1, Apart DEF Method, Parts
      <4>3. Len(f) = start[n + 1] - 1 /\ start[n + 1] \in Nat
        BY <1>2 DEF Method, Parts, Joins, Begins
      <4> QED
        BY <4>2, <4>3, <2>1
    <3> QED
      BY <3>1, <2>1
  <2>5. ASSUME NEW j \in 1..len[k]
        PROVE /\ start[k] + j - 1 \in reads <=> ReadsField(m[k], field) /\ j = 1
              /\ start[k] + j - 2 \in reads <=> ReadsField(m[k], field) /\ j = 2
    <3>1. ASSUME NEW l \in 1..n, ReadsField(m[l], field)
          PROVE /\ start[k] + j - 1 = start[l] <=> k = l /\ j = 1
                /\ start[k] + j - 2 = start[l] <=> k = l /\ j = 2
      <4>1. len[l] = 2 /\ start[l] \in Nat /\ start[k] \in Nat
        <5>1. len[l] = 2
          BY <3>1, <1>c
        <5> QED
          BY <5>1, <1>a
      <4>2. 1 \in 1..len[l] /\ 2 \in 1..len[l]
        BY <4>1
      <4>3. start[k] + j = start[l] + 1 => k = l /\ j = 1
        <5> SUFFICES ASSUME start[k] + j = start[l] + 1 PROVE k = l /\ j = 1
          OBVIOUS
        <5> QED
          BY <4>2, <1>f, Zenon
      <4>4. start[k] + j = start[l] + 2 => k = l /\ j = 2
        <5> SUFFICES ASSUME start[k] + j = start[l] + 2 PROVE k = l /\ j = 2
          OBVIOUS
        <5> QED
          BY <4>2, <1>f, Zenon
      <4> QED
        BY <4>1, <4>3, <4>4
    <3> QED
      BY <1>c, <3>1
  <2>6. CASE ReadsField(m[k], field)
    <3>1. len[k] = 2
      BY <2>6, <1>c
    <3>2. r[k] = <<256 * high(m[k][1]) + Const16, CLAMPED_SDK_INT>>
      BY <2>3, <2>6 DEF Replaced
    <3>3. high(m[k][1]) \in Nat
      BY <2>2, Units
    <3>4. r[k] \in Seq(Nat) /\ Len(r[k]) = 2
      <4>1. PICK u \in Nat : u = 256 * high(m[k][1]) + Const16
        BY <3>3 DEF Const16
      <4>2. <<u, CLAMPED_SDK_INT>> \in Seq(Nat) /\ Len(<<u, CLAMPED_SDK_INT>>) = 2
        BY DEF CLAMPED_SDK_INT
      <4> QED
        BY <3>2, <4>1, <4>2, Zenon
    <3>5. g[start[k] + 1 - 1] = r[k][1]
      <4>1. 1 \in 1..len[k] /\ start[k] + 1 - 1 = start[k]
        BY <3>1, <2>1
      <4>2. start[k] \in reads /\ f[start[k]] = m[k][1] /\ start[k] \in DOMAIN f
        BY <4>1, <2>1, <2>5, <2>6, <1>5
      <4>3. g[start[k]] = 256 * high(m[k][1]) + Const16
        <5>1. start[k] + 1 - 2 \notin reads
          BY <4>1, <2>5
        <5>2. start[k] + 1 - 2 = start[k] - 1
          BY <2>1
        <5> QED
          BY <4>2, <5>1, <5>2, <1>b
      <4> QED
        BY <4>1, <4>3, <3>2
    <3>6. g[start[k] + 2 - 1] = r[k][2]
      <4>1. 2 \in 1..len[k]
        BY <3>1
      <4>2. PICK i : i = start[k] + 2 - 1
        OBVIOUS
      <4>3. i \in DOMAIN f
        BY <4>1, <4>2, <2>4, <1>5
      <4>4. i \notin reads
        BY <4>1, <4>2, <2>5
      <4>5. i - 1 = start[k] + 2 - 2
        BY <4>2, <2>1
      <4>6. i - 1 \in reads
        BY <4>1, <4>5, <2>5, <2>6
      <4>7. g[i] = CLAMPED_SDK_INT
        BY <4>3, <4>4, <4>6, <1>b
      <4> QED
        BY <4>2, <4>7, <3>2
    <3> QED
      BY <3>1, <3>4, <3>5, <3>6
  <2>7. CASE ~ReadsField(m[k], field)
    <3>1. r[k] = m[k]
      BY <2>3, <2>7 DEF Replaced
    <3>2. ASSUME NEW j \in 1..len[k] PROVE g[start[k] + j - 1] = m[k][j]
      <4>1. PICK i : i = start[k] + j - 1
        OBVIOUS
      <4>2. i \in DOMAIN f /\ i \notin reads
        BY <4>1, <2>4, <2>5, <2>7, <1>5
      <4>3. i - 1 = start[k] + j - 2
        BY <4>1, <1>a
      <4>4. i - 1 \notin reads
        BY <4>3, <2>5, <2>7
      <4>5. g[i] = f[i]
        BY <4>2, <4>4, <1>b
      <4> QED
        BY <4>1, <4>5, <2>1
    <3> QED
      BY <3>1, <3>2, <2>1, <2>2
  <2> QED
    BY <2>6, <2>7
<1>7. Len(g) = start[n + 1] - 1
  BY <1>5 DEF Method, Parts, Joins
<1>8. ASSUME NEW i \in 1..Len(g)
      PROVE \E l \in 1..n : \E j \in 1..Len(r[l]) : i = start[l] + j - 1
  <2>1. PICK l \in 1..n : \E j \in 1..Len(m[l]) : i = start[l] + j - 1
    BY <1>5 DEF Method, Parts, Joins
  <2>2. Len(r[l]) = Len(m[l])
    BY <1>6 DEF Method, Parts
  <2> QED
    BY <2>1, <2>2
<1>9. \A l \in 1..n : \A j \in 1..Len(r[l]) : g[start[l] + j - 1] = r[l][j]
  BY <1>6
<1>10. Joins(g, n, r, start)
  BY <1>5, <1>7, <1>8, <1>9 DEF Joins
<1> QED
  <2>1. r \in [1..n -> Seq(Nat)]
    BY <1>6, <1>r
  <2>2. \A k \in 1..n : len[k] = Len(r[k])
    BY <1>6
  <2>3. JoinsReplaced(g, n, r, len, start)
    BY <2>1, <2>2, <1>10, Zenon DEF JoinsReplaced
  <2> QED
    BY <2>3, <1>d, <1>r, Zenon

\* Rewriting a method is rewriting its instructions.
LEMMA MethodRewritten ==
  ASSUME NEW n \in Nat \ {0}, NEW m \in [1..n -> Seq(Nat)],
         \A k \in 1..n : Instruction(m[k]), NEW field
  PROVE Rewritten(FlattenSeq(m), field)
          = FlattenSeq([k \in 1..n |-> Replaced(m[k], field)])
<1>1. PICK f : f = FlattenSeq(m)
  OBVIOUS
<1>2. \A k \in 1..n : m[k] # <<>>
  BY AsLong
<1>3. PICK len, start : Parts(n, m, len, start, f)
  BY <1>1, <1>2, PartsExist
<1>4. /\ Begins(start, n, len) /\ Joins(f, n, m, start)
      /\ len \in [1..n -> Nat] /\ \A k \in 1..n : len[k] = Len(m[k])
  BY <1>3 DEF Parts
<1>5. Method(n, m, len, start, f)
  BY <1>3 DEF Method
<1>6. PICK r : r = [k \in 1..n |-> Replaced(m[k], field)]
  OBVIOUS
<1>7. /\ Joins(Rewritten(f, field), n, r, start)
      /\ r \in [1..n -> Seq(Nat)] /\ \A k \in 1..n : Len(r[k]) = len[k]
  <2>1. JoinsReplaced(Rewritten(f, field), n, r, len, start)
    BY <1>5, <1>6, RewrittenJoins, Zenon
  <2> QED
    BY <2>1 DEF JoinsReplaced
<1>8. Joins(FlattenSeq(r), n, r, start)
  <2>1. \A k \in 1..n : len[k] = Len(r[k])
    BY <1>7
  <2> QED
    BY <1>4, <1>7, <2>1, Flattened
<1>9. Rewritten(f, field) = FlattenSeq(r)
  BY <1>7, <1>8, JoinedEqual, Zenon
<1> QED
  BY <1>1, <1>6, <1>9, Zenon

\* The units of an instruction are numbers.
LEMMA UnitAt ==
  ASSUME NEW w \in Seq(Nat), NEW k \in 1..Len(w)
  PROVE w[k] \in Nat
  OBVIOUS

\* An instruction of two units has a second.
LEMMA SecondUnit ==
  ASSUME NEW w \in Seq(Nat), Len(w) = 2
  PROVE w[2] \in Nat
<1>1. 2 \in 1..Len(w)
  OBVIOUS
<1> QED
  BY <1>1, UnitAt, Zenon

\* A method without a read stays as it is, and none reads what is not there.
LEMMA MethodKept ==
  ASSUME NEW n \in Nat \ {0}, NEW m \in [1..n -> Seq(Nat)],
         \A k \in 1..n : Instruction(m[k]), NEW field,
         Reads(FlattenSeq(m), field) = {} \/ field = NotFound
  PROVE Rewritten(FlattenSeq(m), field) = FlattenSeq(m)
<1>1. PICK f : f = FlattenSeq(m)
  OBVIOUS
<1>2. \A k \in 1..n : m[k] # <<>>
  BY AsLong
<1>3. PICK len, start : Parts(n, m, len, start, f)
  BY <1>1, <1>2, PartsExist
<1>4. /\ Begins(start, n, len) /\ Joins(f, n, m, start)
      /\ len \in [1..n -> Nat] /\ \A k \in 1..n : len[k] = Len(m[k])
  BY <1>3 DEF Parts
<1>5. Method(n, m, len, start, f)
  BY <1>3 DEF Method
<1>6. Reads(f, field) = {}
  <2> SUFFICES ASSUME field = NotFound PROVE Reads(f, field) = {}
    BY <1>1
  <2>a. ReadsAre(Reads(f, field), n, m, len, start, field)
    BY <1>5, ReadsFound, Zenon
  <2>1. ASSUME NEW k \in 1..n, ReadsField(m[k], field) PROVE FALSE
    <3>1. len[k] = 2 /\ len[k] = Len(m[k])
      BY <1>4, <2>1, <2>a DEF ReadsAre
    <3>2. m[k][2] \in Nat
      <4>1. m[k] \in Seq(Nat) /\ Len(m[k]) = 2
        BY <3>1
      <4> QED
        BY <4>1, SecondUnit, Zenon
    <3> QED
      BY <2>1, <3>2 DEF ReadsField, NotFound
  <2> QED
    BY <2>1, <2>a DEF ReadsAre
<1>7. f \in Seq(Nat)
  BY <1>4 DEF Joins
<1>8. PICK g : g = Rewritten(f, field)
  OBVIOUS
<1>9. PlaceByPlace(g, f, {})
  BY <1>6, <1>7, <1>8, RewrittenAt, Zenon
<1>10. /\ g \in Seq(Nat) /\ Len(g) = Len(f)
       /\ \A i \in 1..Len(f) : g[i] = f[i]
  BY <1>9 DEF PlaceByPlace
<1>11. f = [i \in 1..Len(f) |-> f[i]] /\ g = [i \in 1..Len(g) |-> g[i]]
  BY <1>7, <1>10
<1>12. f = g
  BY <1>10, <1>11
<1> QED
  BY <1>1, <1>8, <1>12

\* find_idx returns the place of an entry.
LEMMA IndexFound ==
  ASSUME NEW n \in Nat, NEW table, Len(table) = n, DOMAIN table = 1..n, NEW entry
  PROVE \/ /\ find_idx(table, entry) = NotFound
           /\ \A i \in 1..n : table[i] # entry
        \/ /\ find_idx(table, entry) + 1 \in 1..n
           /\ table[find_idx(table, entry) + 1] = entry
           /\ find_idx(table, entry) \in Nat
<1>1. CASE \A i \in 1..n : table[i] # entry
  BY <1>1 DEF find_idx, Contains
<1>2. CASE \E i \in 1..n : table[i] = entry
  <2> DEFINE First(i) == table[i] = entry /\ \A j \in 1..i - 1 : table[j] # entry
  <2>1. \E i \in 1..n : First(i)
    <3> DEFINE T == {i \in 1..n : table[i] = entry}
    <3>1. T \subseteq Nat /\ T # {}
      BY <1>2
    <3>2. PICK x \in T : \A y \in T : x <= y
      <4> HIDE DEF T
      <4> QED
        BY <3>1, Least
    <3>3. \A j \in 1..x - 1 : table[j] # entry
      <4> SUFFICES ASSUME NEW j \in 1..x - 1, table[j] = entry PROVE FALSE
        OBVIOUS
      <4>1. j \in T /\ x \in 1..n
        OBVIOUS
      <4> QED
        BY <3>2, <4>1
    <3> QED
      BY <3>2, <3>3
  <2>2. PICK x : x = CHOOSE i \in 1..n : First(i)
    OBVIOUS
  <2>3. x \in 1..n /\ First(x)
    <3> HIDE DEF First
    <3> QED
      BY <2>1, <2>2
  <2>4. find_idx(table, entry) = x - 1
    BY <1>2, <2>2, Zenon DEF find_idx, Contains
  <2>5. (x - 1) + 1 = x /\ x - 1 \in Nat
    BY <2>3
  <2> QED
    BY <2>3, <2>4, <2>5
<1> QED
  BY <1>1, <1>2

\* One entry of a table without duplicates.
LEMMA OneIndex ==
  ASSUME NEW n \in Nat, NEW table, Len(table) = n, DOMAIN table = 1..n,
         IsInjective(table), NEW i \in 1..n
  PROVE find_idx(table, table[i]) = i - 1
<1>1. PICK j : j = find_idx(table, table[i])
  OBVIOUS
<1>2. j + 1 \in 1..n /\ table[j + 1] = table[i] /\ j \in Nat
  BY <1>1, IndexFound
<1>3. j + 1 = i
  BY <1>2 DEF IsInjective
<1> QED
  BY <1>1, <1>2, <1>3

-----------------------------------------------------------------------------
(* The field, and the file                                                 *)

\* Tables without duplicates, of names and of types that lead to them.
Tables(strings, types, ns, nt) ==
  /\ ns \in Nat /\ DOMAIN strings = 1..ns /\ Len(strings) = ns
  /\ nt \in Nat /\ types \in [1..nt -> 0..ns - 1] /\ Len(types) = nt
  /\ IsInjective(strings) /\ IsInjective(types)

\* The lookups find the type of a name, or none has it.
LEMMA TypeFound ==
  ASSUME NEW strings, NEW types, NEW ns, NEW nt, Tables(strings, types, ns, nt),
         NEW name, NEW c \in 0..nt - 1
  PROVE find_idx(types, find_idx(strings, name)) = c
          <=> strings[types[c + 1] + 1] = name
<1> USE DEF Tables
<1>1. PICK i \in 1..nt : i = c + 1
  OBVIOUS
<1>2. PICK s \in 1..ns : s = types[i] + 1
  <2>1. types[i] \in 0..ns - 1
    OBVIOUS
  <2> QED
    BY <2>1
<1>3. types[i] = s - 1 /\ i - 1 = c
  <2>1. types[i] \in 0..ns - 1
    OBVIOUS
  <2> QED
    BY <2>1, <1>1, <1>2
<1>4. find_idx(strings, strings[s]) = s - 1
  BY OneIndex
<1>5. find_idx(types, types[i]) = i - 1
  BY OneIndex
<1>6. ASSUME strings[s] = name PROVE find_idx(types, find_idx(strings, name)) = c
  BY <1>3, <1>4, <1>5, <1>6
<1>7. ASSUME find_idx(types, find_idx(strings, name)) = c PROVE strings[s] = name
  <2>1. PICK x : x = find_idx(strings, name)
    OBVIOUS
  <2>2. find_idx(types, x) = c
    BY <1>7, <2>1
  <2>3. c # NotFound
    BY DEF NotFound
  <2>4. types[c + 1] = x
    BY <2>2, <2>3, IndexFound
  <2>5. x = s - 1
    BY <2>4, <1>1, <1>3
  <2>6. x # NotFound /\ x + 1 = s
    BY <2>5 DEF NotFound
  <2>7. strings[x + 1] = name
    <3>2. x = NotFound \/ strings[x + 1] = name
      BY <2>1, IndexFound, Zenon
    <3> QED
      BY <2>6, <3>2
  <2> QED
    BY <2>6, <2>7
<1> QED
  BY <1>1, <1>2, <1>6, <1>7

\* The search for SDK_INT's field finds it, or there is none.
LEMMA FieldFound ==
  ASSUME NEW body, NEW field \in Nat \cup {NotFound}, HasField(body, field)
  PROVE SdkIntField(body) = field
<1>a. PICK strings, types, fields :
        strings = body.strings /\ types = body.types /\ fields = body.fields
  OBVIOUS
<1>b. /\ strings \in Seq(STRING) /\ IsInjective(strings)
      /\ types \in Seq(0..Len(strings) - 1) /\ IsInjective(types)
      /\ fields \in Seq([class : 0..Len(types) - 1, type : 0..Len(types) - 1,
                         name : 0..Len(strings) - 1])
      /\ {k \in DOMAIN fields :
            [class |-> strings[types[fields[k].class + 1] + 1],
             type |-> strings[types[fields[k].type + 1] + 1],
             name |-> strings[fields[k].name + 1]] = SdkInt}
           = IF field = NotFound THEN {} ELSE {field + 1}
  BY <1>a, Zenon DEF HasField
<1>d. /\ strings \in Seq(STRING) /\ IsInjective(strings)
      /\ types \in Seq(0..Len(strings) - 1) /\ IsInjective(types)
  BY <1>b
<1>c. PICK ns \in Nat, nt \in Nat, nf \in Nat :
        ns = Len(strings) /\ nt = Len(types) /\ nf = Len(fields)
  BY <1>b
<1>s. \A S, q, n : q \in Seq(S) /\ n = Len(q) => q \in [1..n -> S] /\ DOMAIN q = 1..n
  OBVIOUS
<1>1. strings \in [1..ns -> STRING] /\ DOMAIN strings = 1..ns
  BY <1>c, <1>d
<1>2. types \in [1..nt -> 0..ns - 1] /\ DOMAIN types = 1..nt
  BY <1>c, <1>d
<1>3. /\ fields \in [1..nf -> [class : 0..nt - 1, type : 0..nt - 1,
                                name : 0..ns - 1]]
      /\ DOMAIN fields = 1..nf
  BY <1>b, <1>c, <1>s, Zenon
<1>t. ASSUME NEW name, NEW c \in 0..nt - 1
      PROVE find_idx(types, find_idx(strings, name)) = c
              <=> strings[types[c + 1] + 1] = name
  <2>1. Tables(strings, types, ns, nt)
    BY <1>c, <1>d, <1>1, <1>2 DEF Tables
  <2> QED
    BY <2>1, TypeFound
<1>4. PICK sdk_int, i_type, build_ver :
        /\ sdk_int = find_idx(strings, "SDK_INT")
        /\ i_type = find_idx(types, find_idx(strings, "I"))
        /\ build_ver = find_idx(types,
                                find_idx(strings, "Landroid/os/Build$VERSION;"))
  OBVIOUS
<1>5. PICK e : e = [class |-> build_ver, type |-> i_type, name |-> sdk_int]
  OBVIOUS
<1>6. SdkIntField(body) = find_idx(fields, e)
  BY <1>a, <1>4, <1>5, Zenon DEF SdkIntField
<1>7. ASSUME NEW k \in 1..nf
      PROVE fields[k] = e <=>
              [class |-> strings[types[fields[k].class + 1] + 1],
               type |-> strings[types[fields[k].type + 1] + 1],
               name |-> strings[fields[k].name + 1]] = SdkInt
  <2>1. PICK c \in 0..nt - 1, t \in 0..nt - 1, s \in 0..ns - 1 :
          fields[k] = [class |-> c, type |-> t, name |-> s]
    BY <1>3
  <2>2. c = build_ver <=> strings[types[c + 1] + 1] = "Landroid/os/Build$VERSION;"
    <3>2. find_idx(types, find_idx(strings, "Landroid/os/Build$VERSION;")) = c
            <=> strings[types[c + 1] + 1] = "Landroid/os/Build$VERSION;"
      BY <1>t, Zenon
    <3> QED
      BY <3>2, <1>4
  <2>3. t = i_type <=> strings[types[t + 1] + 1] = "I"
    <3>2. find_idx(types, find_idx(strings, "I")) = t
            <=> strings[types[t + 1] + 1] = "I"
      BY <1>t, Zenon
    <3> QED
      BY <3>2, <1>4
  <2>4. s = sdk_int <=> strings[s + 1] = "SDK_INT"
    <3>1. PICK p \in 1..ns : p = s + 1 /\ s = p - 1
      OBVIOUS
    <3>2. find_idx(strings, strings[p]) = p - 1
      BY <1>c, <1>d, <1>1, OneIndex
    <3>3. s # NotFound
      BY DEF NotFound
    <3>4. ASSUME s = sdk_int PROVE strings[s + 1] = "SDK_INT"
      BY <3>3, <3>4, <1>c, <1>1, <1>4, IndexFound
    <3>5. ASSUME strings[s + 1] = "SDK_INT" PROVE s = sdk_int
      BY <3>1, <3>2, <3>5, <1>4
    <3> QED
      BY <3>4, <3>5
  <2>5. /\ fields[k].class = c /\ fields[k].type = t /\ fields[k].name = s
        /\ fields[k] = e <=> c = build_ver /\ t = i_type /\ s = sdk_int
    BY <2>1, <1>5
  <2>6. PICK x, y, z : /\ x = strings[types[c + 1] + 1]
                       /\ y = strings[types[t + 1] + 1]
                       /\ z = strings[s + 1]
    OBVIOUS
  <2>7. [class |-> x, type |-> y, name |-> z] = SdkInt
          <=> x = "Landroid/os/Build$VERSION;" /\ y = "I" /\ z = "SDK_INT"
    BY DEF SdkInt
  <2> QED
    BY <2>2, <2>3, <2>4, <2>5, <2>6, <2>7
<1>8. {k \in 1..nf : fields[k] = e} = IF field = NotFound THEN {} ELSE {field + 1}
  BY <1>b, <1>3, <1>7
<1>9. \/ find_idx(fields, e) = NotFound /\ \A k \in 1..nf : fields[k] # e
      \/ /\ find_idx(fields, e) + 1 \in 1..nf
         /\ fields[find_idx(fields, e) + 1] = e
         /\ find_idx(fields, e) \in Nat
  BY <1>c, <1>3, IndexFound
<1>10. PICK r : r = find_idx(fields, e)
  OBVIOUS
<1>11. r = field
  <2>1. CASE r = NotFound /\ \A k \in 1..nf : fields[k] # e
    <3>1. {k \in 1..nf : fields[k] = e} = {}
      BY <2>1
    <3>2. field = NotFound
      BY <3>1, <1>8
    <3> QED
      BY <2>1, <3>2
  <2>2. CASE r + 1 \in 1..nf /\ fields[r + 1] = e /\ r \in Nat
    <3>1. r + 1 \in {k \in 1..nf : fields[k] = e}
      BY <2>2
    <3>2. field \in Nat /\ r + 1 = field + 1
      BY <3>1, <1>8
    <3> QED
      BY <2>2, <3>2
  <2> QED
    BY <2>1, <2>2, <1>9, <1>10
<1> QED
  BY <1>6, <1>10, <1>11

-----------------------------------------------------------------------------
(* The class data that lead to the methods                                 *)

\* Seven bits of each byte.
BitsOf(w, j) == IF j > Len(w) THEN 0 ELSE w[j] % 128

\* The value of a number, from its bits.
LEMMA ValueNat ==
  ASSUME NEW w, IsNumber(w)
  PROVE /\ Value(w) = BitsOf(w, 1) + 128 * (BitsOf(w, 2) + 128 * (BitsOf(w, 3)
                        + 128 * (BitsOf(w, 4) + 128 * BitsOf(w, 5))))
        /\ Value(w) \in Nat
<1>1. Value(w) = BitsOf(w, 1) + 128 * (BitsOf(w, 2) + 128 * (BitsOf(w, 3)
                   + 128 * (BitsOf(w, 4) + 128 * BitsOf(w, 5))))
  BY Zenon DEF Value, BitsOf
<1>2. \A j \in 1..5 : BitsOf(w, j) \in Nat
  <2> TAKE j \in 1..5
  <2>1. ~(j > Len(w)) => w[j] \in Nat
    BY DEF IsNumber
  <2> QED
    BY <2>1 DEF BitsOf
<1>3. PICK a \in Nat, b \in Nat, c \in Nat, d \in Nat, e \in Nat :
        /\ a = BitsOf(w, 1) /\ b = BitsOf(w, 2) /\ c = BitsOf(w, 3)
        /\ d = BitsOf(w, 4) /\ e = BitsOf(w, 5)
  BY <1>2
<1>4. a + 128 * (b + 128 * (c + 128 * (d + 128 * e))) \in Nat
  OBVIOUS
<1> QED
  BY <1>1, <1>3, <1>4

\* The bytes behind p with which a number may end.
EndsAt(f, p) == {k \in 0..4 : p + k <= Len(f) /\ f[p + k] < 128}
Bits(f, p, last, k) == IF k > last THEN 0 ELSE f[p + k] % 128

\* What read_uleb128 returns, from the first byte that may end the number.
LEMMA ReadUleb ==
  ASSUME NEW f \in Seq(Nat), NEW p \in 1..Len(f)
  PROVE \/ EndsAt(f, p) = {} /\ read_uleb128(f, p) = <<>>
        \/ \E last \in EndsAt(f, p) :
             /\ \A k \in EndsAt(f, p) : last <= k
             /\ read_uleb128(f, p) =
                  <<p + last + 1,
                    Bits(f, p, last, 0) + 128 * (Bits(f, p, last, 1)
                      + 128 * (Bits(f, p, last, 2) + 128 * (Bits(f, p, last, 3)
                      + 128 * Bits(f, p, last, 4))))>>
<1>1. CASE EndsAt(f, p) = {}
  BY <1>1, Zenon DEF EndsAt, read_uleb128
<1>2. CASE EndsAt(f, p) # {}
  <2> DEFINE last == CHOOSE x \in EndsAt(f, p) : \A k \in EndsAt(f, p) : x <= k
  <2>1. \E x \in EndsAt(f, p) : \A k \in EndsAt(f, p) : x <= k
    <3>1. EndsAt(f, p) \subseteq Nat
      BY DEF EndsAt
    <3> QED
      BY <1>2, <3>1, Least
  <2>3. last \in EndsAt(f, p) /\ \A k \in EndsAt(f, p) : last <= k
    BY <2>1, Zenon
  <2>4. read_uleb128(f, p) =
          <<p + last + 1,
            Bits(f, p, last, 0) + 128 * (Bits(f, p, last, 1)
              + 128 * (Bits(f, p, last, 2) + 128 * (Bits(f, p, last, 3)
              + 128 * Bits(f, p, last, 4))))>>
    BY <1>2, Zenon DEF EndsAt, Bits, read_uleb128
  <2> HIDE DEF last
  <2> QED
    BY <2>3, <2>4
<1> QED
  BY <1>1, <1>2

\* A number that is there is read.
LEMMA NumberRead ==
  ASSUME NEW f \in Seq(Nat), NEW w, IsNumber(w), NEW p \in Nat, p >= 1,
         p + Len(w) <= Len(f) + 1, \A j \in 1..Len(w) : f[p + j - 1] = w[j]
  PROVE read_uleb128(f, p) = <<p + Len(w), Value(w)>>
<1>1. PICK n \in 1..5 : n = Len(w)
  BY DEF IsNumber
<1>2. p \in 1..Len(f)
  BY <1>1
<1>3. \A k \in 0..n - 1 : p + k <= Len(f) /\ f[p + k] = w[k + 1]
  <2> TAKE k \in 0..n - 1
  <2>1. PICK j \in 1..n : j = k + 1
    OBVIOUS
  <2>2. p + j - 1 = p + k
    BY <2>1
  <2> QED
    BY <1>1, <2>1, <2>2
<1>4. \A k \in 0..n - 1 : w[k + 1] < 128 <=> k = n - 1
  BY <1>1 DEF IsNumber
<1>a. \A k \in 0..n - 1 : p + k <= Len(f) /\ (f[p + k] < 128 <=> k = n - 1)
  BY <1>3, <1>4
<1>5. n - 1 \in EndsAt(f, p) /\ \A k \in EndsAt(f, p) : n - 1 <= k
  <2>1. n - 1 \in EndsAt(f, p)
    <3>1. n - 1 \in 0..n - 1 /\ n - 1 \in 0..4
      OBVIOUS
    <3> QED
      BY <3>1, <1>a DEF EndsAt
  <2>2. ASSUME NEW k \in EndsAt(f, p), k < n - 1 PROVE FALSE
    <3>1. k \in 0..n - 1 /\ f[p + k] < 128
      BY <2>2 DEF EndsAt
    <3>2. f[p + k] < 128 <=> k = n - 1
      BY <3>1, <1>a
    <3>3. k = n - 1
      BY <3>1, <3>2
    <3> QED
      BY <3>3, <2>2, <3>1
  <2>3. EndsAt(f, p) \subseteq 0..4
    BY DEF EndsAt
  <2> QED
    BY <2>1, <2>2, <2>3
<1>6. PICK last \in EndsAt(f, p) :
        /\ \A k \in EndsAt(f, p) : last <= k
        /\ read_uleb128(f, p) =
             <<p + last + 1,
               Bits(f, p, last, 0) + 128 * (Bits(f, p, last, 1)
                 + 128 * (Bits(f, p, last, 2) + 128 * (Bits(f, p, last, 3)
                 + 128 * Bits(f, p, last, 4))))>>
  <2>1. EndsAt(f, p) # {}
    BY <1>5
  <2> QED
    BY <1>2, <2>1, ReadUleb
<1>7. last = n - 1
  <2>1. last \in 0..4
    BY DEF EndsAt
  <2> QED
    BY <1>5, <1>6, <2>1
<1>8. p + last + 1 = p + Len(w)
  BY <1>1, <1>7
<1>9. ASSUME NEW k \in 0..4 PROVE Bits(f, p, last, k) = BitsOf(w, k + 1)
  <2>1. k > last <=> k + 1 > Len(w)
    BY <1>1, <1>7
  <2>2. ~(k > last) => f[p + k] = w[k + 1]
    BY <1>3, <1>7
  <2>3. Bits(f, p, last, k) = IF k > last THEN 0 ELSE f[p + k] % 128
    BY Zenon DEF Bits
  <2>4. BitsOf(w, k + 1) = IF k + 1 > Len(w) THEN 0 ELSE w[k + 1] % 128
    BY Zenon DEF BitsOf
  <2>5. CASE k > last
    BY <2>1, <2>3, <2>4, <2>5
  <2>6. CASE ~(k > last)
    BY <2>1, <2>2, <2>3, <2>4, <2>6
  <2> QED
    BY <2>5, <2>6
<1>10. /\ Bits(f, p, last, 0) = BitsOf(w, 1) /\ Bits(f, p, last, 1) = BitsOf(w, 2)
       /\ Bits(f, p, last, 2) = BitsOf(w, 3) /\ Bits(f, p, last, 3) = BitsOf(w, 4)
       /\ Bits(f, p, last, 4) = BitsOf(w, 5)
  <2>1. Bits(f, p, last, 0) = BitsOf(w, 0 + 1) /\ Bits(f, p, last, 1) = BitsOf(w, 1 + 1)
        /\ Bits(f, p, last, 2) = BitsOf(w, 2 + 1) /\ Bits(f, p, last, 3) = BitsOf(w, 3 + 1)
        /\ Bits(f, p, last, 4) = BitsOf(w, 4 + 1)
    BY <1>9
  <2>2. 0 + 1 = 1 /\ 1 + 1 = 2 /\ 2 + 1 = 3 /\ 3 + 1 = 4 /\ 4 + 1 = 5
    OBVIOUS
  <2> QED
    BY <2>1, <2>2
<1>11. Value(w) = Bits(f, p, last, 0) + 128 * (Bits(f, p, last, 1)
                    + 128 * (Bits(f, p, last, 2) + 128 * (Bits(f, p, last, 3)
                    + 128 * Bits(f, p, last, 4))))
  BY <1>10, ValueNat, ZenonT(60)
<1> QED
  BY <1>6, <1>8, <1>11, Zenon

\* Numbers reads one number and goes on behind it.
LEMMA NumbersFrom ==
  ASSUME NEW f \in Seq(Nat), f # <<>>
  PROVE \E from :
          /\ Numbers(f) = from[1]
          /\ \A p \in 1..Len(f) :
               from[p] = IF read_uleb128(f, p) = <<>> THEN <<>>
                         ELSE <<read_uleb128(f, p)[2]>>
                                \o IF read_uleb128(f, p)[1] > Len(f) THEN <<>>
                                   ELSE from[read_uleb128(f, p)[1]]
<1>1. PICK n \in Nat : n = Len(f)
  OBVIOUS
<1>2. PICK cut \in SUBSET (1..n) :
        \A p \in 1..n : p \in cut <=> read_uleb128(f, p) = <<>>
  <2>1. {p \in 1..n : read_uleb128(f, p) = <<>>} \in SUBSET (1..n)
    OBVIOUS
  <2>2. \A p \in 1..n : p \in {k \in 1..n : read_uleb128(f, k) = <<>>}
                          <=> read_uleb128(f, p) = <<>>
    OBVIOUS
  <2> QED
    BY <2>1, <2>2
<1>3. \A p \in (1..n) \ cut : read_uleb128(f, p)[1] \in Nat /\ read_uleb128(f, p)[1] > p
  <2> TAKE p \in (1..n) \ cut
  <2>1. PICK last \in EndsAt(f, p) : \E v : read_uleb128(f, p) = <<p + last + 1, v>>
    BY <1>1, <1>2, ReadUleb
  <2>2. last \in 0..4
    BY DEF EndsAt
  <2> QED
    BY <2>1, <2>2
<1>4. PICK next \in [1..n -> Nat] :
        \A p \in (1..n) \ cut : next[p] = read_uleb128(f, p)[1]
  <2> DEFINE next == [p \in 1..n |-> IF p \in cut THEN 0 ELSE read_uleb128(f, p)[1]]
  <2>1. next \in [1..n -> Nat]
    BY <1>3
  <2>2. \A p \in (1..n) \ cut : next[p] = read_uleb128(f, p)[1]
    OBVIOUS
  <2> HIDE DEF next
  <2> QED
    BY <2>1, <2>2
<1>5. \A p \in (1..n) \ cut : next[p] > p
  BY <1>3, <1>4
<1>6. PICK V : \A p \in 1..n : read_uleb128(f, p)[2] \in V
  <2>1. \A p \in 1..n : read_uleb128(f, p)[2] \in {read_uleb128(f, k)[2] : k \in 1..n}
    OBVIOUS
  <2> QED
    BY <2>1
<1>7. PICK step \in [(1..n) \X Seq(V) -> Seq(V)] :
        \A p \in 1..n, s \in Seq(V) : step[<<p, s>>] = <<read_uleb128(f, p)[2]>> \o s
  <2> DEFINE g == [q \in (1..n) \X Seq(V) |-> <<read_uleb128(f, q[1])[2]>> \o q[2]]
  <2>0. ASSUME NEW p \in 1..n, NEW s \in Seq(V)
        PROVE <<read_uleb128(f, p)[2]>> \o s \in Seq(V)
    <3>1. PICK v \in V : v = read_uleb128(f, p)[2]
      BY <1>6
    <3>2. <<v>> \o s \in Seq(V)
      OBVIOUS
    <3> QED
      BY <3>1, <3>2
  <2>1. g \in [(1..n) \X Seq(V) -> Seq(V)]
    BY <2>0
  <2>2. \A p \in 1..n, s \in Seq(V) : g[<<p, s>>] = <<read_uleb128(f, p)[2]>> \o s
    OBVIOUS
  <2> HIDE DEF g
  <2> QED
    BY <2>1, <2>2
<1>8. PICK h \in [1..n -> Seq(V)] : FromTheEnd(h, n, <<>>, cut, next, step)
  <2>1. <<>> \in Seq(V)
    OBVIOUS
  <2> QED
    BY <1>5, <2>1, EndExists
<1> DEFINE Rec(g) == g = [p \in 1..Len(f) |->
                            LET read == read_uleb128(f, p)
                            IN IF read = <<>> THEN <<>>
                               ELSE <<read[2]>> \o IF read[1] > Len(f) THEN <<>>
                                                   ELSE g[read[1]]]
           from == CHOOSE g : Rec(g)
<1>9. \A p \in 1..n :
        h[p] = IF read_uleb128(f, p) = <<>> THEN <<>>
               ELSE <<read_uleb128(f, p)[2]>>
                      \o IF read_uleb128(f, p)[1] > n THEN <<>>
                         ELSE h[read_uleb128(f, p)[1]]
  <2> TAKE p \in 1..n
  <2>1. h[p] = IF p \in cut THEN <<>>
               ELSE step[<<p, IF next[p] > n THEN <<>> ELSE h[next[p]]>>]
    BY <1>8 DEF FromTheEnd
  <2>2. p \notin cut /\ ~(next[p] > n) => next[p] \in 1..n
    BY <1>5
  <2>3. PICK s \in Seq(V) : s = IF p \in cut \/ next[p] > n THEN <<>> ELSE h[next[p]]
    <3>1. <<>> \in Seq(V)
      OBVIOUS
    <3>2. p \notin cut /\ ~(next[p] > n) => h[next[p]] \in Seq(V)
      BY <2>2
    <3> QED
      BY <3>1, <3>2
  <2>4. step[<<p, s>>] = <<read_uleb128(f, p)[2]>> \o s
    BY <1>7
  <2>5. CASE p \in cut
    BY <2>1, <2>5, <1>2
  <2>6. CASE p \notin cut
    <3>1. h[p] = <<read_uleb128(f, p)[2]>> \o s
      BY <2>1, <2>3, <2>4, <2>6
    <3>2. s = IF read_uleb128(f, p)[1] > n THEN <<>> ELSE h[read_uleb128(f, p)[1]]
      BY <2>3, <2>6, <1>4
    <3>3. read_uleb128(f, p) # <<>>
      BY <2>6, <1>2
    <3> QED
      BY <3>1, <3>2, <3>3, Zenon
  <2> QED
    BY <2>5, <2>6
<1>10. Rec(h)
  <2>1. h = [p \in 1..n |-> h[p]]
    OBVIOUS
  <2> QED
    BY <1>1, <1>9, <2>1
<1>11. Rec(from)
  <2> HIDE DEF Rec
  <2> QED
    BY <1>10
<1>12. Numbers(f) = from[1]
  BY Zenon DEF Numbers
<1>13. \A p \in 1..Len(f) :
         from[p] = IF read_uleb128(f, p) = <<>> THEN <<>>
                   ELSE <<read_uleb128(f, p)[2]>>
                          \o IF read_uleb128(f, p)[1] > Len(f) THEN <<>>
                             ELSE from[read_uleb128(f, p)[1]]
  <2> HIDE DEF from
  <2> QED
    BY <1>11
<1> HIDE DEF from
<1> QED
  BY <1>12, <1>13

\* A number in front of a sequence.
LEMMA OneMore ==
  ASSUME NEW v \in Nat, NEW s \in Seq(Nat)
  PROVE /\ <<v>> \o s \in Seq(Nat) /\ Len(<<v>> \o s) = 1 + Len(s)
        /\ (<<v>> \o s)[1] = v
        /\ \A j \in 1..Len(s) : (<<v>> \o s)[1 + j] = s[j]
  OBVIOUS

\* The number at the beginning of a part is read, and the part behind it next.
LEMMA NumberOfPart ==
  ASSUME NEW n, NEW m, NEW len, NEW start, NEW f, Parts(n, m, len, start, f),
         NEW k \in 1..n, IsNumber(m[k])
  PROVE /\ start[k] \in 1..Len(f)
        /\ read_uleb128(f, start[k]) = <<start[k + 1], Value(m[k])>>
        /\ start[k + 1] > Len(f) <=> k = n
<1>p. PartAt(n, m, len, start, f, k)
  BY AtPart, Zenon
<1>2. /\ f \in Seq(Nat) /\ start[k] \in 1..Len(f)
      /\ len[k] \in Nat \ {0} /\ len[k] = Len(m[k])
      /\ start[k + 1] = start[k] + len[k] /\ start[k] + len[k] <= Len(f) + 1
      /\ \A j \in 1..len[k] : f[start[k] + j - 1] = m[k][j]
      /\ (start[k + 1] > Len(f) <=> k = n)
  BY <1>p, Zenon DEF PartAt
<1>3. PICK w, p : w = m[k] /\ p = start[k]
  OBVIOUS
<1>4. /\ f \in Seq(Nat) /\ IsNumber(w) /\ p \in Nat /\ p >= 1
      /\ p + Len(w) <= Len(f) + 1 /\ \A j \in 1..Len(w) : f[p + j - 1] = w[j]
      /\ p + Len(w) = start[k + 1]
  BY <1>2, <1>3
<1>5. read_uleb128(f, p) = <<p + Len(w), Value(w)>>
  BY <1>4, NumberRead
<1>6. read_uleb128(f, start[k]) = <<start[k + 1], Value(m[k])>>
  BY <1>3, <1>4, <1>5
<1> QED
  BY <1>2, <1>6

\* The values of the numbers from the k-th to the n-th.
ValuesFrom(s, n, m, k) ==
  /\ s \in Seq(Nat) /\ Len(s) = n - k + 1
  /\ \A j \in k..n : s[j - k + 1] = Value(m[j])

\* What Numbers reads is what was written.
LEMMA NumbersRead ==
  ASSUME NEW n \in Nat \ {0}, NEW m \in [1..n -> Seq(Nat)],
         \A k \in 1..n : IsNumber(m[k])
  PROVE /\ FlattenSeq(m) # <<>>
        /\ Numbers(FlattenSeq(m)) = [k \in 1..n |-> Value(m[k])]
<1>1. PICK f : f = FlattenSeq(m)
  OBVIOUS
<1>2. \A k \in 1..n : m[k] # <<>>
  <2> TAKE k \in 1..n
  <2>1. PICK w : w = m[k]
    OBVIOUS
  <2>2. w \in Seq(Nat) /\ Len(w) \in 1..5
    BY <2>1 DEF IsNumber
  <2>3. PICK l \in 1..5 : l = Len(w)
    BY <2>2
  <2>4. l # 0 /\ Len(<<>>) = 0
    OBVIOUS
  <2> QED
    BY <2>1, <2>3, <2>4
<1>3. PICK len, start : Parts(n, m, len, start, f)
  BY <1>1, <1>2, PartsExist
<1>4. f \in Seq(Nat) /\ f # <<>> /\ start[1] = 1
  <2>1. 1 \in 1..n
    OBVIOUS
  <2>2. f \in Seq(Nat) /\ start[1] \in 1..Len(f)
    <3>1. PartAt(n, m, len, start, f, 1)
      BY <1>3, <2>1, AtPart, Zenon
    <3> QED
      BY <3>1, Zenon DEF PartAt
  <2>3. start[1] = 1
    BY <1>3 DEF Parts, Begins
  <2> QED
    BY <2>2, <2>3
<1>5. PICK from :
        /\ Numbers(f) = from[1]
        /\ \A p \in 1..Len(f) :
             from[p] = IF read_uleb128(f, p) = <<>> THEN <<>>
                       ELSE <<read_uleb128(f, p)[2]>>
                              \o IF read_uleb128(f, p)[1] > Len(f) THEN <<>>
                                 ELSE from[read_uleb128(f, p)[1]]
  BY <1>4, NumbersFrom
<1>6. ASSUME NEW k \in 1..n
      PROVE from[start[k]] = <<Value(m[k])>> \o IF k = n THEN <<>> ELSE from[start[k + 1]]
  <2>1. /\ start[k] \in 1..Len(f)
        /\ read_uleb128(f, start[k]) = <<start[k + 1], Value(m[k])>>
        /\ start[k + 1] > Len(f) <=> k = n
    BY <1>3, NumberOfPart
  <2>2. PICK p, v, next : p = start[k] /\ v = Value(m[k]) /\ next = start[k + 1]
    OBVIOUS
  <2>3. read_uleb128(f, p) = <<next, v>> /\ p \in 1..Len(f)
    BY <2>1, <2>2
  <2>4. read_uleb128(f, p) # <<>> /\ read_uleb128(f, p)[1] = next /\ read_uleb128(f, p)[2] = v
    BY <2>3
  <2>5. from[p] = <<v>> \o IF next > Len(f) THEN <<>> ELSE from[next]
    BY <1>5, <2>3, <2>4, Zenon
  <2> QED
    BY <2>1, <2>2, <2>5, Zenon
<1> DEFINE T == {d \in 0..n - 1 : ValuesFrom(from[start[n - d]], n, m, n - d)}
<1>7. ASSUME NEW k \in 1..n, NEW s,
             s = IF k = n THEN <<>> ELSE from[start[k + 1]],
             k = n \/ ValuesFrom(s, n, m, k + 1)
      PROVE ValuesFrom(from[start[k]], n, m, k)
  <2>1. PICK v \in Nat : v = Value(m[k])
    BY ValueNat
  <2>2. s \in Seq(Nat) /\ Len(s) = n - k
    <3>1. CASE k = n
      <4>1. s = <<>>
        BY <1>7, <3>1
      <4>2. <<>> \in Seq(Nat) /\ Len(<<>>) = 0
        OBVIOUS
      <4> QED
        BY <3>1, <4>1, <4>2
    <3>2. CASE k # n
      BY <1>7, <3>2 DEF ValuesFrom
    <3> QED
      BY <3>1, <3>2
  <2>3. PICK t : t = <<v>> \o s /\ t = from[start[k]]
    BY <1>6, <1>7, <2>1
  <2>4. /\ t \in Seq(Nat) /\ Len(t) = 1 + Len(s) /\ t[1] = v
        /\ \A j \in 1..Len(s) : t[1 + j] = s[j]
    <3>1. /\ <<v>> \o s \in Seq(Nat) /\ Len(<<v>> \o s) = 1 + Len(s)
          /\ (<<v>> \o s)[1] = v
          /\ \A j \in 1..Len(s) : (<<v>> \o s)[1 + j] = s[j]
      BY <2>2, OneMore, Zenon
    <3>2. t = <<v>> \o s
      BY <2>3
    <3> QED
      BY <3>1, <3>2, Zenon
  <2>5. ASSUME NEW j \in k..n PROVE t[j - k + 1] = Value(m[j])
    <3>1. CASE j = k
      <4>1. j - k + 1 = 1
        BY <3>1
      <4> QED
        BY <3>1, <4>1, <2>1, <2>4
    <3>2. CASE j # k
      <4>1. k # n /\ j \in k + 1..n /\ j - k \in 1..Len(s) /\ j - k + 1 = 1 + (j - k)
            /\ j - (k + 1) + 1 = j - k
        BY <3>2, <2>2
      <4>2. s[j - (k + 1) + 1] = Value(m[j])
        BY <1>7, <4>1 DEF ValuesFrom
      <4>3. t[1 + (j - k)] = s[j - k]
        BY <2>4, <4>1
      <4> QED
        BY <4>1, <4>2, <4>3
    <3> QED
      BY <3>1, <3>2
  <2>6. Len(t) = n - k + 1
    BY <2>2, <2>4
  <2> QED
    BY <2>3, <2>4, <2>5, <2>6 DEF ValuesFrom
<1>8. 0 \in T
  <2>1. n \in 1..n /\ n - 0 = n /\ 0 \in 0..n - 1
    OBVIOUS
  <2>2. ValuesFrom(from[start[n]], n, m, n)
    BY <2>1, <1>7
  <2> QED
    BY <2>1, <2>2
<1>9. ASSUME NEW d \in 1..n - 1, d - 1 \in T PROVE d \in T
  <2>1. PICK k \in 1..n : k = n - d /\ k # n
    OBVIOUS
  <2>2. n - (d - 1) = k + 1
    BY <2>1
  <2>3. ValuesFrom(from[start[k + 1]], n, m, k + 1)
    BY <1>9, <2>2
  <2>4. ValuesFrom(from[start[k]], n, m, k)
    BY <1>7, <2>1, <2>3
  <2>5. d \in 0..n - 1
    OBVIOUS
  <2> QED
    BY <2>1, <2>4, <2>5
<1>10. ValuesFrom(from[start[1]], n, m, 1)
  <2>1. n - 1 \in Nat /\ n - 1 \in 0..n - 1 /\ n - (n - 1) = 1
    OBVIOUS
  <2> HIDE DEF T
  <2>2. n - 1 \in T
    BY <2>1, <1>8, <1>9, Counting
  <2> USE DEF T
  <2> QED
    BY <2>1, <2>2
<1>11. PICK s : s = from[1]
  OBVIOUS
<1>12. s \in Seq(Nat) /\ Len(s) = n /\ \A j \in 1..n : s[j] = Value(m[j])
  <2>1. ValuesFrom(s, n, m, 1)
    BY <1>4, <1>10, <1>11
  <2>2. s \in Seq(Nat) /\ Len(s) = n - 1 + 1
    BY <2>1 DEF ValuesFrom
  <2>3. \A j \in 1..n : s[j - 1 + 1] = Value(m[j]) /\ j - 1 + 1 = j
    BY <2>1 DEF ValuesFrom
  <2> QED
    BY <2>2, <2>3
<1>13. s = [j \in 1..n |-> s[j]]
  BY <1>12
<1>14. s = [j \in 1..n |-> Value(m[j])]
  BY <1>12, <1>13
<1> QED
  BY <1>1, <1>4, <1>5, <1>11, <1>14

\* Three numbers for every method are as many methods.
LEMMA Thirds ==
  ASSUME NEW c \in Nat, NEW n, NEW first \in Nat, n = first + 3 * c
  PROVE (n - first) \div 3 = c
<1>1. n - first = 3 * c
  OBVIOUS
<1> QED
  BY <1>1

\* The code offsets read from a class are those it was written with.
LEMMA OffsetsRead ==
  ASSUME NEW class, IsClass(class), class # <<>>
  PROVE /\ FlattenSeq(class) # <<>>
        /\ CodeOffsets(Numbers(FlattenSeq(class))) = Offsets(class)
<1>1. PICK n \in Nat \ {0} : n = Len(class)
  BY DEF IsClass
<1>2. class \in [1..n -> Seq(Nat)] /\ DOMAIN class = 1..n
  BY <1>1 DEF IsClass
<1>3. \A k \in 1..n : IsNumber(class[k])
  BY <1>2 DEF IsClass
<1>4. PICK v : v = [k \in 1..n |-> Value(class[k])]
  OBVIOUS
<1>5. FlattenSeq(class) # <<>> /\ Numbers(FlattenSeq(class)) = v
  BY <1>2, <1>3, <1>4, NumbersRead
<1>6. \A k \in 1..n : Value(class[k]) \in Nat
  BY <1>3, ValueNat
<1>7. n >= 4 /\ n = 4 + 2 * (Value(class[1]) + Value(class[2]))
                      + 3 * (Value(class[3]) + Value(class[4]))
  BY <1>1 DEF IsClass
<1>8. PICK a \in Nat, b \in Nat, c \in Nat, d \in Nat :
        /\ a = Value(class[1]) /\ b = Value(class[2])
        /\ c = Value(class[3]) /\ d = Value(class[4])
  <2>1. 1 \in 1..n /\ 2 \in 1..n /\ 3 \in 1..n /\ 4 \in 1..n
    BY <1>7
  <2> QED
    BY <2>1, <1>6
<1>9. v[1] = a /\ v[2] = b /\ v[3] = c /\ v[4] = d
  <2>1. 1 \in 1..n /\ 2 \in 1..n /\ 3 \in 1..n /\ 4 \in 1..n
    BY <1>7
  <2> QED
    BY <2>1, <1>4, <1>8
<1>10. v \in Seq(Nat) /\ Len(v) = n
  BY <1>4, <1>6
<1>11. PICK first \in Nat, methods \in Nat :
         first = 4 + 2 * (a + b) /\ methods = c + d
  OBVIOUS
<1>12. MethodsAt(v) = first /\ v[3] + v[4] = methods
  BY <1>9, <1>11 DEF MethodsAt
<1>13. n = first + 3 * methods /\ n >= first
  <2>1. n = 4 + 2 * (a + b) + 3 * (c + d)
    BY <1>7, <1>8, Zenon
  <2>2. n = first + 3 * methods
    BY <2>1, <1>11
  <2> QED
    BY <2>2
<1>14. (Len(v) - first) \div 3 = methods
  BY <1>10, <1>13, Thirds
<1>15. CodeOffsets(v) = [m \in 1..methods |-> v[first + 3 * m]]
  <2>1. ~(Len(v) < 4) /\ ~(Len(v) < first) /\ ~(methods < methods)
    BY <1>7, <1>10, <1>13
  <2> QED
    BY <1>12, <1>14, <2>1, Zenon DEF CodeOffsets
<1>16. Offsets(class) = [m \in 1..methods |-> Value(class[first + 3 * m])]
  BY <1>8, <1>11, Zenon DEF Offsets
<1>17. ASSUME NEW m \in 1..methods
       PROVE v[first + 3 * m] = Value(class[first + 3 * m])
  <2>1. PICK k \in 1..n : k = first + 3 * m
    BY <1>11, <1>13
  <2> QED
    BY <2>1, <1>4
<1>18. CodeOffsets(v) = Offsets(class)
  BY <1>15, <1>16, <1>17
<1> QED
  BY <1>5, <1>18

\* The indices of a list of code offsets count from 1.
LEMMA OffsetsCount ==
  ASSUME NEW numbers, NEW k \in DOMAIN CodeOffsets(numbers)
  PROVE k \in 1..k
<1>1. CASE Len(numbers) < 4 \/ Len(numbers) < MethodsAt(numbers)
  <2>1. CodeOffsets(numbers) = <<>>
    BY <1>1, Zenon DEF CodeOffsets
  <2> QED
    BY <2>1
<1>2. CASE ~(Len(numbers) < 4 \/ Len(numbers) < MethodsAt(numbers))
  <2>1. PICK x : DOMAIN CodeOffsets(numbers) = 1..x
    BY <1>2, Zenon DEF CodeOffsets
  <2>2. k \in Int /\ 1 <= k
    BY <2>1
  <2> QED
    BY <2>2
<1> QED
  BY <1>1, <1>2

\* Of a class, only methods in the file are walked.
LEMMA WalkedWithin ==
  ASSUME NEW body, NEW numbers
  PROVE Walked(body, CodeOffsets(numbers)) \subseteq DOMAIN body.code
<1> DEFINE offsets == CodeOffsets(numbers)
<1>1. SUFFICES ASSUME NEW o \in Walked(body, offsets)
               PROVE o \in DOMAIN body.code
  OBVIOUS
<1>2. PICK k \in DOMAIN offsets :
        /\ o = offsets[k] /\ offsets[k] # 0
        /\ \A j \in 1..k : offsets[j] = 0 \/ offsets[j] \in DOMAIN body.code
  BY <1>1, Zenon DEF Walked
<1>3. k \in 1..k
  BY OffsetsCount
<1> QED
  BY <1>2, <1>3, Zenon

\* The walk finds the methods of an app, all of them and no others.
LEMMA WalkFindsMethods ==
  ASSUME NEW a, NEW body,
         \A o \in DOMAIN a.methods : o # 0 /\ IsReached(o, a),
         \A c \in DOMAIN a.classes : IsClass(a.classes[c]),
         body.classes = [c \in DOMAIN a.classes |-> FlattenSeq(a.classes[c])],
         body.code = [o \in DOMAIN a.methods |-> FlattenSeq(a.methods[o])]
  PROVE walk_code_items(body) = DOMAIN a.methods
<1>1. DOMAIN body.classes = DOMAIN a.classes /\ DOMAIN body.code = DOMAIN a.methods
  OBVIOUS
<1>2. walk_code_items(body) \subseteq DOMAIN a.methods
  <2> SUFFICES ASSUME NEW o \in walk_code_items(body) PROVE o \in DOMAIN a.methods
    OBVIOUS
  <2>1. PICK c \in DOMAIN body.classes :
          o \in Walked(body, CodeOffsets(Numbers(body.classes[c])))
    BY Zenon DEF walk_code_items
  <2>2. o \in DOMAIN body.code
    BY <2>1, WalkedWithin, Zenon
  <2> QED
    BY <1>1, <2>2
<1>3. ASSUME NEW o \in DOMAIN a.methods PROVE o \in walk_code_items(body)
  <2>1. PICK c \in DOMAIN a.classes :
          /\ a.classes[c] # <<>>
          /\ \E m \in DOMAIN Offsets(a.classes[c]) :
               /\ Offsets(a.classes[c])[m] = o
               /\ \A j \in 1..m : Offsets(a.classes[c])[j] \in {0} \cup DOMAIN a.methods
    BY Zenon DEF IsReached
  <2>2. PICK class, offsets : class = a.classes[c] /\ offsets = Offsets(class)
    OBVIOUS
  <2>3. PICK m \in DOMAIN offsets :
          /\ offsets[m] = o
          /\ \A j \in 1..m : offsets[j] \in {0} \cup DOMAIN a.methods
    BY <2>1, <2>2, Zenon
  <2>4. body.classes[c] = FlattenSeq(class)
    BY <2>2
  <2>5. FlattenSeq(class) # <<>> /\ CodeOffsets(Numbers(FlattenSeq(class))) = offsets
    BY <2>1, <2>2, OffsetsRead, Zenon
  <2>6. o \in Walked(body, offsets)
    <3>1. \A j \in 1..m : offsets[j] = 0 \/ offsets[j] \in DOMAIN body.code
      BY <1>1, <2>3
    <3>2. offsets[m] # 0
      BY <2>3
    <3> QED
      BY <2>3, <3>1, <3>2, Zenon DEF Walked
  <2>7. c \in DOMAIN body.classes /\ body.classes[c] # <<>>
        /\ o \in Walked(body, CodeOffsets(Numbers(body.classes[c])))
    BY <1>1, <2>4, <2>5, <2>6
  <2> QED
    BY <2>7, Zenon DEF walk_code_items
<1> QED
  BY <1>2, <1>3

-----------------------------------------------------------------------------
(* What becomes of an app                                                  *)

\* What becomes of a dex that is compiled from these methods.
CompiledFrom(body, methods, field) ==
  /\ DOMAIN body = {"strings", "types", "fields", "classes", "code"}
  /\ HasField(body, field)
  /\ walk_code_items(body) = DOMAIN methods
  /\ body.code = [o \in DOMAIN methods |-> FlattenSeq(methods[o])]

Compiled(methods) ==
  \A o \in DOMAIN methods :
    /\ methods[o] \in Seq(Seq(Nat)) /\ methods[o] # <<>>
    /\ \A k \in DOMAIN methods[o] : Instruction(methods[o][k])

\* The patcher rewrites each method, or returns what needs no rewriting.
LEMMA Patched ==
  ASSUME NEW dex, DOMAIN dex = {"valid", "body", "sha", "adler"},
         NEW methods, NEW field \in Nat \cup {NotFound},
         CompiledFrom(dex.body, methods, field),
         NEW d, d = patch_dex(dex), d # Failed, NEW o \in DOMAIN methods
  PROVE \/ d.body.code[o] = Rewritten(FlattenSeq(methods[o]), field)
        \/ /\ field = NotFound \/ Reads(FlattenSeq(methods[o]), field) = {}
           /\ d.body.code[o] = FlattenSeq(methods[o])
<1>1. PICK body : body = dex.body
  OBVIOUS
<1>2. /\ DOMAIN body = {"strings", "types", "fields", "classes", "code"}
      /\ HasField(body, field) /\ walk_code_items(body) = DOMAIN methods
      /\ body.code = [i \in DOMAIN methods |-> FlattenSeq(methods[i])]
  BY <1>1, Zenon DEF CompiledFrom
<1>3. SdkIntField(body) = field
  BY <1>2, FieldFound, Zenon
<1>4. PICK clamped :
        clamped = [body EXCEPT !.code =
                     [i \in DOMAIN @ |->
                        IF i \in walk_code_items(body)
                        THEN Rewritten(@[i], SdkIntField(body)) ELSE @[i]]]
  OBVIOUS
<1>5. /\ body.code[o] = FlattenSeq(methods[o])
      /\ DOMAIN body.code = DOMAIN methods
  BY <1>2
<1>6. clamped.code[o] = Rewritten(FlattenSeq(methods[o]), field)
  <2>1. PICK code : code = [i \in DOMAIN body.code |->
                              IF i \in walk_code_items(body)
                              THEN Rewritten(body.code[i], SdkIntField(body))
                              ELSE body.code[i]]
    OBVIOUS
  <2>2. code[o] = Rewritten(FlattenSeq(methods[o]), field)
    <3>1. o \in DOMAIN body.code /\ o \in walk_code_items(body)
      BY <1>2, <1>5, Zenon
    <3>2. code[o] = Rewritten(body.code[o], SdkIntField(body))
      BY <2>1, <3>1, Zenon
    <3> QED
      BY <3>2, <1>3, <1>5, Zenon
  <2>3. clamped = [body EXCEPT !.code = code]
    BY <1>4, <2>1, Zenon
  <2>4. clamped.code = code
    <3>1. "code" \in DOMAIN body
      BY <1>2
    <3> QED
      BY <2>3, <3>1
  <2> QED
    BY <2>2, <2>4
<1>7. \/ /\ SdkIntField(body) = NotFound
            \/ \A i \in walk_code_items(body) :
                 Reads(body.code[i], SdkIntField(body)) = {}
         /\ d = dex
      \/ d = recompute_header_checksums([dex EXCEPT !.body = clamped])
  BY <1>1, <1>4, Zenon DEF patch_dex
<1>8. CASE /\ SdkIntField(body) = NotFound
              \/ \A i \in walk_code_items(body) :
                   Reads(body.code[i], SdkIntField(body)) = {}
           /\ d = dex
  <2>1. o \in walk_code_items(body)
    BY <1>2, Zenon
  <2>2. field = NotFound \/ Reads(FlattenSeq(methods[o]), field) = {}
    BY <2>1, <1>3, <1>5, <1>8, Zenon
  <2>3. d.body.code[o] = FlattenSeq(methods[o])
    BY <1>1, <1>5, <1>8, Zenon
  <2> QED
    BY <2>2, <2>3
<1>9. CASE d = recompute_header_checksums([dex EXCEPT !.body = clamped])
  <2>1. PICK e : e = [dex EXCEPT !.body = clamped]
    OBVIOUS
  <2>2. DOMAIN e = DOMAIN dex /\ e.body = clamped
    BY <2>1
  <2>3. d = [e EXCEPT !.sha = e.body, !.adler = [sha |-> e.body, body |-> e.body]]
    BY <1>9, <2>1, Zenon DEF recompute_header_checksums
  <2>4. d.body = clamped
    BY <2>2, <2>3
  <2> QED
    BY <2>4, <1>6
<1> QED
  BY <1>7, <1>8, <1>9

\* Every method comes out with its instructions replaced.
LEMMA PatchedClamped ==
  ASSUME NEW dex, DOMAIN dex = {"valid", "body", "sha", "adler"},
         NEW methods, NEW field \in Nat \cup {NotFound}, Compiled(methods),
         CompiledFrom(dex.body, methods, field),
         NEW d, d = patch_dex(dex), d # Failed, NEW o \in DOMAIN methods
  PROVE d.body.code[o]
          = FlattenSeq([k \in DOMAIN methods[o] |-> Replaced(methods[o][k], field)])
<1>1. PICK m : m = methods[o]
  OBVIOUS
<1>2. m \in Seq(Seq(Nat)) /\ m # <<>> /\ \A k \in DOMAIN m : Instruction(m[k])
  BY <1>1, Zenon DEF Compiled
<1>3. PICK n \in Nat \ {0} : n = Len(m) /\ DOMAIN m = 1..n
  BY <1>2
<1>4. m \in [1..n -> Seq(Nat)]
  BY <1>2, <1>3
<1>5. Rewritten(FlattenSeq(m), field)
        = FlattenSeq([k \in 1..n |-> Replaced(m[k], field)])
  BY <1>2, <1>3, <1>4, MethodRewritten, Zenon
<1>6. \/ d.body.code[o] = Rewritten(FlattenSeq(m), field)
      \/ /\ field = NotFound \/ Reads(FlattenSeq(m), field) = {}
         /\ d.body.code[o] = FlattenSeq(m)
  BY <1>1, Patched
<1>7. ASSUME field = NotFound \/ Reads(FlattenSeq(m), field) = {}
      PROVE Rewritten(FlattenSeq(m), field) = FlattenSeq(m)
  BY <1>2, <1>3, <1>4, <1>7, MethodKept, Zenon
<1> QED
  BY <1>1, <1>3, <1>5, <1>6, <1>7, Zenon

\* What process_apk returns of a compiled app is clamped.
LEMMA ProductClamped ==
  ASSUME NEW a, IsApp(a), IsCompiled(a), NEW p, p = process_apk(a), p # NotAZip,
         NEW k \in DOMAIN p.entries
  PROVE /\ p.entries[k].kind # "signature"
        /\ p.entries[k].kind = "dex" =>
             \A o \in DOMAIN a.methods :
               p.entries[k].data.body.code[o]
                 = FlattenSeq([i \in DOMAIN a.methods[o] |->
                                 Replaced(a.methods[o][i], a.field)])
<1>1. p.entries[k] \in Kept(a.entries) /\ p.entries[k].data # Failed
  <2>1. p.entries \in Seq(Kept(a.entries)) /\ p.entries[k].data # Failed
    BY Products
  <2> QED
    BY <2>1
<1>2. PICK j \in 1..Len(a.entries) :
        p.entries[k] = Written(a.entries[j]) /\ a.entries[j].kind # "signature"
  BY <1>1 DEF Kept
<1>3. PICK e, w : e = a.entries[j] /\ w = p.entries[k] /\ w = Written(e)
  BY <1>2
<1>4. {"kind", "data"} \subseteq DOMAIN e /\ e.kind # "signature"
  BY <1>2, <1>3 DEF IsApp
<1>5. w.kind = e.kind /\ (e.kind = "dex" => w.data = patch_dex(e.data))
  BY <1>3, <1>4 DEF Written
<1>6. ASSUME w.kind = "dex", NEW o \in DOMAIN a.methods
      PROVE w.data.body.code[o]
              = FlattenSeq([i \in DOMAIN a.methods[o] |->
                              Replaced(a.methods[o][i], a.field)])
  <2>1. PICK dex, d : dex = e.data /\ d = w.data /\ d = patch_dex(dex) /\ d # Failed
    BY <1>1, <1>3, <1>5, <1>6
  <2>2. dex.valid
    BY <2>1, Zenon DEF patch_dex
  <2>3. DOMAIN dex = {"valid", "body", "sha", "adler"}
    BY <1>3, <1>5, <1>6, <2>1, Zenon DEF IsApp
  <2>4. a.entries[j].kind = "dex" /\ a.entries[j].data = dex
    BY <1>3, <1>5, <1>6, <2>1
  <2>5. CompiledFrom(dex.body, a.methods, a.field)
    <3>1. PICK body : body = dex.body
      OBVIOUS
    <3>2. /\ DOMAIN body = {"strings", "types", "fields", "classes", "code"}
          /\ HasField(body, a.field)
          /\ body.classes = [c \in DOMAIN a.classes |-> FlattenSeq(a.classes[c])]
          /\ body.code = [m \in DOMAIN a.methods |-> FlattenSeq(a.methods[m])]
      BY <2>2, <2>4, <3>1, Zenon DEF IsCompiled
    <3>3. /\ \A m \in DOMAIN a.methods : m # 0 /\ IsReached(m, a)
          /\ \A c \in DOMAIN a.classes : IsClass(a.classes[c])
      BY Zenon DEF IsCompiled
    <3>4. walk_code_items(body) = DOMAIN a.methods
      BY <3>2, <3>3, WalkFindsMethods, Zenon
    <3> QED
      BY <3>1, <3>2, <3>4, Zenon DEF CompiledFrom
  <2>6. Compiled(a.methods) /\ a.field \in Nat \cup {NotFound}
    BY Zenon DEF IsCompiled, Compiled
  <2>7. d.body.code[o]
          = FlattenSeq([i \in DOMAIN a.methods[o] |->
                          Replaced(a.methods[o][i], a.field)])
    <3>1. PICK methods, field : methods = a.methods /\ field = a.field
      OBVIOUS
    <3>2. /\ CompiledFrom(dex.body, methods, field) /\ Compiled(methods)
          /\ field \in Nat \cup {NotFound} /\ o \in DOMAIN methods
      BY <2>5, <2>6, <3>1, Zenon
    <3>3. d = patch_dex(dex) /\ d # Failed
      BY <2>1
    <3>4. d.body.code[o]
            = FlattenSeq([i \in DOMAIN methods[o] |-> Replaced(methods[o][i], field)])
      BY <2>3, <3>2, <3>3, PatchedClamped
    <3> QED
      BY <3>1, <3>4, Zenon
  <2> QED
    BY <2>1, <2>7, Zenon
<1> QED
  BY <1>3, <1>4, <1>5, <1>6, Zenon

\* For every app with compiled classes, whatever its methods and the tables in
\* them: what is installed has no signing artefact of the old archive, and in
\* its methods every read of SDK_INT is replaced and no other unit changed
\* (repack_and_patch, rewrite_sget_in_insns).
THEOREM InstalledIsPatched == Spec => []InstalledIsClamped
<1>1. ProductInv /\ DaemonInv => InstalledIsClamped
  <2> SUFFICES ASSUME ProductInv, DaemonInv, daemon.at = "remove"
               PROVE /\ \A k \in DOMAIN product.entries :
                          product.entries[k].kind # "signature"
                     /\ \A dex \in Dexes : \A o \in DOMAIN app.methods :
                          dex.body.code[o]
                            = FlattenSeq([k \in DOMAIN app.methods[o] |->
                                            Clamped(app.methods[o][k])])
    BY Zenon DEF InstalledIsClamped
  <2>1. product # NotAZip
    BY DEF DaemonInv, TypeOK
  <2>2. IsApp(app) /\ IsCompiled(app) /\ product = process_apk(app)
    BY AppsAssumption, CompiledAssumption DEF ProductInv
  <2>3. \A w : Replaced(w, app.field) = Clamped(w)
    BY Zenon DEF Replaced, ReadsField, Clamped
  <2>4. \A k \in DOMAIN product.entries :
          /\ product.entries[k].kind # "signature"
          /\ product.entries[k].kind = "dex" =>
               \A o \in DOMAIN app.methods :
                 product.entries[k].data.body.code[o]
                   = FlattenSeq([i \in DOMAIN app.methods[o] |->
                                   Replaced(app.methods[o][i], app.field)])
    BY <2>1, <2>2, ProductClamped, ZenonT(60)
  <2>5. ASSUME NEW dex \in Dexes, NEW o \in DOMAIN app.methods
        PROVE dex.body.code[o] = FlattenSeq([i \in DOMAIN app.methods[o] |->
                                               Clamped(app.methods[o][i])])
    <3>1. PICK k \in DOMAIN product.entries :
            product.entries[k].kind = "dex" /\ dex = product.entries[k].data
      BY Zenon DEF Dexes
    <3>2. dex.body.code[o] = FlattenSeq([i \in DOMAIN app.methods[o] |->
                                           Replaced(app.methods[o][i], app.field)])
      BY <3>1, <2>4, Zenon
    <3> QED
      BY <3>2, <2>3
  <2> QED
    BY <2>4, <2>5
<1> QED
  BY DaemonInit, DaemonStep, AppStays, <1>1, PTL DEF Spec

==============================================================================
