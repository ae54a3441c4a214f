--------------------------- MODULE DeliveryProofs ---------------------------
(***************************************************************************)
(* Proofs about what is delivered: the programs that send values to the    *)
(* server, the agent with its log files (LogFiles) and its buffer          *)
(* (AgentBuffer) and the proxy with its table proxy_history (ProxyUpload), *)
(* the escalator, which tells of problems (Escalator), and the alerter,    *)
(* which hands alerts to their media (Alerter).  They hold for every size  *)
(* of the buffer, of a message and of the log, any number of files, lines, *)
(* processes, events, alerts, faults and restarts.                         *)
(*                                                                         *)
(* No property is inductive.  The position or history_lastid that a        *)
(* restart goes back to has to be safe as well as the one in use, and so   *)
(* has what is on its way: elements of the buffer, rows of a message.  The *)
(* attempts of the alerter are as many as the retries noted, and one more  *)
(* while a result is not noted yet, and the rows it read are still what    *)
(* the table says.  For the escalator a row has to agree with what was     *)
(* told of its problem, and what is left of a scan with the table.  The    *)
(* position and mtime kept for a log point at one file, the first that is  *)
(* not older (Points), and the list of the directory still shows the files *)
(* as they are, but for the growth of the newest and the loss of the       *)
(* oldest (ListTrue).                                                      *)
(***************************************************************************)
EXTENDS AgentBuffer, ProxyUpload, Escalator, Alerter, LogFiles, WellFoundedInduction, FiniteSetTheorems, SequenceTheorems, TLAPS

-----------------------------------------------------------------------------
(* Log files *)

File  == [before : Nat, lines : Nat, mtime : Nat]
Entry == [name : Nat, mtime : Nat]      \* of lfList

\* A position and an mtime belong to line number `line' and are found again.
PointsAt(f, pos, mtime, line) ==
    /\ lfFiles[f].mtime >= mtime
    /\ \A e \in 1 .. f - 1 : lfFiles[e].mtime < mtime
    /\ pos <= lfFiles[f].lines
    /\ line = lfFiles[f].before + pos

Points(pos, mtime, line) ==
    \E f \in lfGone + 1 .. Len(lfFiles) : PointsAt(f, pos, mtime, line)

LogTypes ==
    /\ lfFiles \in Seq(File) /\ lfFiles # <<>>
    /\ lfGone \in 0 .. Len(lfFiles) - 1
    /\ {lfNow, lfPos, lfMtime, lfLast} \subseteq Nat
    /\ lfSkip \in BOOLEAN /\ lfRead \in [pos : Nat, mtime : Nat]
    /\ lfList \in Seq(Entry)

\* A second lies between two files, and each goes on where the one before ended.
FilesInOrder ==
    /\ \A k \in DOMAIN lfFiles : lfFiles[k].mtime <= lfNow
    /\ \A j \in DOMAIN lfFiles, k \in DOMAIN lfFiles : j < k => lfFiles[j].mtime < lfFiles[k].mtime
    /\ \A k \in 1 .. Len(lfFiles) - 1 : lfFiles[k + 1].before = lfFiles[k].before + lfFiles[k].lines

\* The list is that of the files from number from + 1 on.
Shows(from) ==
    /\ Len(lfList) = Len(lfFiles) - from
    /\ \A k \in DOMAIN lfList :
          /\ lfList[k].name = Len(lfFiles) - from - k
          /\ lfList[k].mtime <= lfFiles[from + k].mtime
          /\ k < Len(lfList) => lfList[k].mtime = lfFiles[from + k].mtime
    /\ \A j \in DOMAIN lfList, k \in DOMAIN lfList : j < k => lfList[j].mtime < lfList[k].mtime

ListTrue == lfList # <<>> => \E from \in 0 .. lfGone : Shows(from)

PositionsTrue ==
    /\ lfSkip => lfLast = 0 /\ lfRead.pos = 0
    /\ ~ lfSkip => Points(lfPos, lfMtime, lfLast)
    /\ lfRead.pos > 0 => Points(lfRead.pos, lfRead.mtime, lfLast)

LogInv == LogTypes /\ FilesInOrder /\ ListTrue /\ PositionsTrue /\ LinesInOrder

-----------------------------------------------------------------------------
(* Sets of numbers *)

\* A nonempty set of natural numbers has a least one: Min finds it.
LEMMA LeastNatural ==
  ASSUME NEW S, S \subseteq Nat, S # {}
  PROVE  Min(S) \in S /\ \A m \in S : Min(S) <= m
<1>1. \E R : IsWellFoundedOn(R, Nat) /\ \A i \in Nat, j \in Nat : <<i, j>> \in R <=> i < j
  <2> DEFINE R == OpToRel(<, Nat)
  <2>1. IsWellFoundedOn(R, Nat)
    BY NatLessThanWellFounded
  <2>2. \A i \in Nat, j \in Nat : <<i, j>> \in R <=> i < j
    BY DEF OpToRel
  <2> QED
    BY <2>1, <2>2
<1>2. PICK R : IsWellFoundedOn(R, Nat) /\ \A i \in Nat, j \in Nat : <<i, j>> \in R <=> i < j
  BY <1>1
<1>3. IsWellFoundedOn(R, Nat)
  BY <1>2
<1>4. PICK n \in S : \A m \in S : ~ (<<m, n>> \in R)
  BY <1>3, WFMin
<1>5. ASSUME NEW m \in S
      PROVE  n <= m
  <2>1. m \in Nat /\ n \in Nat /\ <<m, n>> \notin R
    BY <1>4
  <2>2. <<m, n>> \in R <=> m < n
    BY <2>1, <1>2
  <2> QED
    BY <2>1, <2>2
<1> QED
  BY <1>5 DEF Min

\* A nonempty bounded one has a greatest: Max finds it.
LEMMA GreatestNatural ==
  ASSUME NEW S, NEW b \in Nat, S \subseteq 0 .. b, S # {}
  PROVE  Max(S) \in S /\ \A m \in S : m <= Max(S)
<1> DEFINE T == {b - m : m \in S}
<1>1. T \subseteq Nat /\ T # {}
  <2>1. \A m \in S : b - m \in Nat
    OBVIOUS
  <2> QED
    BY <2>1
<1>2. PICK t \in T : \A u \in T : t <= u
  BY <1>1, LeastNatural
<1>3. PICK n \in S : t = b - n
  BY <1>2
<1>4. ASSUME NEW m \in S
      PROVE  n >= m
  <2>1. b - m \in T /\ m \in Int /\ n \in Int
    OBVIOUS
  <2>2. b - n <= b - m
    BY <2>1, <1>2, <1>3
  <2> QED
    BY <2>1, <2>2
<1>5. Max(S) \in S /\ \A m \in S : Max(S) >= m
  BY <1>4 DEF Max
<1> QED
  BY <1>5

-----------------------------------------------------------------------------
(* The files *)

LEMMA NewestLaw == lfFiles \in Seq(File) => Newest = lfFiles[Len(lfFiles)]
  BY DEF Newest, Last

\* What every step keeps of the types, in the form the provers use.
LEMMA FileFacts ==
  ASSUME LogTypes
  PROVE  /\ Len(lfFiles) \in Nat /\ Len(lfFiles) >= 1 /\ DOMAIN lfFiles = 1 .. Len(lfFiles)
         /\ lfGone \in Nat /\ lfGone < Len(lfFiles)
         /\ \A k \in 1 .. Len(lfFiles) :
               /\ lfFiles[k] \in File
               /\ lfFiles[k].before \in Nat /\ lfFiles[k].lines \in Nat /\ lfFiles[k].mtime \in Nat
<1>1. lfFiles \in Seq(File) /\ lfFiles # <<>>
  BY DEF LogTypes
<1>2. Len(lfFiles) \in Nat /\ Len(lfFiles) >= 1 /\ DOMAIN lfFiles = 1 .. Len(lfFiles)
  BY <1>1
<1>3. \A k \in 1 .. Len(lfFiles) : lfFiles[k] \in File
  BY <1>1
<1>4. \A k \in 1 .. Len(lfFiles) :
         lfFiles[k].before \in Nat /\ lfFiles[k].lines \in Nat /\ lfFiles[k].mtime \in Nat
  BY <1>3 DEF File
<1>5. lfGone \in 0 .. Len(lfFiles) - 1
  BY DEF LogTypes
<1> QED
  BY <1>2, <1>3, <1>4, <1>5

\* Files that are empty lie between two files: the later one goes on where the
\* earlier one ended.
LEMMA EmptyBetween ==
  ASSUME LogTypes, FilesInOrder, NEW i \in 1 .. Len(lfFiles), NEW k \in i + 1 .. Len(lfFiles),
         \A j \in i + 1 .. k - 1 : lfFiles[j].lines = 0
  PROVE  lfFiles[k].before = lfFiles[i].before + lfFiles[i].lines
<1> DEFINE end == lfFiles[i].before + lfFiles[i].lines
           off == {m \in i + 1 .. k : lfFiles[m].before # end}
<1>1. Len(lfFiles) \in Nat /\ end \in Nat /\ i \in Nat /\ k \in Nat /\ i < k /\ k <= Len(lfFiles)
  BY FileFacts
<1>2. off = {}
  <2> SUFFICES ASSUME off # {} PROVE FALSE
    OBVIOUS
  <2>1. off \subseteq Nat
    BY <1>1
  <2> DEFINE m == Min(off)
  <2> HIDE DEF end
  <2>2. m \in off /\ \A n \in off : m <= n
    BY <2>1, LeastNatural
  <2> HIDE DEF m
  <2>3. m \in i + 1 .. k /\ lfFiles[m].before # end
    BY <2>2
  <2>4. CASE m = i + 1
    <3>1. i \in 1 .. Len(lfFiles) - 1
      BY <1>1
    <3> QED
      BY <3>1, <2>3, <2>4 DEF FilesInOrder, end
  <2>5. CASE m # i + 1
    <3>1. m - 1 \in i + 1 .. k - 1 /\ m - 1 \in i + 1 .. k /\ m - 1 \in 1 .. Len(lfFiles) - 1
          /\ (m - 1) + 1 = m /\ ~ (m <= m - 1)
      BY <2>3, <2>5, <1>1
    <3>2. lfFiles[m - 1].before = end
      BY <3>1, <2>2
    <3>3. lfFiles[m].before = lfFiles[m - 1].before + lfFiles[m - 1].lines
      BY <3>1 DEF FilesInOrder
    <3> QED
      BY <3>1, <3>2, <3>3, <2>3, <1>1
  <2> QED
    BY <2>4, <2>5
<1>3. k \in i + 1 .. k
  BY <1>1
<1> QED
  BY <1>2, <1>3

\* A line changes the newest file only.
LEMMA AppendFacts ==
  ASSUME LogTypes, AppendLine
  PROVE  LET n == Len(lfFiles)
         IN  /\ lfFiles' \in Seq(File) /\ Len(lfFiles') = n
             /\ \A k \in 1 .. n - 1 : lfFiles'[k] = lfFiles[k]
             /\ lfFiles'[n].before = lfFiles[n].before
             /\ lfFiles'[n].lines = lfFiles[n].lines + 1
             /\ lfFiles'[n].mtime = lfNow
<1> DEFINE n == Len(lfFiles)
           e == [lfFiles[n] EXCEPT !.lines = @ + 1, !.mtime = lfNow]
<1>1. n \in Nat /\ n >= 1 /\ n \in 1 .. n /\ lfFiles[n] \in File /\ lfNow \in Nat /\ lfFiles \in Seq(File)
  BY FileFacts DEF LogTypes
<1>2. e \in File
  <2>1. lfFiles[n].lines \in Nat /\ lfFiles[n].lines + 1 \in Nat
    BY <1>1 DEF File
  <2> QED
    BY <1>1, <2>1 DEF File
<1>4. lfFiles' = [lfFiles EXCEPT ![n] = e]
  BY <1>1 DEF AppendLine
<1>5. e.before = lfFiles[n].before /\ e.lines = lfFiles[n].lines + 1 /\ e.mtime = lfNow
  BY <1>1 DEF File
<1> HIDE DEF e
<1>6. lfFiles' \in Seq(File) /\ Len(lfFiles') = n /\ lfFiles'[n] = e
      /\ \A k \in 1 .. n - 1 : lfFiles'[k] = lfFiles[k]
  BY <1>1, <1>2, <1>4
<1> QED
  BY <1>5, <1>6

\* The file of a position stays the first that is not older: the newest one only
\* gets younger.
LEMMA GrowthKeeps ==
  ASSUME LogTypes, LogTypes', FilesInOrder, AppendLine, NEW pos \in Nat, NEW mtime \in Nat, NEW line \in Nat,
         Points(pos, mtime, line)
  PROVE  Points(pos, mtime, line)'
<1> DEFINE n == Len(lfFiles)
<1>1. PICK f \in lfGone + 1 .. n : PointsAt(f, pos, mtime, line)
  BY DEF Points
<1>2. n \in Nat /\ n >= 1 /\ lfGone \in Nat /\ f \in 1 .. n
  BY <1>1, FileFacts
<1>3. /\ lfGone' = lfGone /\ Len(lfFiles') = n
      /\ \A k \in 1 .. n - 1 : lfFiles'[k] = lfFiles[k]
      /\ lfFiles'[n].before = lfFiles[n].before
      /\ lfFiles'[n].lines = lfFiles[n].lines + 1
      /\ lfFiles'[n].mtime = lfNow
  BY AppendFacts DEF AppendLine
<1>4. lfFiles[n].mtime <= lfNow /\ lfNow \in Nat
  <2>1. n \in DOMAIN lfFiles
    BY <1>2, FileFacts
  <2> QED
    BY <2>1 DEF FilesInOrder, LogTypes
<1>5. \A e \in 1 .. f - 1 : e \in 1 .. n - 1
  BY <1>2
<1>6. \A e \in 1 .. f - 1 : lfFiles'[e].mtime < mtime
  BY <1>1, <1>3, <1>5 DEF PointsAt
<1>7. /\ lfFiles'[f].mtime >= mtime
      /\ pos <= lfFiles'[f].lines
      /\ line = lfFiles'[f].before + pos
  <2>1. CASE f = n
    BY <2>1, <1>1, <1>2, <1>3, <1>4, FileFacts DEF PointsAt
  <2>2. CASE f # n
    <3>1. lfFiles'[f] = lfFiles[f]
      BY <2>2, <1>2, <1>3
    <3> QED
      BY <3>1, <1>1 DEF PointsAt
  <2> QED
    BY <2>1, <2>2
<1>8. PointsAt(f, pos, mtime, line)'
  BY <1>6, <1>7 DEF PointsAt
<1> QED
  BY <1>1, <1>3, <1>8 DEF Points

\* Positions stay true in a step that leaves them and keeps every file that is found.
LEMMA PointsKept ==
  ASSUME LogTypes, PositionsTrue, UNCHANGED <<lfSkip, lfPos, lfMtime, lfLast, lfRead>>,
         \A pos \in Nat, mtime \in Nat, line \in Nat : Points(pos, mtime, line) => Points(pos, mtime, line)'
  PROVE  PositionsTrue'
<1>1. PICK pos \in Nat, mtime \in Nat, line \in Nat : pos = lfPos /\ mtime = lfMtime /\ line = lfLast
  BY DEF LogTypes
<1>2. PICK rpos \in Nat, rmtime \in Nat : rpos = lfRead.pos /\ rmtime = lfRead.mtime
  BY DEF LogTypes
<1>3. pos = lfPos' /\ mtime = lfMtime' /\ line = lfLast' /\ rpos = lfRead'.pos /\ rmtime = lfRead'.mtime
  BY <1>1, <1>2
<1>4. ~ lfSkip => Points(lfPos, lfMtime, lfLast)'
  <2> SUFFICES ASSUME ~ lfSkip PROVE Points(lfPos, lfMtime, lfLast)'
    OBVIOUS
  <2>1. Points(pos, mtime, line)
    BY <1>1 DEF PositionsTrue
  <2>2. Points(pos, mtime, line)'
    BY <2>1
  <2> QED
    BY <2>2, <1>3
<1>5. lfRead.pos > 0 => Points(lfRead.pos, lfRead.mtime, lfLast)'
  <2> SUFFICES ASSUME lfRead.pos > 0 PROVE Points(lfRead.pos, lfRead.mtime, lfLast)'
    OBVIOUS
  <2>1. Points(rpos, rmtime, line)
    BY <1>1, <1>2 DEF PositionsTrue
  <2>2. Points(rpos, rmtime, line)'
    BY <2>1
  <2> QED
    BY <2>2, <1>3
<1> QED
  BY <1>4, <1>5 DEF PositionsTrue

LEMMA AppendKeeps == LogInv /\ AppendLine => LogInv'
<1> SUFFICES ASSUME LogInv, AppendLine PROVE LogInv'
  OBVIOUS
<1> DEFINE n == Len(lfFiles)
<1>1. LogTypes /\ FilesInOrder /\ n \in Nat /\ n >= 1
  BY FileFacts DEF LogInv
<1>2. LogTypes'
  <2>1. lfFiles' \in Seq(File) /\ Len(lfFiles') = n
    BY <1>1, AppendFacts
  <2>2. lfFiles' # <<>>
    BY <2>1, <1>1
  <2>3. UNCHANGED <<lfGone, lfNow, lfPos, lfMtime, lfLast, lfSkip, lfRead, lfList>>
    BY DEF AppendLine
  <2> QED
    BY <2>1, <2>2, <2>3, <1>1 DEF LogTypes
<1>3. /\ lfGone' = lfGone /\ Len(lfFiles') = n /\ DOMAIN lfFiles = 1 .. n /\ DOMAIN lfFiles' = 1 .. n
      /\ \A k \in 1 .. n - 1 : lfFiles'[k] = lfFiles[k]
      /\ lfFiles'[n].before = lfFiles[n].before
      /\ lfFiles'[n].mtime = lfNow
  <2>1. DOMAIN lfFiles' = 1 .. Len(lfFiles')
    BY <1>2 DEF LogTypes
  <2> QED
    BY <2>1, <1>1, AppendFacts, FileFacts DEF AppendLine
<1>4. \A k \in 1 .. n : lfFiles[k].mtime <= lfNow
  BY <1>1, <1>3 DEF FilesInOrder
<1>5. \A k \in 1 .. n : lfFiles[k].mtime <= lfFiles'[k].mtime /\ lfFiles[k].mtime \in Nat
                        /\ (k < n => lfFiles'[k] = lfFiles[k])
  <2> TAKE k \in 1 .. n
  <2>1. lfFiles[k].mtime \in Nat
    BY <1>1, FileFacts
  <2>2. k < n => k \in 1 .. n - 1
    BY <1>1
  <2>3. CASE k = n
    BY <2>1, <2>3, <1>3, <1>4
  <2>4. CASE k < n
    BY <2>1, <2>2, <2>4, <1>3
  <2> QED
    BY <2>3, <2>4, <1>1
<1>6. FilesInOrder'
  <2>1. \A k \in 1 .. n : lfFiles'[k].mtime <= lfNow
    <3> TAKE k \in 1 .. n
    <3>1. CASE k = n
      BY <3>1, <1>1, <1>3 DEF LogTypes
    <3>2. CASE k < n
      BY <3>2, <1>4, <1>5
    <3> QED
      BY <3>1, <3>2, <1>1
  <2>2. \A j \in 1 .. n, k \in 1 .. n : j < k => lfFiles'[j].mtime < lfFiles'[k].mtime
    <3> SUFFICES ASSUME NEW j \in 1 .. n, NEW k \in 1 .. n, j < k
                 PROVE  lfFiles'[j].mtime < lfFiles'[k].mtime
      OBVIOUS
    <3>1. j < n /\ lfFiles'[j] = lfFiles[j]
      BY <1>1, <1>5
    <3>2. lfFiles[j].mtime < lfFiles[k].mtime
      BY <1>1, <1>3 DEF FilesInOrder
    <3>3. lfFiles'[k].mtime \in Nat
      <4>1. CASE k = n
        BY <4>1, <1>1, <1>3 DEF LogTypes
      <4>2. CASE k < n
        BY <4>2, <1>5
      <4> QED
        BY <4>1, <4>2, <1>1
    <3> QED
      BY <3>1, <3>2, <3>3, <1>5
  <2>3. \A k \in 1 .. n - 1 : lfFiles'[k + 1].before = lfFiles'[k].before + lfFiles'[k].lines
    <3> TAKE k \in 1 .. n - 1
    <3>1. lfFiles'[k] = lfFiles[k] /\ k + 1 \in 1 .. n
      BY <1>1, <1>3
    <3>2. lfFiles'[k + 1].before = lfFiles[k + 1].before
      <4>1. CASE k + 1 = n
        BY <4>1, <1>3
      <4>2. CASE k + 1 < n
        BY <4>2, <3>1, <1>5
      <4> QED
        BY <4>1, <4>2, <3>1, <1>1
    <3> QED
      BY <3>1, <3>2, <1>1 DEF FilesInOrder
  <2>4. lfNow' = lfNow
    BY DEF AppendLine
  <2> QED
    BY <2>1, <2>2, <2>3, <2>4, <1>3 DEF FilesInOrder
<1>7. ListTrue'
  <2> SUFFICES ASSUME lfList # <<>>
               PROVE  \E from \in 0 .. lfGone : Shows(from)'
    BY <1>3 DEF ListTrue, AppendLine
  <2>1. PICK from \in 0 .. lfGone : Shows(from)
    BY DEF LogInv, ListTrue
  <2>2. lfList' = lfList /\ lfList \in Seq(Entry) /\ lfGone \in 0 .. n - 1
    BY <1>1 DEF AppendLine, LogTypes
  <2>3. Len(lfList) = n - from /\ DOMAIN lfList = 1 .. Len(lfList)
    BY <2>1, <2>2 DEF Shows
  <2>4. \A k \in DOMAIN lfList :
          /\ lfList[k].mtime <= lfFiles'[from + k].mtime
          /\ k < Len(lfList) => lfList[k].mtime = lfFiles'[from + k].mtime
    <3> TAKE k \in DOMAIN lfList
    <3>1. from + k \in 1 .. n /\ (k < Len(lfList) => from + k < n) /\ (from + k < n => k < Len(lfList))
      BY <2>2, <2>3, <1>1
    <3>2. lfList[k].mtime <= lfFiles[from + k].mtime /\ lfList[k].mtime \in Nat
      <4>1. lfList[k] \in Entry
        BY <2>2, <2>3
      <4> QED
        BY <4>1, <2>1 DEF Shows, Entry
    <3>3. CASE from + k < n
      <4>1. lfFiles'[from + k] = lfFiles[from + k]
        BY <3>1, <3>3, <1>5
      <4> QED
        BY <4>1, <3>1, <3>2, <3>3, <2>1 DEF Shows
    <3>4. CASE from + k = n
      <4>1. lfFiles'[from + k].mtime = lfNow /\ lfFiles[from + k].mtime <= lfNow
        BY <3>1, <3>4, <1>3, <1>4
      <4>2. lfNow \in Nat /\ lfFiles[from + k].mtime \in Nat
        BY <3>1, <1>1, <1>5 DEF LogTypes
      <4> QED
        BY <4>1, <4>2, <3>1, <3>2, <3>4
    <3> QED
      BY <3>1, <3>3, <3>4, <1>1
  <2>5. Shows(from)'
    BY <2>1, <2>2, <2>4, <1>3 DEF Shows
  <2> QED
    BY <2>5
<1>8. PositionsTrue'
  <2>1. UNCHANGED <<lfSkip, lfPos, lfMtime, lfLast, lfRead>>
    BY DEF AppendLine
  <2>2. \A pos \in Nat, mtime \in Nat, line \in Nat : Points(pos, mtime, line) => Points(pos, mtime, line)'
    BY <1>1, <1>2, GrowthKeeps
  <2> QED
    BY <2>1, <2>2, <1>1, PointsKept DEF LogInv
<1> QED
  BY <1>2, <1>6, <1>7, <1>8 DEF LogInv, LinesInOrder, AppendLine

\* With a second between two files and none renamed while they are listed, a
\* rotation adds the youngest file.
LEMMA RotateKeeps == ~ SameSecond /\ ~ RotatesInScan /\ LogInv /\ Rotate => LogInv'
<1> SUFFICES ASSUME ~ SameSecond, ~ RotatesInScan, LogInv, Rotate PROVE LogInv'
  OBVIOUS
<1> DEFINE n == Len(lfFiles)
           e == [before |-> Total, lines |-> 0, mtime |-> lfNow]
<1>1. LogTypes /\ FilesInOrder /\ n \in Nat /\ n >= 1 /\ lfFiles \in Seq(File) /\ DOMAIN lfFiles = 1 .. n
      /\ n \in 1 .. n /\ lfNow \in Nat
  BY FileFacts DEF LogInv, LogTypes
<1>2. lfFiles[n].before \in Nat /\ lfFiles[n].lines \in Nat /\ lfFiles[n].mtime \in Nat
  BY <1>1, FileFacts
<1>3. Total = lfFiles[n].before + lfFiles[n].lines /\ lfFiles[n].mtime < lfNow
  BY <1>1, NewestLaw DEF Total, Rotate
<1>4. e \in File /\ e.before = Total /\ e.mtime = lfNow
  <2>1. Total \in Nat
    BY <1>2, <1>3
  <2> QED
    BY <2>1, <1>1 DEF File
<1>5. lfFiles' = Append(lfFiles, e) /\ lfList = <<>> /\ UNCHANGED <<lfGone, lfNow, lfList, lfSkip, lfPos, lfMtime, lfLast, lfRead, lfWrong>>
  BY DEF Rotate
<1> HIDE DEF e
<1>6. /\ lfFiles' \in Seq(File) /\ Len(lfFiles') = n + 1 /\ DOMAIN lfFiles' = 1 .. n + 1
      /\ lfFiles'[n + 1] = e /\ \A k \in 1 .. n : lfFiles'[k] = lfFiles[k]
  BY <1>1, <1>4, <1>5, AppendProperties
<1>7. LogTypes'
  <2>1. lfFiles' # <<>> /\ lfGone' \in 0 .. Len(lfFiles') - 1
    BY <1>1, <1>5, <1>6 DEF LogTypes
  <2> QED
    BY <2>1, <1>1, <1>5, <1>6 DEF LogTypes
<1>8. FilesInOrder'
  <2>1. \A k \in 1 .. n : lfFiles[k].mtime <= lfFiles[n].mtime /\ lfFiles[k].mtime \in Nat
    <3> TAKE k \in 1 .. n
    <3>1. lfFiles[k].mtime \in Nat
      BY <1>1, FileFacts
    <3>2. k < n => lfFiles[k].mtime < lfFiles[n].mtime
      BY <1>1 DEF FilesInOrder
    <3> QED
      BY <3>1, <3>2, <1>1, <1>2
  <2>2. \A k \in 1 .. n + 1 : lfFiles'[k].mtime <= lfNow
    <3> TAKE k \in 1 .. n + 1
    <3>1. CASE k = n + 1
      BY <3>1, <1>1, <1>4, <1>6
    <3>2. CASE k # n + 1
      <4>1. k \in 1 .. n
        BY <3>2, <1>1
      <4> QED
        BY <4>1, <1>1, <1>6 DEF FilesInOrder
    <3> QED
      BY <3>1, <3>2
  <2>3. \A j \in 1 .. n + 1, k \in 1 .. n + 1 : j < k => lfFiles'[j].mtime < lfFiles'[k].mtime
    <3> SUFFICES ASSUME NEW j \in 1 .. n + 1, NEW k \in 1 .. n + 1, j < k
                 PROVE  lfFiles'[j].mtime < lfFiles'[k].mtime
      OBVIOUS
    <3>1. j \in 1 .. n /\ lfFiles'[j] = lfFiles[j]
      BY <1>1, <1>6
    <3>2. CASE k = n + 1
      BY <3>1, <3>2, <2>1, <1>1, <1>2, <1>3, <1>4, <1>6
    <3>3. CASE k # n + 1
      <4>1. k \in 1 .. n
        BY <3>3, <1>1
      <4> QED
        BY <3>1, <4>1, <1>1, <1>6 DEF FilesInOrder
    <3> QED
      BY <3>2, <3>3
  <2>4. \A k \in 1 .. n : lfFiles'[k + 1].before = lfFiles'[k].before + lfFiles'[k].lines
    <3> TAKE k \in 1 .. n
    <3>1. CASE k = n
      BY <3>1, <1>1, <1>3, <1>4, <1>6
    <3>2. CASE k # n
      <4>1. k \in 1 .. n - 1 /\ k + 1 \in 1 .. n
        <5>1. n \in Nat
          BY <1>1
        <5> HIDE DEF n
        <5> QED
          BY <5>1, <3>2
      <4> QED
        BY <4>1, <1>1, <1>6 DEF FilesInOrder
    <3> QED
      BY <3>1, <3>2
  <2>5. Len(lfFiles') - 1 = n /\ lfNow' = lfNow
    BY <1>1, <1>5, <1>6
  <2> QED
    BY <2>2, <2>3, <2>4, <2>5, <1>6 DEF FilesInOrder
<1>9. PositionsTrue'
  <2>1. ASSUME NEW pos \in Nat, NEW mtime \in Nat, NEW line \in Nat, Points(pos, mtime, line)
        PROVE  Points(pos, mtime, line)'
    <3>1. PICK f \in lfGone + 1 .. n : PointsAt(f, pos, mtime, line)
      BY <2>1 DEF Points
    <3>2. lfGone \in Nat
      BY <1>1, FileFacts
    <3>3. f \in 1 .. n /\ lfFiles'[f] = lfFiles[f] /\ \A k \in 1 .. f - 1 : k \in 1 .. n
      BY <3>1, <3>2, <1>1, <1>6
    <3>4. PointsAt(f, pos, mtime, line)'
      BY <3>1, <3>3, <1>6 DEF PointsAt
    <3>5. f \in lfGone' + 1 .. Len(lfFiles')
      BY <3>1, <3>2, <1>1, <1>5, <1>6
    <3> QED
      BY <3>4, <3>5 DEF Points
  <2> QED
    BY <2>1, <1>1, <1>5, PointsKept DEF LogInv
<1> QED
  BY <1>5, <1>7, <1>8, <1>9 DEF LogInv, LinesInOrder, ListTrue

\* The file of a position is never the one that is deleted: a later line was read.
LEMMA DeleteKeeps == LogInv /\ DeleteOldest => LogInv'
<1> SUFFICES ASSUME LogInv, DeleteOldest PROVE LogInv'
  OBVIOUS
<1> DEFINE n == Len(lfFiles)
<1>1. /\ LogTypes /\ FilesInOrder /\ n \in Nat /\ DOMAIN lfFiles = 1 .. n
      /\ lfGone \in Nat /\ lfGone + 1 < n /\ lfLast \in Nat
      /\ lfGone + 1 \in 1 .. n - 1 /\ lfGone + 1 \in 1 .. n /\ lfGone + 2 = (lfGone + 1) + 1
  BY FileFacts DEF LogInv, LogTypes, DeleteOldest
<1>2. UNCHANGED <<lfFiles, lfNow, lfSkip, lfPos, lfMtime, lfList, lfLast, lfRead, lfWrong>> /\ lfGone' = lfGone + 1
  BY DEF DeleteOldest
<1>3. LogTypes' /\ FilesInOrder'
  BY <1>1, <1>2 DEF LogTypes, FilesInOrder
<1>4. ListTrue'
  <2> SUFFICES ASSUME lfList # <<>>
               PROVE  \E from \in 0 .. lfGone + 1 : Shows(from)'
    BY <1>2 DEF ListTrue
  <2>1. PICK from \in 0 .. lfGone : Shows(from)
    BY DEF LogInv, ListTrue
  <2>2. from \in 0 .. lfGone + 1
    BY <1>1
  <2>3. Shows(from)'
    BY <2>1, <1>2 DEF Shows
  <2> QED
    BY <2>2, <2>3
<1>5. ASSUME NEW pos \in Nat, NEW mtime \in Nat, Points(pos, mtime, lfLast)
      PROVE  \E f \in lfGone' + 1 .. Len(lfFiles') : PointsAt(f, pos, mtime, lfLast)'
  <2>1. PICK f \in lfGone + 1 .. n : PointsAt(f, pos, mtime, lfLast)
    BY <1>5 DEF Points
  <2>2. f # lfGone + 1
    <3> SUFFICES ASSUME f = lfGone + 1 PROVE FALSE
      OBVIOUS
    <3>1. lfFiles[lfGone + 2].before = lfFiles[f].before + lfFiles[f].lines
      BY <1>1 DEF FilesInOrder
    <3>2. lfFiles[f].before \in Nat /\ lfFiles[f].lines \in Nat
      BY <1>1, FileFacts
    <3>3. lfLast > lfFiles[lfGone + 2].before
      BY DEF DeleteOldest
    <3> QED
      BY <2>1, <3>1, <3>2, <3>3, <1>1 DEF PointsAt
  <2>3. f \in lfGone' + 1 .. Len(lfFiles')
    BY <2>1, <2>2, <1>1, <1>2
  <2>4. PointsAt(f, pos, mtime, lfLast)'
    BY <2>1, <1>2 DEF PointsAt
  <2> QED
    BY <2>3, <2>4
<1>6. PositionsTrue'
  <2>1. PICK pos \in Nat, mtime \in Nat : pos = lfPos /\ mtime = lfMtime
    BY <1>1 DEF LogTypes
  <2>2. PICK rpos \in Nat, rmtime \in Nat : rpos = lfRead.pos /\ rmtime = lfRead.mtime
    BY <1>1 DEF LogTypes
  <2>3. pos = lfPos' /\ mtime = lfMtime' /\ rpos = lfRead'.pos /\ rmtime = lfRead'.mtime
    BY <2>1, <2>2, <1>2
  <2>4. ~ lfSkip => Points(lfPos, lfMtime, lfLast)'
    <3> SUFFICES ASSUME ~ lfSkip PROVE Points(lfPos, lfMtime, lfLast)'
      OBVIOUS
    <3>1. Points(pos, mtime, lfLast)
      BY <2>1 DEF LogInv, PositionsTrue
    <3>2. \E f \in lfGone' + 1 .. Len(lfFiles') : PointsAt(f, pos, mtime, lfLast)'
      BY <3>1, <1>5
    <3> QED
      BY <3>2, <2>3, <1>2 DEF Points, PointsAt
  <2>5. lfRead.pos > 0 => Points(lfRead.pos, lfRead.mtime, lfLast)'
    <3> SUFFICES ASSUME lfRead.pos > 0 PROVE Points(lfRead.pos, lfRead.mtime, lfLast)'
      OBVIOUS
    <3>1. Points(rpos, rmtime, lfLast)
      BY <2>2 DEF LogInv, PositionsTrue
    <3>2. \E f \in lfGone' + 1 .. Len(lfFiles') : PointsAt(f, rpos, rmtime, lfLast)'
      BY <3>1, <1>5
    <3> QED
      BY <3>2, <2>3, <1>2 DEF Points, PointsAt
  <2> QED
    BY <2>4, <2>5, <1>2 DEF LogInv, PositionsTrue
<1> QED
  BY <1>2, <1>3, <1>4, <1>6 DEF LogInv, LinesInOrder

LEMMA TickKeeps == LogInv /\ LogTick => LogInv'
<1> SUFFICES ASSUME LogInv, LogTick PROVE LogInv'
  OBVIOUS
<1>1. UNCHANGED <<lfFiles, lfGone, lfSkip, lfPos, lfMtime, lfList, lfLast, lfRead, lfWrong>> /\ lfNow' = lfNow + 1
  BY DEF LogTick
<1>2. LogTypes'
  BY <1>1 DEF LogInv, LogTypes
<1>3. FilesInOrder'
  <2>1. \A k \in DOMAIN lfFiles : lfFiles[k].mtime \in Nat /\ lfNow \in Nat
    BY FileFacts DEF LogInv, LogTypes
  <2>2. \A k \in DOMAIN lfFiles : lfFiles[k].mtime <= lfNow + 1
    BY <2>1 DEF LogInv, FilesInOrder
  <2> QED
    BY <2>2, <1>1 DEF LogInv, FilesInOrder
<1>4. ListTrue' /\ PositionsTrue'
  BY <1>1 DEF LogInv, ListTrue, Shows, PositionsTrue, Points, PointsAt
<1> QED
  BY <1>1, <1>2, <1>3, <1>4 DEF LogInv, LinesInOrder

LEMMA ListKeeps == LogInv /\ add_logfile => LogInv'
<1> SUFFICES ASSUME LogInv, add_logfile PROVE LogInv'
  OBVIOUS
<1> DEFINE n == Len(lfFiles)
           entry(k) == [name |-> n - lfGone - k, mtime |-> lfFiles[lfGone + k].mtime]
<1>1. UNCHANGED <<lfFiles, lfGone, lfNow, lfSkip, lfPos, lfMtime, lfLast, lfRead, lfWrong>>
  BY DEF add_logfile
<1>2. LogTypes /\ FilesInOrder /\ n \in Nat /\ lfGone \in Nat /\ lfGone < n /\ DOMAIN lfFiles = 1 .. n
  BY FileFacts DEF LogInv
<1>3. \A k \in 1 .. n - lfGone : /\ lfGone + k \in 1 .. n
                                 /\ entry(k).name = n - lfGone - k
                                 /\ entry(k).mtime = lfFiles[lfGone + k].mtime
                                 /\ entry(k).mtime \in Nat
                                 /\ entry(k) \in Entry
  <2> TAKE k \in 1 .. n - lfGone
  <2>1. lfGone + k \in 1 .. n /\ n - lfGone - k \in Nat
    BY <1>2
  <2>2. lfFiles[lfGone + k].mtime \in Nat
    BY <2>1, <1>2, FileFacts
  <2> QED
    BY <2>1, <2>2 DEF Entry
<1>4. lfList' = [k \in 1 .. n - lfGone |-> entry(k)]
  BY DEF add_logfile
<1> HIDE DEF entry
<1>5. lfList' \in Seq(Entry) /\ Len(lfList') = n - lfGone /\ DOMAIN lfList' = 1 .. n - lfGone
      /\ \A k \in 1 .. n - lfGone : lfList'[k] = entry(k)
  BY <1>2, <1>3, <1>4
<1>6. LogTypes' /\ FilesInOrder'
  BY <1>1, <1>2, <1>5 DEF LogTypes, FilesInOrder
<1>7. ListTrue'
  <2>1. Shows(lfGone)'
    <3>1. \A k \in DOMAIN lfList' : /\ lfList'[k].name = n - lfGone - k
                                    /\ lfList'[k].mtime = lfFiles[lfGone + k].mtime
                                    /\ lfFiles[lfGone + k].mtime \in Nat
                                    /\ lfGone + k \in 1 .. n
      BY <1>3, <1>5
    <3>2. \A j \in DOMAIN lfList', k \in DOMAIN lfList' : j < k => lfList'[j].mtime < lfList'[k].mtime
      <4> SUFFICES ASSUME NEW j \in DOMAIN lfList', NEW k \in DOMAIN lfList', j < k
                   PROVE  lfList'[j].mtime < lfList'[k].mtime
        OBVIOUS
      <4>1. lfGone + j < lfGone + k
        BY <1>2, <1>5
      <4> QED
        BY <4>1, <3>1, <1>2 DEF FilesInOrder
    <3> QED
      BY <3>1, <3>2, <1>1, <1>2, <1>5 DEF Shows
  <2>2. lfGone' \in 0 .. lfGone'
    BY <1>1, <1>2
  <2> QED
    BY <2>1, <2>2, <1>1 DEF ListTrue, Shows
<1>8. PositionsTrue'
  BY <1>1 DEF LogInv, PositionsTrue, Points, PointsAt
<1> QED
  BY <1>1, <1>6, <1>7, <1>8 DEF LogInv, LinesInOrder

LEMMA LogRestartKeeps == LogInv /\ LogRestart => LogInv'
<1> SUFFICES ASSUME LogInv, LogRestart PROVE LogInv'
  OBVIOUS
<1>1. UNCHANGED <<lfFiles, lfGone, lfNow, lfLast, lfRead, lfWrong>>
      /\ lfPos' = lfRead.pos /\ lfMtime' = lfRead.mtime /\ lfSkip' = FALSE /\ lfList' = <<>> /\ lfRead.pos > 0
  BY DEF LogRestart
<1>2. LogTypes' /\ FilesInOrder'
  <2>1. lfList' \in Seq(Entry)
    BY <1>1
  <2>2. lfRead.pos \in Nat /\ lfRead.mtime \in Nat
    BY DEF LogInv, LogTypes
  <2> QED
    BY <2>1, <2>2, <1>1 DEF LogInv, LogTypes, FilesInOrder
<1>3. ListTrue'
  BY <1>1 DEF ListTrue
<1>4. PositionsTrue'
  BY <1>1 DEF LogInv, PositionsTrue, Points, PointsAt
<1> QED
  BY <1>1, <1>2, <1>3, <1>4 DEF LogInv, LinesInOrder

-----------------------------------------------------------------------------
(* The reading *)

\* The first file of the list that is not older than mtime.
FirstOf(list) ==
    LET after == {k \in DOMAIN list : list[k].mtime >= lfMtime}
    IN  IF lfSkip \/ after = {} THEN Len(list) ELSE Min(after)

\* mtimes grow along the list: no two are equal, so Chosen goes no further.
LEMMA ChosenIs ==
  ASSUME NEW shift, Shows(shift), lfList \in Seq(Entry), NEW i \in 1 .. Len(lfList),
         i = FirstOf(lfList)
  PROVE  Chosen(lfList) = i
<1> DEFINE same == {k \in i .. Len(lfList) : lfList[k].mtime = lfList[i].mtime}
<1>1. DOMAIN lfList = 1 .. Len(lfList) /\ Len(lfList) \in Nat
  OBVIOUS
<1>2. i \in same
  BY <1>1
<1>3. \A k \in same : k = i
  <2> TAKE k \in same
  <2>1. k \in DOMAIN lfList /\ i \in DOMAIN lfList /\ lfList[k].mtime = lfList[i].mtime
    BY <1>1
  <2>2. lfList[k].mtime \in Nat
    <3>1. lfList[k] \in Entry
      BY <2>1
    <3> QED
      BY <3>1 DEF Entry
  <2>3. ~ (i < k)
    BY <2>1, <2>2 DEF Shows
  <2> QED
    BY <2>3, <1>1
<1>4. Chosen(lfList) = Max(same)
  BY DEF Chosen, FirstOf
<1> HIDE DEF same
<1>5. \A y \in same : i >= y
  BY <1>3
<1>6. Max(same) \in same
  BY <1>2, <1>5 DEF Max
<1> QED
  BY <1>3, <1>4, <1>6

\* The file of the position is found among those of the list.
LEMMA ChosenPoint ==
  ASSUME LogTypes, FilesInOrder, ~ lfSkip, NEW shift \in 0 .. lfGone, Shows(shift),
         NEW g \in lfGone + 1 .. Len(lfFiles), PointsAt(g, lfPos, lfMtime, lfLast)
  PROVE  Chosen(lfList) = g - shift
<1> DEFINE after == {k \in DOMAIN lfList : lfList[k].mtime >= lfMtime}
           i == g - shift
           len == Len(lfList)
<1>1. /\ Len(lfFiles) \in Nat /\ lfGone \in Nat /\ lfGone < Len(lfFiles)
      /\ lfList \in Seq(Entry) /\ lfMtime \in Nat
  BY FileFacts DEF LogTypes
<1>2. len = Len(lfFiles) - shift /\ DOMAIN lfList = 1 .. len /\ len \in Nat /\ i \in 1 .. len /\ shift + i = g
  BY <1>1 DEF Shows
<1>3. \A k \in 1 .. len : lfList[k].mtime \in Nat
  <2>1. \A k \in 1 .. len : lfList[k] \in Entry
    BY <1>1
  <2> QED
    BY <2>1 DEF Entry
<1>4. \A k \in 1 .. len : k < i => ~ (lfList[k].mtime >= lfMtime)
  <2> SUFFICES ASSUME NEW k \in 1 .. len, k < i PROVE ~ (lfList[k].mtime >= lfMtime)
    OBVIOUS
  <2>1. shift + k \in 1 .. g - 1 /\ k < len
    BY <1>1, <1>2
  <2>2. lfList[k].mtime = lfFiles[shift + k].mtime
    BY <2>1, <1>2 DEF Shows
  <2>3. lfFiles[shift + k].mtime < lfMtime
    BY <2>1 DEF PointsAt
  <2> QED
    BY <2>2, <2>3, <1>1, <1>3
<1>5. i < len => i \in after
  <2> SUFFICES ASSUME i < len PROVE i \in after
    OBVIOUS
  <2>1. lfList[i].mtime = lfFiles[g].mtime
    BY <1>2 DEF Shows
  <2>2. lfFiles[g].mtime >= lfMtime
    BY DEF PointsAt
  <2> QED
    BY <2>1, <2>2, <1>2
<1>6. \A k \in after : i <= k
  BY <1>2, <1>4
<1>7. i = IF after = {} THEN len ELSE Min(after)
  <2>1. CASE after = {}
    BY <2>1, <1>2, <1>5
  <2>2. CASE after # {}
    <3>1. i \in after
      <4>1. PICK k \in after : TRUE
        BY <2>2
      <4>2. i <= k /\ k \in 1 .. len
        BY <1>6, <1>2
      <4>3. CASE i = len
        BY <4>1, <4>2, <4>3, <1>2
      <4>4. CASE i # len
        BY <4>4, <1>2, <1>5
      <4> QED
        BY <4>3, <4>4
    <3>2. after \subseteq Nat
      BY <1>2
    <3> HIDE DEF after
    <3>3. Min(after) \in after /\ Min(after) <= i
      BY <3>1, <3>2, LeastNatural
    <3>4. i <= Min(after) /\ Min(after) \in Nat /\ i \in Nat
      BY <3>3, <3>2, <3>1, <1>6
    <3> QED
      BY <2>2, <3>3, <3>4
  <2> QED
    BY <2>1, <2>2
<1> QED
  BY <1>1, <1>2, <1>7, ChosenIs DEF FirstOf

\* What the file number k of the list is.
LEMMA FileFound ==
  ASSUME LogTypes, NEW shift \in 0 .. lfGone, Shows(shift), NEW k \in 1 .. Len(lfList)
  PROVE  FileOf(lfList[k].name) = IF shift + k > lfGone THEN shift + k ELSE 0
<1>1. Len(lfFiles) \in Nat /\ lfGone \in Nat /\ lfList \in Seq(Entry)
  BY FileFacts DEF LogTypes
<1>2. k \in DOMAIN lfList
  BY <1>1
<1>3. lfList[k].name = Len(lfFiles) - shift - k
  BY <1>2 DEF Shows
<1>4. Len(lfFiles) - lfList[k].name = shift + k
  BY <1>1, <1>3
<1> QED
  BY <1>4 DEF FileOf

\* A reading with skip_old_data takes no line: it goes to the end of the newest file.
LEMMA SkipRead ==
  ASSUME LogInv, ReadLog, lfSkip
  PROVE  LET n == Len(lfFiles)
         IN  /\ lfPos' = lfFiles[n].lines /\ lfMtime' = lfFiles[n].mtime
             /\ lfLast' = lfFiles[n].before + lfFiles[n].lines
             /\ lfSkip' = FALSE /\ UNCHANGED <<lfRead, lfWrong>>
<1> DEFINE n == Len(lfFiles)
           i == Chosen(lfList)
           len == Len(lfList)
           f(k) == FileOf(lfList[k].name)
           size(k) == lfFiles[f(k)].lines
           ready == {k \in i .. len : f(k) # 0 /\ size(k) < size(k)}
           missing == {k \in i .. len : f(k) = 0}
<1>1. LogTypes /\ lfList \in Seq(Entry) /\ lfList # <<>> /\ n \in Nat /\ lfGone \in Nat /\ lfGone < n
  BY FileFacts DEF LogInv, LogTypes, ReadLog
<1>2. PICK shift \in 0 .. lfGone : Shows(shift)
  BY <1>1 DEF LogInv, ListTrue
<1>3. len \in 1 .. len /\ len \in Nat /\ shift + len = n
  BY <1>1, <1>2 DEF Shows
<1>4. i = len
  BY <1>1, <1>2, <1>3, ChosenIs DEF FirstOf
<1>5. f(len) = n
  BY <1>1, <1>2, <1>3, FileFound
<1>6. lfFiles[n].lines \in Nat
  BY <1>1, FileFacts
<1>7. \A k \in i .. len : k = len
  BY <1>3, <1>4
<1>8. ready = {} /\ missing = {}
  BY <1>1, <1>5, <1>6, <1>7
<1> DEFINE at == IF ready = {} THEN len ELSE Min(ready)
           start == IF at > i THEN 0 ELSE size(at)
<1>9. ~ (\E m \in missing : m <= at) =>
         /\ lfMtime' = lfFiles[f(at)].mtime /\ lfSkip' = FALSE
         /\ ready = {} => /\ lfPos' = start
                          /\ lfLast' = lfFiles[f(at)].before + start
                          /\ UNCHANGED <<lfRead, lfWrong>>
  <2>1. \A k \in i .. len : ~ (k > i)
    BY <1>3, <1>4
  <2>2. {k \in i .. len : f(k) # 0 /\ (IF k > i THEN 0 ELSE size(k)) < size(k)} = ready
    BY <2>1
  <2> QED
    BY <2>2 DEF ReadLog
<1> HIDE DEF ready, missing, i, f
<1>10. ~ (len > i)
  BY <1>3, <1>4
<1>11. /\ lfMtime' = lfFiles[f(len)].mtime /\ lfSkip' = FALSE
       /\ lfPos' = size(len) /\ lfLast' = lfFiles[f(len)].before + size(len)
       /\ UNCHANGED <<lfRead, lfWrong>>
  BY <1>8, <1>9, <1>10
<1> QED
  BY <1>5, <1>11

\* A reading from a position: it goes from the file g of the position over files
\* that are empty to the file h, and takes the next line there, or none when h is
\* the newest one and at its end.
Reading(g, h) ==
    LET start == IF h = g THEN lfPos ELSE 0
    IN  /\ PointsAt(g, lfPos, lfMtime, lfLast)
        /\ h > g => lfFiles[g].lines = lfPos
        /\ \A j \in g + 1 .. h - 1 : lfFiles[j].lines = 0
        /\ lfMtime' = lfFiles[h].mtime /\ lfSkip' = FALSE
        /\ \/ /\ start < lfFiles[h].lines
              /\ lfPos' = start + 1 /\ lfLast' = lfFiles[h].before + start + 1
              /\ lfWrong' = (lfWrong \/ lfLast' # lfLast + 1)
              /\ lfRead' = [pos |-> lfPos', mtime |-> lfMtime']
           \/ /\ start = lfFiles[h].lines
              /\ lfPos' = start
              /\ UNCHANGED <<lfLast, lfRead, lfWrong>>

LEMMA PointRead ==
  ASSUME LogInv, ReadLog, ~ lfSkip
  PROVE  \E g \in lfGone + 1 .. Len(lfFiles) : \E h \in g .. Len(lfFiles) : Reading(g, h)
<1> DEFINE n == Len(lfFiles)
           i == Chosen(lfList)
           len == Len(lfList)
           f(k) == FileOf(lfList[k].name)
           size(k) == lfFiles[f(k)].lines
           start(k) == IF k > i THEN 0 ELSE IF lfSkip THEN size(k) ELSE IF size(k) < lfPos THEN 0 ELSE lfPos
           ready == {k \in i .. len : f(k) # 0 /\ start(k) < size(k)}
           missing == {k \in i .. len : f(k) = 0}
           at == IF ready = {} THEN len ELSE Min(ready)
           line == lfFiles[f(at)].before + start(at) + 1
<1>1. LogTypes /\ FilesInOrder /\ lfList \in Seq(Entry) /\ lfList # <<>>
      /\ n \in Nat /\ lfGone \in Nat /\ lfGone < n /\ lfPos \in Nat
  BY FileFacts DEF LogInv, LogTypes, ReadLog
<1>2. PICK shift \in 0 .. lfGone : Shows(shift)
  BY <1>1 DEF LogInv, ListTrue
<1>3. PICK g \in lfGone + 1 .. n : PointsAt(g, lfPos, lfMtime, lfLast)
  BY DEF LogInv, PositionsTrue, Points
<1>4. /\ i = g - shift /\ len = n - shift
      /\ i \in 1 .. len /\ len \in Nat
      /\ \A k \in i .. len : k \in 1 .. len /\ shift + k \in g .. n /\ shift + k > lfGone /\ (k > i <=> shift + k > g)
  <2>1. i = g - shift
    BY <1>1, <1>2, <1>3, ChosenPoint
  <2>2. len = n - shift
    BY <1>2 DEF Shows
  <2> HIDE DEF i, len, n
  <2> QED
    BY <2>1, <2>2, <1>1
<1>5. /\ ~ (\E m \in missing : m <= at) =>
            /\ lfMtime' = lfFiles[f(at)].mtime /\ lfSkip' = FALSE
            /\ ready = {} => /\ lfPos' = start(at)
                             /\ lfLast' = lfLast
                             /\ UNCHANGED <<lfRead, lfWrong>>
            /\ ready # {} => /\ lfPos' = start(at) + 1
                             /\ lfLast' = line /\ lfWrong' = (lfWrong \/ line # lfLast + 1)
                             /\ lfRead' = [pos |-> lfPos', mtime |-> lfMtime']
  BY DEF ReadLog
<1>6. \A k \in i .. len : f(k) = shift + k
  <2> TAKE k \in i .. len
  <2>1. k \in 1 .. len /\ shift + k > lfGone
    BY <1>4
  <2> QED
    BY <2>1, <1>1, <1>2, FileFound
<1>7. \A k \in i .. len : /\ size(k) = lfFiles[shift + k].lines
                          /\ size(k) \in Nat
                          /\ start(k) = IF shift + k = g THEN lfPos ELSE 0
                          /\ start(k) <= size(k)
                          /\ f(k) # 0
  <2> TAKE k \in i .. len
  <2>1. f(k) = shift + k /\ shift + k \in g .. n /\ shift + k \in 1 .. n /\ (k > i <=> shift + k > g)
    BY <1>1, <1>3, <1>4, <1>6
  <2>2. size(k) = lfFiles[shift + k].lines
    BY <2>1
  <2>3. size(k) \in Nat
    BY <2>1, <2>2, <1>1, FileFacts
  <2>4. shift + k = g => lfPos <= size(k)
    BY <2>2, <1>3 DEF PointsAt
  <2>5. start(k) = IF k > i THEN 0 ELSE IF size(k) < lfPos THEN 0 ELSE lfPos
    OBVIOUS
  <2> HIDE DEF size, start, f, i, n
  <2>6. CASE shift + k = g
    <3>1. ~ (k > i) /\ ~ (size(k) < lfPos)
      BY <2>1, <2>3, <2>4, <2>6, <1>1
    <3> QED
      BY <2>1, <2>2, <2>3, <2>4, <2>5, <2>6, <3>1, <1>1
  <2>7. CASE shift + k # g
    <3>1. k > i
      BY <2>1, <2>7
    <3> QED
      BY <2>1, <2>2, <2>3, <2>5, <2>7, <3>1, <1>1
  <2> QED
    BY <2>6, <2>7
<1> HIDE DEF n, i, len, f, size, start
<1>8. ready \subseteq Nat
  BY <1>4
<1>9. at \in i .. len /\ \A k \in i .. len : k < at => k \notin ready
  <2>1. CASE ready = {}
    BY <2>1, <1>4
  <2>2. CASE ready # {}
    <3> HIDE DEF ready
    <3>1. at \in ready /\ \A k \in ready : at <= k
      BY <2>2, <1>8, LeastNatural
    <3>2. at \in i .. len
      BY <3>1 DEF ready
    <3>3. \A k \in i .. len : k < at => ~ (at <= k)
      BY <3>2, <1>4
    <3> QED
      BY <3>1, <3>2, <3>3
  <2> QED
    BY <2>1, <2>2
<1>10. ready # {} => at \in ready
  <2> SUFFICES ASSUME ready # {} PROVE at \in ready
    OBVIOUS
  <2> HIDE DEF ready
  <2> QED
    BY <1>8, LeastNatural
<1> HIDE DEF at
<1>11. missing = {}
  BY <1>7
<1> DEFINE h == shift + at
<1>12. f(at) = h /\ h \in g .. n /\ size(at) = lfFiles[h].lines /\ start(at) = (IF h = g THEN lfPos ELSE 0)
  BY <1>4, <1>6, <1>7, <1>9
<1>13. \A k \in i .. len : k < at => size(k) = start(k)
  <2> SUFFICES ASSUME NEW k \in i .. len, k < at PROVE size(k) = start(k)
    OBVIOUS
  <2>1. ~ (start(k) < size(k)) /\ start(k) <= size(k) /\ size(k) \in Nat
    BY <1>7, <1>9
  <2>2. start(k) \in Nat
    BY <1>1, <1>7
  <2> QED
    BY <2>1, <2>2
<1>14. \A j \in g .. h - 1 : /\ j - shift \in i .. len /\ j - shift < at /\ shift + (j - shift) = j
  <2>1. i = g - shift /\ len = n - shift /\ at \in i .. len /\ n \in Nat
    BY <1>1, <1>4, <1>9 DEF n
  <2> QED
    BY <2>1, <1>12
<1>15. h > g => lfFiles[g].lines = lfPos
  <2> SUFFICES ASSUME h > g PROVE lfFiles[g].lines = lfPos
    OBVIOUS
  <2>1. g \in g .. h - 1
    BY <1>12
  <2>2. size(g - shift) = start(g - shift) /\ g - shift \in i .. len /\ shift + (g - shift) = g
    BY <2>1, <1>13, <1>14
  <2> QED
    BY <2>2, <1>7
<1>16. \A j \in g + 1 .. h - 1 : lfFiles[j].lines = 0
  <2> TAKE j \in g + 1 .. h - 1
  <2>1. j \in g .. h - 1 /\ j # g
    BY <1>12
  <2>2. size(j - shift) = start(j - shift) /\ j - shift \in i .. len /\ shift + (j - shift) = j
    BY <2>1, <1>13, <1>14
  <2> QED
    BY <2>1, <2>2, <1>7
<1>17. ready # {} => start(at) < size(at)
  BY <1>10
<1>18. ready = {} => start(at) = size(at)
  <2> SUFFICES ASSUME ready = {} PROVE start(at) = size(at)
    OBVIOUS
  <2>1. ~ (start(at) < size(at)) /\ start(at) <= size(at) /\ size(at) \in Nat /\ start(at) \in Nat
    BY <1>1, <1>7, <1>9
  <2> QED
    BY <2>1
<1> HIDE DEF ready, missing, h
<1>19. Reading(g, h)
  <2>1. CASE ready = {}
    BY <2>1, <1>3, <1>5, <1>11, <1>12, <1>15, <1>16, <1>18 DEF Reading
  <2>2. CASE ready # {}
    BY <2>2, <1>3, <1>5, <1>11, <1>12, <1>15, <1>16, <1>17 DEF Reading
  <2> QED
    BY <2>1, <2>2
<1> QED
  BY <1>12, <1>19 DEF n

\* The line that is read is the one after the last, and the position behind it is
\* found again.
LEMMA ReadingKeeps ==
  ASSUME LogInv, lfFiles' = lfFiles, lfGone' = lfGone, lfRead' = lfRead \/ lfRead' = [pos |-> lfPos', mtime |-> lfMtime'],
         NEW g \in lfGone + 1 .. Len(lfFiles), NEW h \in g .. Len(lfFiles), Reading(g, h)
  PROVE  /\ LinesInOrder' /\ PositionsTrue'
         /\ {lfPos', lfMtime', lfLast'} \subseteq Nat /\ lfRead' \in [pos : Nat, mtime : Nat]
<1> DEFINE n == Len(lfFiles)
           start == IF h = g THEN lfPos ELSE 0
<1>1. /\ LogTypes /\ FilesInOrder /\ n \in Nat /\ lfGone \in Nat /\ DOMAIN lfFiles = 1 .. n
      /\ g \in 1 .. n /\ h \in 1 .. n /\ h \in lfGone + 1 .. n /\ g <= h
      /\ lfPos \in Nat /\ lfLast \in Nat /\ lfRead \in [pos : Nat, mtime : Nat]
  BY FileFacts DEF LogInv, LogTypes
<1>2. /\ lfFiles[g].before \in Nat /\ lfFiles[g].lines \in Nat
      /\ lfFiles[h].before \in Nat /\ lfFiles[h].lines \in Nat /\ lfFiles[h].mtime \in Nat
  BY <1>1, FileFacts
<1>3. start \in Nat
  BY <1>1
<1>4. lfLast = lfFiles[h].before + start
  <2>1. lfLast = lfFiles[g].before + lfPos
    BY DEF Reading, PointsAt
  <2>2. CASE h = g
    BY <2>1, <2>2
  <2>3. CASE h # g
    <3>1. h \in g + 1 .. n /\ h > g
      BY <2>3, <1>1
    <3>2. lfFiles[h].before = lfFiles[g].before + lfFiles[g].lines
      BY <3>1, <1>1, EmptyBetween DEF Reading
    <3> QED
      BY <2>1, <2>3, <3>1, <3>2, <1>2 DEF Reading
  <2> QED
    BY <2>2, <2>3
<1>5. \A e \in 1 .. h - 1 : lfFiles[e].mtime < lfFiles[h].mtime
  <2> TAKE e \in 1 .. h - 1
  <2>1. e \in 1 .. n /\ e < h
    BY <1>1
  <2> QED
    BY <2>1, <1>1 DEF FilesInOrder
<1>6. ASSUME NEW pos, pos = lfPos', pos <= lfFiles[h].lines, lfLast' = lfFiles[h].before + pos
      PROVE  Points(lfPos, lfMtime, lfLast)'
  <2>1. lfMtime' = lfFiles[h].mtime
    BY DEF Reading
  <2>2. PointsAt(h, lfPos, lfMtime, lfLast)'
    BY <1>2, <1>5, <1>6, <2>1 DEF PointsAt
  <2> QED
    BY <1>1, <2>2 DEF Points
<1>7. lfMtime' = lfFiles[h].mtime /\ lfSkip' = FALSE
  BY DEF Reading
<1>8. CASE /\ start < lfFiles[h].lines
           /\ lfPos' = start + 1 /\ lfLast' = lfFiles[h].before + start + 1
           /\ lfWrong' = (lfWrong \/ lfLast' # lfLast + 1)
           /\ lfRead' = [pos |-> lfPos', mtime |-> lfMtime']
  <2> HIDE DEF start
  <2>1. lfPos' \in Nat /\ lfPos' <= lfFiles[h].lines /\ lfLast' = lfFiles[h].before + lfPos' /\ lfLast' \in Nat
    <3>1. lfPos' = start + 1 /\ lfLast' = lfFiles[h].before + start + 1 /\ start < lfFiles[h].lines
      BY <1>8
    <3>2. lfFiles[h].before \in Nat /\ lfFiles[h].lines \in Nat /\ start \in Nat
      BY <1>2, <1>3
    <3>3. lfPos' \in Nat /\ lfPos' <= lfFiles[h].lines
      BY <3>1, <3>2
    <3>4. lfLast' = lfFiles[h].before + lfPos'
      BY <3>1, <3>2
    <3>5. lfLast' \in Nat
      BY <3>1, <3>2
    <3> QED
      BY <3>3, <3>4, <3>5
  <2>2. Points(lfPos, lfMtime, lfLast)'
    BY <2>1, <1>6
  <2>3. lfRead'.pos = lfPos' /\ lfRead'.mtime = lfMtime' /\ lfRead' \in [pos : Nat, mtime : Nat]
    BY <1>2, <1>7, <1>8, <2>1
  <2>4. Points(lfRead.pos, lfRead.mtime, lfLast)'
    BY <2>2, <2>3 DEF Points, PointsAt
  <2>5. lfLast' = lfLast + 1
    BY <1>2, <1>3, <1>4, <1>8
  <2>6. LinesInOrder'
    BY <1>8, <2>5 DEF LogInv, LinesInOrder
  <2> QED
    BY <1>2, <1>7, <2>1, <2>2, <2>3, <2>4, <2>6 DEF PositionsTrue
<1>9. CASE start = lfFiles[h].lines /\ lfPos' = start /\ UNCHANGED <<lfLast, lfRead, lfWrong>>
  <2> HIDE DEF start
  <2>1. Points(lfPos, lfMtime, lfLast)'
    BY <1>2, <1>3, <1>4, <1>6, <1>9
  <2>2. lfRead.pos > 0 => Points(lfRead.pos, lfRead.mtime, lfLast)'
    BY <1>1, <1>9 DEF LogInv, PositionsTrue, Points, PointsAt
  <2>3. LinesInOrder'
    BY <1>9 DEF LogInv, LinesInOrder
  <2> QED
    BY <1>1, <1>2, <1>3, <1>7, <1>9, <2>1, <2>2, <2>3 DEF PositionsTrue
<1> QED
  BY <1>8, <1>9 DEF Reading

LEMMA ReadKeeps == LogInv /\ ReadLog => LogInv'
<1> SUFFICES ASSUME LogInv, ReadLog PROVE LogInv'
  OBVIOUS
<1> DEFINE n == Len(lfFiles)
<1>1. lfList' = <<>> /\ UNCHANGED <<lfFiles, lfGone, lfNow>>
  BY DEF ReadLog
<1>2. LogTypes /\ n \in Nat /\ n >= 1 /\ n \in 1 .. n /\ lfGone + 1 \in 1 .. n /\ n \in lfGone + 1 .. n
      /\ lfFiles[n].before \in Nat /\ lfFiles[n].lines \in Nat /\ lfFiles[n].mtime \in Nat
  BY FileFacts DEF LogInv
<1>3. /\ LinesInOrder' /\ PositionsTrue' /\ lfSkip' = FALSE
      /\ {lfPos', lfMtime', lfLast'} \subseteq Nat /\ lfRead' \in [pos : Nat, mtime : Nat]
  <2>1. CASE lfSkip
    <3>1. /\ lfPos' = lfFiles[n].lines /\ lfMtime' = lfFiles[n].mtime
          /\ lfLast' = lfFiles[n].before + lfFiles[n].lines
          /\ lfSkip' = FALSE /\ UNCHANGED <<lfRead, lfWrong>>
      BY <2>1, SkipRead
    <3>2. \A e \in 1 .. n - 1 : lfFiles[e].mtime < lfFiles[n].mtime
      <4> TAKE e \in 1 .. n - 1
      <4>1. e \in DOMAIN lfFiles /\ n \in DOMAIN lfFiles /\ e < n
        BY <1>2, FileFacts
      <4> QED
        BY <4>1 DEF LogInv, FilesInOrder
    <3>3. PointsAt(n, lfPos, lfMtime, lfLast)'
      BY <1>1, <1>2, <3>1, <3>2 DEF PointsAt
    <3>4. Points(lfPos, lfMtime, lfLast)'
      BY <1>1, <1>2, <3>3 DEF Points
    <3>5. lfRead'.pos = 0 /\ lfRead' \in [pos : Nat, mtime : Nat]
      BY <1>2, <2>1, <3>1 DEF LogInv, PositionsTrue, LogTypes
    <3>6. LinesInOrder'
      BY <3>1 DEF LogInv, LinesInOrder
    <3> QED
      BY <1>2, <3>1, <3>4, <3>5, <3>6 DEF PositionsTrue
  <2>2. CASE ~ lfSkip
    <3>1. PICK g \in lfGone + 1 .. n : \E h \in g .. n : Reading(g, h)
      BY <2>2, PointRead
    <3>2. PICK h \in g .. n : Reading(g, h)
      BY <3>1
    <3>3. lfSkip' = FALSE /\ (lfRead' = lfRead \/ lfRead' = [pos |-> lfPos', mtime |-> lfMtime'])
      BY <3>2 DEF Reading
    <3> QED
      BY <1>1, <3>2, <3>3, ReadingKeeps
  <2> QED
    BY <2>1, <2>2
<1>4. LogTypes'
  <2>1. lfList' \in Seq(Entry)
    BY <1>1
  <2>2. lfSkip' \in BOOLEAN
    BY <1>3, Zenon
  <2> QED
    BY <2>1, <2>2, <1>1, <1>2, <1>3 DEF LogTypes
<1>5. FilesInOrder' /\ ListTrue'
  BY <1>1 DEF LogInv, FilesInOrder, ListTrue
<1> QED
  BY <1>3, <1>4, <1>5 DEF LogInv

-----------------------------------------------------------------------------
(* The theorem *)

LEMMA LogInitially == LFInit => LogInv
<1> SUFFICES ASSUME LFInit PROVE LogInv
  OBVIOUS
<1> DEFINE e == [before |-> 0, lines |-> 0, mtime |-> 0]
<1>1. e \in File /\ e.before = 0 /\ e.lines = 0 /\ e.mtime = 0
  BY DEF File
<1>2. lfFiles = <<e>> /\ lfGone = 0 /\ lfNow = 0 /\ lfPos = 0 /\ lfMtime = 0 /\ lfLast = 0 /\ lfSkip \in BOOLEAN
      /\ lfRead = [pos |-> 0, mtime |-> 0] /\ lfList = <<>>
  BY DEF LFInit
<1> HIDE DEF e
<1>3. Len(lfFiles) = 1 /\ lfFiles[1] = e /\ lfFiles \in Seq(File) /\ lfFiles # <<>> /\ DOMAIN lfFiles = 1 .. 1
  BY <1>1, <1>2
<1>4. LogTypes
  <2>1. lfList \in Seq(Entry) /\ lfRead \in [pos : Nat, mtime : Nat]
    BY <1>2
  <2> QED
    BY <1>2, <1>3, <2>1 DEF LogTypes
<1>5. FilesInOrder
  BY <1>1, <1>2, <1>3 DEF FilesInOrder
<1>6. Points(0, 0, 0)
  <2>1. PointsAt(1, 0, 0, 0)
    BY <1>1, <1>3 DEF PointsAt
  <2> QED
    BY <1>2, <1>3, <2>1 DEF Points
<1>7. ListTrue /\ PositionsTrue
  BY <1>2, <1>6 DEF ListTrue, PositionsTrue
<1> QED
  BY <1>4, <1>5, <1>7 DEF LogInv, LinesInOrder, LFInit

\* Whatever number of lines, rotations, deletions and restarts: the lines are sent
\* one after the other, none left out and none twice, when a second lies between
\* two files and none is renamed while process_logrt has them listed.
THEOREM LogInOrder ==
  ASSUME ~ SameSecond, ~ RotatesInScan
  PROVE  LFSpec => []LinesInOrder
<1>1. LFInit => LogInv
  BY LogInitially
<1>2. LogInv /\ [LFNext]_lfVars => LogInv'
  <2> SUFFICES ASSUME LogInv, [LFNext]_lfVars PROVE LogInv'
    OBVIOUS
  <2>1. CASE AppendLine
    BY <2>1, AppendKeeps
  <2>2. CASE Rotate
    BY <2>2, RotateKeeps
  <2>3. CASE DeleteOldest
    BY <2>3, DeleteKeeps
  <2>4. CASE LogTick
    BY <2>4, TickKeeps
  <2>5. CASE add_logfile
    BY <2>5, ListKeeps
  <2>6. CASE ReadLog
    BY <2>6, ReadKeeps
  <2>7. CASE LogRestart
    BY <2>7, LogRestartKeeps
  <2>8. CASE UNCHANGED lfVars
    BY <2>8 DEF lfVars, LogInv, LogTypes, FilesInOrder, ListTrue, Shows, PositionsTrue, Points, PointsAt, LinesInOrder
  <2> QED
    BY <2>1, <2>2, <2>3, <2>4, <2>5, <2>6, <2>7, <2>8 DEF LFNext
<1>3. LogInv => LinesInOrder
  BY DEF LogInv
<1> QED
  BY <1>1, <1>2, <1>3, PTL DEF LFSpec

-----------------------------------------------------------------------------
(* Sequences *)

\* RemoveAt takes one element out and leaves the others in their order.
LEMMA RemoveLaws ==
  ASSUME NEW T, NEW s \in Seq(T), NEW v \in 1 .. Len(s)
  PROVE  /\ RemoveAt(s, v) \in Seq(T)
         /\ Len(RemoveAt(s, v)) = Len(s) - 1
         /\ \A k \in 1 .. Len(s) - 1 : RemoveAt(s, v)[k] = IF k < v THEN s[k] ELSE s[k + 1]
<1> DEFINE a == SubSeq(s, 1, v - 1)
           b == SubSeq(s, v + 1, Len(s))
<1>1. /\ a \in Seq(T) /\ Len(a) = v - 1
      /\ \A k \in 1 .. v - 1 : a[k] = s[k]
  <2>1. \A i \in 1 .. v - 1 : s[i] \in T
    OBVIOUS
  <2>2. v - 1 \in Int
    OBVIOUS
  <2> QED
    BY <2>1, <2>2, SubSeqProperties
<1>2. /\ b \in Seq(T) /\ Len(b) = Len(s) - v
      /\ \A k \in 1 .. Len(s) - v : b[k] = s[v + k]
  <2>1. \A i \in v + 1 .. Len(s) : s[i] \in T
    OBVIOUS
  <2>2. v + 1 \in Int /\ Len(s) \in Int
    OBVIOUS
  <2> QED
    BY <2>1, <2>2, SubSeqProperties
<1> HIDE DEF a, b
<1>3. /\ a \o b \in Seq(T) /\ Len(a \o b) = Len(s) - 1
      /\ \A k \in 1 .. Len(s) - 1 : (a \o b)[k] = IF k < v THEN s[k] ELSE s[k + 1]
  <2>1. /\ a \o b \in Seq(T)
        /\ Len(a \o b) = Len(a) + Len(b)
        /\ \A k \in 1 .. Len(a) + Len(b) : (a \o b)[k] = IF k <= Len(a) THEN a[k] ELSE b[k - Len(a)]
    BY <1>1, <1>2, ConcatProperties
  <2>2. Len(a) + Len(b) = Len(s) - 1 /\ Len(s) \in Nat
    BY <1>1, <1>2
  <2>3. ASSUME NEW k \in 1 .. Len(s) - 1
        PROVE  (a \o b)[k] = IF k < v THEN s[k] ELSE s[k + 1]
    <3>1. (a \o b)[k] = IF k <= v - 1 THEN a[k] ELSE b[k - (v - 1)]
      BY <2>1, <2>2, <1>1
    <3>2. CASE k <= v - 1
      BY <3>1, <3>2, <1>1
    <3>3. CASE k > v - 1
      <4>1. k - (v - 1) \in 1 .. Len(s) - v /\ v + (k - (v - 1)) = k + 1
        BY <3>3, <2>2
      <4> QED
        BY <4>1, <3>1, <3>3, <1>2
    <3> QED
      BY <3>2, <3>3, <2>2
  <2> QED
    BY <2>1, <2>2, <2>3
<1> QED
  BY <1>3 DEF RemoveAt, a, b

-----------------------------------------------------------------------------
(* The buffer of the agent *)

\* An element of the buffer (ACTIVE_BUFFER_ELEMENT)
Element == [key : AgKeys \cup {LogKey}, line : Nat, pos : Nat, persistent : BOOLEAN]

AgTypes ==
    /\ agMetric \in {"none", "normal", "notsupported"}
    /\ agPos \in Nat /\ agSrvPos \in Nat /\ agPcount \in Nat
    /\ agBuffer \in Seq(Element)

\* Positions of the persistent elements of a buffer
Persistent(buf) == {k \in DOMAIN buf : buf[k].persistent}

\* The persistent elements are the lines of the log.
OnlyLines(buf) ==
    \A k \in DOMAIN buf : /\ buf[k].persistent => buf[k].key = LogKey
                          /\ buf[k].line # 0 => buf[k].persistent

\* The buffer is not too long, and its counter not too small.
Counted(buf, pcount) ==
    /\ Len(buf) <= CONFIG_BUFFER_SIZE
    /\ Cardinality(Persistent(buf)) <= pcount /\ pcount <= Half

\* No value of the log is ahead of the position.
NotAhead(buf) == \A k \in DOMAIN buf : buf[k].key = LogKey => buf[k].pos <= agPos

\* Where the server stands, and a restarted agent goes on
ServerKept == \A n \in 1 .. agSrvPos : n \in agGot \cup agGone \cup agOusted

\* A restarted agent has no values before its first list of checks.
FreshStart == agMetric = "none" => agBuffer = <<>>

AgInv ==
    /\ AgTypes /\ OnlyLines(agBuffer) /\ Counted(agBuffer, agPcount)
    /\ NotAhead(agBuffer) /\ ServerKept /\ FreshStart /\ LinesKept

\* There is a half of the buffer for lines and another for the rest.
LEMMA HalfBounds == Half \in Nat /\ 1 <= Half /\ Half < CONFIG_BUFFER_SIZE
  BY AgentBufferAssumption DEF Half

LEMMA PersistentFinite ==
  ASSUME NEW buf \in Seq(Element)
  PROVE  IsFiniteSet(Persistent(buf)) /\ Cardinality(Persistent(buf)) \in Nat
<1>1. IsFiniteSet(1 .. Len(buf)) /\ Persistent(buf) \in SUBSET (1 .. Len(buf))
  BY FS_Interval DEF Persistent
<1> QED
  BY <1>1, FS_Subset, FS_CardinalityType

\* process_value appends: one persistent element more, or none.
LEMMA AppendCounts ==
  ASSUME NEW buf \in Seq(Element), NEW el \in Element
  PROVE  Cardinality(Persistent(Append(buf, el))) =
            IF el.persistent THEN Cardinality(Persistent(buf)) + 1 ELSE Cardinality(Persistent(buf))
<1> DEFINE new == Append(buf, el)
           n == Len(buf) + 1
<1>1. /\ DOMAIN new = 1 .. n /\ DOMAIN buf = 1 .. Len(buf) /\ n \notin 1 .. Len(buf)
      /\ \A k \in 1 .. Len(buf) : new[k] = buf[k]
      /\ new[n] = el
  BY AppendProperties
<1>2. 1 .. n = (1 .. Len(buf)) \cup {n}
  OBVIOUS
<1> HIDE DEF new, n
<1>3. CASE el.persistent
  <2>1. Persistent(new) = Persistent(buf) \cup {n} /\ n \notin Persistent(buf)
    BY <1>1, <1>2, <1>3 DEF Persistent
  <2> QED
    BY <2>1, <1>3, PersistentFinite, FS_AddElement DEF new
<1>4. CASE ~el.persistent
  <2>1. Persistent(new) = Persistent(buf)
    BY <1>1, <1>2, <1>4 DEF Persistent
  <2> QED
    BY <2>1, <1>4 DEF new
<1> QED
  BY <1>3, <1>4

\* The element that gives way takes no persistent element more into the count.
LEMMA RemoveCounts ==
  ASSUME NEW buf \in Seq(Element), NEW v \in 1 .. Len(buf)
  PROVE  Cardinality(Persistent(RemoveAt(buf, v))) <= Cardinality(Persistent(buf))
<1> DEFINE new == RemoveAt(buf, v)
           f == [k \in Persistent(new) |-> IF k < v THEN k ELSE k + 1]
<1>1. /\ new \in Seq(Element) /\ Len(new) = Len(buf) - 1
      /\ \A k \in 1 .. Len(buf) - 1 : new[k] = IF k < v THEN buf[k] ELSE buf[k + 1]
  BY RemoveLaws
<1> HIDE DEF new
<1>2. Persistent(new) \subseteq 1 .. Len(buf) - 1
  BY <1>1 DEF Persistent
<1>3. \A k \in Persistent(new) : f[k] \in Persistent(buf)
  <2> SUFFICES ASSUME NEW k \in Persistent(new)
               PROVE  (IF k < v THEN k ELSE k + 1) \in Persistent(buf)
    OBVIOUS
  <2>1. k \in 1 .. Len(buf) - 1 /\ new[k].persistent
    BY <1>2 DEF Persistent
  <2> QED
    BY <2>1, <1>1 DEF Persistent
<1>4. \A k, l \in Persistent(new) : f[k] = f[l] => k = l
  BY <1>2
<1>5. f \in Injection(Persistent(new), Persistent(buf))
  BY <1>3, <1>4 DEF Injection, IsInjective
<1> HIDE DEF f
<1> QED
  BY <1>5, PersistentFinite, FS_Injection DEF new

\* Lines are at most one half: a full buffer has an element that is not persistent.
LEMMA RoomLeft ==
  ASSUME NEW buf \in Seq(Element), NEW pcount \in Nat, Counted(buf, pcount),
         Len(buf) = CONFIG_BUFFER_SIZE
  PROVE  \E k \in DOMAIN buf : ~buf[k].persistent
<1> SUFFICES ASSUME \A k \in DOMAIN buf : buf[k].persistent
             PROVE  FALSE
  OBVIOUS
<1>1. Persistent(buf) = 1 .. Len(buf)
  BY DEF Persistent
<1>2. Cardinality(Persistent(buf)) = CONFIG_BUFFER_SIZE
  BY <1>1, FS_Interval, AgentBufferAssumption
<1> QED
  BY <1>2, HalfBounds, AgentBufferAssumption DEF Counted

\* process_value finds the element that gives way: for a line one that is not
\* persistent, for another value one of its own key or one that is not persistent.
LEMMA VictimFound ==
  ASSUME NEW buf \in Seq(Element), NEW el \in Element, NEW pcount \in Nat,
         Counted(buf, pcount), Len(buf) = CONFIG_BUFFER_SIZE
  PROVE  /\ VictimOf(buf, el) \in 1 .. Len(buf)
         /\ buf[VictimOf(buf, el)].persistent => ~el.persistent /\ buf[VictimOf(buf, el)].key = el.key
<1> DEFINE same == {k \in DOMAIN buf : buf[k].key = el.key}
           plain == {k \in DOMAIN buf : ~buf[k].persistent}
<1>1. same \subseteq Nat /\ plain \subseteq Nat /\ plain # {}
  BY RoomLeft
<1>2. Min(plain) \in plain
  BY <1>1, LeastNatural
<1>3. CASE ~el.persistent /\ same # {}
  <2>1. Min(same) \in same
    BY <1>1, <1>3, LeastNatural
  <2> QED
    BY <2>1, <1>3 DEF VictimOf
<1>4. CASE ~(~el.persistent /\ same # {})
  BY <1>2, <1>4 DEF VictimOf
<1> QED
  BY <1>3, <1>4

\* What process_value may be given: only lines of the log are persistent, and there
\* is still room in their half.
MayAdd(el, pcount) ==
    /\ el \in Element
    /\ el.persistent => el.key = LogKey /\ pcount < Half
    /\ el.line # 0 => el.persistent

\* The buffer after process_value: well formed and counted, only with what was there
\* and the new element; a line gives way only to a value of the log itself.
LEMMA AddedSound ==
  ASSUME NEW buf \in Seq(Element), NEW pcount \in Nat, NEW el,
         OnlyLines(buf), Counted(buf, pcount), MayAdd(el, pcount)
  PROVE  /\ Added(buf, el) \in Seq(Element)
         /\ OnlyLines(Added(buf, el))
         /\ Counted(Added(buf, el), IF el.persistent THEN pcount + 1 ELSE pcount)
         /\ \A k \in DOMAIN Added(buf, el) :
               Added(buf, el)[k] = el \/ \E j \in DOMAIN buf : Added(buf, el)[k] = buf[j]
         /\ LinesIn(Added(buf, el)) \subseteq LinesIn(buf) \cup {el.line}
         /\ el.line # 0 => el.line \in LinesIn(Added(buf, el))
         /\ el.key # LogKey \/ el.persistent => LinesIn(buf) \subseteq LinesIn(Added(buf, el))
<1> DEFINE new == Added(buf, el)
<1>1. \E old \in Seq(Element) :
          /\ new = Append(old, el)
          /\ Len(old) < CONFIG_BUFFER_SIZE
          /\ Cardinality(Persistent(old)) <= Cardinality(Persistent(buf))
          /\ \A k \in 1 .. Len(old) : \E j \in 1 .. Len(buf) : old[k] = buf[j]
          /\ el.key # LogKey \/ el.persistent => LinesIn(buf) \subseteq LinesIn(old)
  <2>1. CASE Len(buf) < CONFIG_BUFFER_SIZE
    <3>1. new = Append(buf, el)
      BY <2>1 DEF Added
    <3>2. Cardinality(Persistent(buf)) <= Cardinality(Persistent(buf))
      BY PersistentFinite
    <3> QED
      BY <2>1, <3>1, <3>2
  <2>2. CASE ~(Len(buf) < CONFIG_BUFFER_SIZE)
    <3> DEFINE v == VictimOf(buf, el)
               old == RemoveAt(buf, v)
    <3>1. Len(buf) = CONFIG_BUFFER_SIZE
      BY <2>2, AgentBufferAssumption DEF Counted
    <3>2. v \in 1 .. Len(buf) /\ (buf[v].persistent => ~el.persistent /\ buf[v].key = el.key)
      BY <3>1, VictimFound DEF MayAdd
    <3> HIDE DEF v
    <3>3. /\ old \in Seq(Element) /\ Len(old) = Len(buf) - 1
          /\ \A k \in 1 .. Len(buf) - 1 : old[k] = IF k < v THEN buf[k] ELSE buf[k + 1]
      BY <3>2, RemoveLaws
    <3>4. Cardinality(Persistent(old)) <= Cardinality(Persistent(buf))
      BY <3>2, RemoveCounts
    <3>5. new = Append(old, el)
      BY <2>2 DEF Added, v
    <3> HIDE DEF old, new
    <3>6. \A k \in 1 .. Len(old) : \E j \in 1 .. Len(buf) : old[k] = buf[j]
      <4> SUFFICES ASSUME NEW k \in 1 .. Len(old)
                   PROVE  \E j \in 1 .. Len(buf) : old[k] = buf[j]
        OBVIOUS
      <4>1. k \in 1 .. Len(buf) /\ k + 1 \in 1 .. Len(buf) /\ k \in 1 .. Len(buf) - 1
        BY <3>3
      <4> QED
        BY <4>1, <3>3
    <3>7. ASSUME el.key # LogKey \/ el.persistent
          PROVE  LinesIn(buf) \subseteq LinesIn(old)
      <4>1. buf[v].line = 0
        BY <3>2, <3>7 DEF OnlyLines, MayAdd
      <4> SUFFICES ASSUME NEW j \in 1 .. Len(buf), buf[j].line # 0
                   PROVE  \E k \in 1 .. Len(old) : old[k].line = buf[j].line
        BY <3>3 DEF LinesIn
      <4>2. CASE j < v
        BY <4>2, <3>2, <3>3
      <4>3. CASE j > v
        <5>1. j - 1 \in 1 .. Len(old) /\ ~(j - 1 < v) /\ (j - 1) + 1 = j
          BY <4>3, <3>2, <3>3
        <5> QED
          BY <5>1, <3>3
      <4> QED
        BY <4>1, <4>2, <4>3, <3>2
    <3>8. Len(old) < CONFIG_BUFFER_SIZE
      BY <3>1, <3>3, AgentBufferAssumption
    <3> QED
      BY <3>3, <3>4, <3>5, <3>6, <3>7, <3>8
  <2> QED
    BY <2>1, <2>2
<1>2. PICK old \in Seq(Element) :
          /\ new = Append(old, el)
          /\ Len(old) < CONFIG_BUFFER_SIZE
          /\ Cardinality(Persistent(old)) <= Cardinality(Persistent(buf))
          /\ \A k \in 1 .. Len(old) : \E j \in 1 .. Len(buf) : old[k] = buf[j]
          /\ el.key # LogKey \/ el.persistent => LinesIn(buf) \subseteq LinesIn(old)
  BY <1>1
<1>3. el \in Element
  BY DEF MayAdd
<1> HIDE DEF new
<1>4. /\ new \in Seq(Element) /\ DOMAIN new = 1 .. Len(old) + 1 /\ Len(new) = Len(old) + 1
      /\ \A k \in 1 .. Len(old) : new[k] = old[k]
      /\ new[Len(old) + 1] = el
      /\ Len(old) \in Nat
  BY <1>2, <1>3, AppendProperties
<1>5. \A k \in DOMAIN new : new[k] = el \/ \E j \in DOMAIN buf : new[k] = buf[j]
  BY <1>2, <1>4
<1>6. OnlyLines(new)
  BY <1>5 DEF OnlyLines, MayAdd
<1>7. Counted(new, IF el.persistent THEN pcount + 1 ELSE pcount)
  <2>1. Cardinality(Persistent(new)) =
          IF el.persistent THEN Cardinality(Persistent(old)) + 1 ELSE Cardinality(Persistent(old))
    BY <1>2, <1>3, AppendCounts
  <2>2. Cardinality(Persistent(old)) <= pcount
    BY <1>2, PersistentFinite DEF Counted
  <2>3. Len(new) <= CONFIG_BUFFER_SIZE
    BY <1>2, <1>4, AgentBufferAssumption
  <2> QED
    BY <2>1, <2>2, <2>3, HalfBounds, PersistentFinite DEF Counted, MayAdd
<1>8. LinesIn(new) \subseteq LinesIn(buf) \cup {el.line}
  BY <1>5 DEF LinesIn
<1>9. el.line # 0 => el.line \in LinesIn(new)
  BY <1>4 DEF LinesIn
<1>10. LinesIn(old) \subseteq LinesIn(new)
  BY <1>4 DEF LinesIn
<1> QED
  BY <1>2, <1>4, <1>5, <1>6, <1>7, <1>8, <1>9, <1>10 DEF new

\* What send_buffer leaves behind when a message was written, or was not
LEMMA SendSound ==
  ASSUME AgInv, NEW due \in BOOLEAN, NEW out \in Outcomes, send_buffer(due, out)
  PROVE  /\ agSrvPos' \in Nat
         /\ \A n \in 1 .. agSrvPos' : n \in agGot' \cup agGone' \cup agOusted
         /\ \A n \in 1 .. agPos : n \in agGot' \cup agGone' \cup agOusted \/ (~Emptied(due, out) /\ n \in LinesIn(agBuffer))
<1> DEFINE logs == {k \in DOMAIN agBuffer : agBuffer[k].key = LogKey}
           arrives == Sends(due) /\ out = "ok"
<1>1. agGot \subseteq agGot' /\ agGone \subseteq agGone'
  BY DEF send_buffer
<1>2. Emptied(due, out) => LinesIn(agBuffer) \subseteq agGot' \cup agGone'
  <2> SUFFICES ASSUME Emptied(due, out)
               PROVE  LinesIn(agBuffer) \subseteq agGot' \cup agGone'
    OBVIOUS
  <2>1. Sends(due) /\ out \in {"ok", "gone"}
    BY DEF Emptied, Outcomes
  <2>2. CASE out = "ok"
    BY <2>1, <2>2 DEF send_buffer
  <2>3. CASE out = "gone"
    BY <2>1, <2>3 DEF send_buffer
  <2> QED
    BY <2>1, <2>2, <2>3
<1>3. \A n \in 1 .. agPos : n \in agGot' \cup agGone' \cup agOusted \/ (~Emptied(due, out) /\ n \in LinesIn(agBuffer))
  <2> SUFFICES ASSUME NEW n \in 1 .. agPos
               PROVE  n \in agGot' \cup agGone' \cup agOusted \/ (~Emptied(due, out) /\ n \in LinesIn(agBuffer))
    OBVIOUS
  <2>1. n \in agGot \cup agGone \cup agOusted \cup LinesIn(agBuffer)
    BY DEF AgInv, LinesKept
  <2> QED
    BY <2>1, <1>1, <1>2
<1>4. CASE arrives /\ logs # {}
  <2>1. logs \subseteq 0 .. Len(agBuffer) /\ Len(agBuffer) \in Nat
    BY DEF AgInv, AgTypes
  <2>2. Max(logs) \in logs
    BY <2>1, <1>4, GreatestNatural
  <2>3. agSrvPos' = agBuffer[Max(logs)].pos
    <3>1. agSrvPos' = IF arrives /\ logs # {} THEN agBuffer[Max(logs)].pos ELSE agSrvPos
      BY DEF send_buffer
    <3> HIDE DEF arrives, logs
    <3> QED
      BY <3>1, <1>4
  <2>4. agSrvPos' \in Nat /\ agSrvPos' <= agPos
    <3>1. agBuffer[Max(logs)] \in Element
      BY <2>2 DEF AgInv, AgTypes
    <3>2. agBuffer[Max(logs)].pos <= agPos
      BY <2>2 DEF AgInv, NotAhead
    <3> HIDE DEF logs
    <3> QED
      BY <3>1, <3>2, <2>3 DEF Element
  <2>5. Emptied(due, out)
    BY <1>4 DEF Emptied
  <2>6. \A n \in 1 .. agSrvPos' : n \in 1 .. agPos
    BY <2>4 DEF AgInv, AgTypes
  <2> QED
    BY <2>4, <2>5, <2>6, <1>3
<1>5. CASE ~(arrives /\ logs # {})
  <2>1. agSrvPos' = agSrvPos
    BY <1>5 DEF send_buffer
  <2> QED
    BY <2>1, <1>1, <1>3 DEF AgInv, AgTypes, ServerKept
<1> QED
  BY <1>4, <1>5

\* process_value, whatever the value: lines stay safe, and the buffer well formed.
LEMMA ValueSound ==
  ASSUME AgInv, NEW due \in BOOLEAN, NEW out \in Outcomes, NEW el \in Element,
         el.persistent => el.key = LogKey, el.line # 0 => el.persistent,
         process_value(due, out, el)
  PROVE  /\ agBuffer' \in Seq(Element) /\ agPcount' \in Nat /\ agSrvPos' \in Nat
         /\ OnlyLines(agBuffer') /\ Counted(agBuffer', agPcount')
         /\ \A n \in 1 .. agSrvPos' : n \in agGot' \cup agGone' \cup agOusted'
         /\ \A n \in 1 .. agPos : n \in agGot' \cup agGone' \cup agOusted' \cup LinesIn(agBuffer')
         /\ ~Full(due, out, el) /\ el.line # 0 => el.line \in LinesIn(agBuffer')
         /\ \A k \in DOMAIN agBuffer' : \/ agBuffer'[k] = el /\ ~Full(due, out, el)
                                        \/ \E j \in DOMAIN agBuffer : agBuffer'[k] = agBuffer[j]
<1> DEFINE buf == IF Emptied(due, out) THEN <<>> ELSE agBuffer
           pcount == IF Emptied(due, out) THEN 0 ELSE agPcount
<1>1. send_buffer(due, out)
  BY DEF process_value
<1>2. /\ buf \in Seq(Element) /\ pcount \in Nat /\ OnlyLines(buf) /\ Counted(buf, pcount)
      /\ \A k \in DOMAIN buf : buf = agBuffer
  <2>1. CASE Emptied(due, out)
    <3>1. buf = <<>> /\ pcount = 0 /\ Persistent(<<>>) = {}
      BY <2>1 DEF Persistent
    <3>2. Cardinality(Persistent(<<>>)) = 0
      BY <3>1, FS_EmptySet
    <3> HIDE DEF buf, pcount
    <3> QED
      BY <3>1, <3>2, HalfBounds, AgentBufferAssumption DEF OnlyLines, Counted
  <2>2. CASE ~Emptied(due, out)
    BY <2>2 DEF AgInv, AgTypes
  <2> QED
    BY <2>1, <2>2
<1>3. \A n \in 1 .. agPos : n \in agGot' \cup agGone' \cup agOusted \cup LinesIn(buf)
  BY <1>1, SendSound
<1>4. agSrvPos' \in Nat /\ \A n \in 1 .. agSrvPos' : n \in agGot' \cup agGone' \cup agOusted
  BY <1>1, SendSound
<1>5. CASE Full(due, out, el)
  <2>1. agBuffer' = buf /\ agPcount' = pcount /\ agOusted' = agOusted
    BY <1>5 DEF process_value
  <2> HIDE DEF buf, pcount
  <2> QED
    BY <2>1, <1>2, <1>3, <1>4, <1>5
<1>6. CASE ~Full(due, out, el)
  <2>1. /\ agBuffer' = Added(buf, el)
        /\ agPcount' = IF el.persistent THEN pcount + 1 ELSE pcount
        /\ agOusted' = agOusted \cup (IF el.key = LogKey /\ ~el.persistent
                                      THEN LinesIn(buf) \ LinesIn(agBuffer') ELSE {})
    BY <1>6 DEF process_value
  <2>2. MayAdd(el, pcount)
    BY <1>6, HalfBounds DEF MayAdd, Full, AgInv, AgTypes
  <2> HIDE DEF buf, pcount
  <2>3. /\ Added(buf, el) \in Seq(Element)
        /\ OnlyLines(Added(buf, el))
        /\ Counted(Added(buf, el), IF el.persistent THEN pcount + 1 ELSE pcount)
        /\ \A k \in DOMAIN Added(buf, el) :
              Added(buf, el)[k] = el \/ \E j \in DOMAIN buf : Added(buf, el)[k] = buf[j]
        /\ el.line # 0 => el.line \in LinesIn(Added(buf, el))
        /\ el.key # LogKey \/ el.persistent => LinesIn(buf) \subseteq LinesIn(Added(buf, el))
    BY <1>2, <2>2, AddedSound
  <2>4. \A n \in 1 .. agPos : n \in agGot' \cup agGone' \cup agOusted' \cup LinesIn(agBuffer')
    BY <2>1, <2>3, <1>3
  <2>5. \A n \in 1 .. agSrvPos' : n \in agGot' \cup agGone' \cup agOusted'
    BY <2>1, <1>4
  <2>6. \A k \in DOMAIN agBuffer' : agBuffer'[k] = el \/ \E j \in DOMAIN agBuffer : agBuffer'[k] = agBuffer[j]
    BY <2>1, <2>3, <1>2
  <2>7. agPcount' \in Nat
    BY <2>1, <1>2
  <2> QED
    BY <2>1, <2>3, <2>4, <2>5, <2>6, <2>7, <1>4, <1>6
<1> QED
  BY <1>5, <1>6

\* process_value moves nothing but the buffer and what the server knows: with a position
\* that is at least the old one and that the new value is not ahead of, all goes on.
LEMMA ValueKeeps ==
  ASSUME AgInv, NEW due \in BOOLEAN, NEW out \in Outcomes, NEW el \in Element,
         el.persistent => el.key = LogKey, el.line # 0 => el.persistent,
         process_value(due, out, el),
         agMetric \in {"normal", "notsupported"}, agMetric' \in {"normal", "notsupported"},
         agPos' \in Nat, agPos' >= agPos,
         el.key = LogKey /\ ~Full(due, out, el) => el.pos <= agPos',
         \A n \in 1 .. agPos' : n > agPos => n = el.line /\ ~Full(due, out, el)
  PROVE  AgInv'
<1>1. /\ agBuffer' \in Seq(Element) /\ agPcount' \in Nat /\ agSrvPos' \in Nat
      /\ OnlyLines(agBuffer') /\ Counted(agBuffer', agPcount')
      /\ \A n \in 1 .. agSrvPos' : n \in agGot' \cup agGone' \cup agOusted'
      /\ \A n \in 1 .. agPos : n \in agGot' \cup agGone' \cup agOusted' \cup LinesIn(agBuffer')
      /\ ~Full(due, out, el) /\ el.line # 0 => el.line \in LinesIn(agBuffer')
      /\ \A k \in DOMAIN agBuffer' : \/ agBuffer'[k] = el /\ ~Full(due, out, el)
                                     \/ \E j \in DOMAIN agBuffer : agBuffer'[k] = agBuffer[j]
  BY ValueSound
<1>2. agPos \in Nat
  BY DEF AgInv, AgTypes
<1>3. AgTypes' /\ FreshStart'
  BY <1>1 DEF AgTypes, FreshStart
<1>4. NotAhead(agBuffer)'
  <2> SUFFICES ASSUME NEW k \in DOMAIN agBuffer', agBuffer'[k].key = LogKey
               PROVE  agBuffer'[k].pos <= agPos'
    BY DEF NotAhead
  <2>1. CASE agBuffer'[k] = el /\ ~Full(due, out, el)
    BY <2>1
  <2>2. CASE \E j \in DOMAIN agBuffer : agBuffer'[k] = agBuffer[j]
    <3>1. PICK j \in DOMAIN agBuffer : agBuffer'[k] = agBuffer[j]
      BY <2>2
    <3>2. agBuffer[j].pos <= agPos /\ agBuffer[j] \in Element
      BY <3>1 DEF AgInv, AgTypes, NotAhead
    <3>3. agBuffer[j].pos \in Nat
      BY <3>2 DEF Element
    <3> QED
      BY <3>1, <3>2, <3>3, <1>2
  <2> QED
    BY <2>1, <2>2, <1>1
<1>5. LinesKept'
  <2> SUFFICES ASSUME NEW n \in 1 .. agPos'
               PROVE  n \in agGot' \cup agGone' \cup agOusted' \cup LinesIn(agBuffer')
    BY DEF LinesKept, LinesIn
  <2>1. CASE n <= agPos
    <3>1. n \in 1 .. agPos
      BY <2>1, <1>2
    <3> QED
      BY <3>1, <1>1
  <2>2. CASE n > agPos
    <3>1. n = el.line /\ ~Full(due, out, el) /\ n # 0
      BY <2>2, <1>2
    <3> QED
      BY <3>1, <1>1
  <2> QED
    BY <2>1, <2>2, <1>2
<1> QED
  BY <1>1, <1>3, <1>4, <1>5 DEF AgInv, ServerKept, OnlyLines, Counted, Persistent

\* The agent starts with an empty buffer and the position 0.
LEMMA AgInitSound == AgInit => AgInv
<1> SUFFICES ASSUME AgInit PROVE AgInv
  OBVIOUS
<1>1. Persistent(agBuffer) = {} /\ agBuffer = <<>> /\ agPcount = 0
  BY DEF AgInit, Persistent
<1>2. Cardinality(Persistent(agBuffer)) = 0
  BY <1>1, FS_EmptySet
<1>3. Counted(agBuffer, agPcount)
  BY <1>1, <1>2, HalfBounds, AgentBufferAssumption DEF Counted
<1>4. AgTypes /\ FreshStart /\ OnlyLines(agBuffer) /\ NotAhead(agBuffer)
  BY <1>1 DEF AgInit, AgTypes, FreshStart, OnlyLines, NotAhead
<1>5. ServerKept /\ LinesKept
  BY DEF AgInit, ServerKept, LinesKept
<1> QED
  BY <1>3, <1>4, <1>5 DEF AgInv

\* send_buffer alone
LEMMA SendAloneKeeps ==
  ASSUME AgInv, NEW due \in BOOLEAN, NEW out \in Outcomes, SendAlone(due, out)
  PROVE  AgInv'
<1>1. /\ agSrvPos' \in Nat
      /\ \A n \in 1 .. agSrvPos' : n \in agGot' \cup agGone' \cup agOusted
      /\ \A n \in 1 .. agPos : n \in agGot' \cup agGone' \cup agOusted
                                \/ (~Emptied(due, out) /\ n \in LinesIn(agBuffer))
  BY SendSound DEF SendAlone
<1>2. agPos' = agPos /\ agMetric' = agMetric /\ agOusted' = agOusted
  BY DEF SendAlone
<1>3. ServerKept'
  BY <1>1, <1>2 DEF ServerKept
<1>4. CASE Emptied(due, out)
  <2>1. agBuffer' = <<>> /\ agPcount' = 0
    BY <1>4 DEF SendAlone
  <2>2. Persistent(agBuffer') = {}
    BY <2>1 DEF Persistent
  <2>3. Cardinality(Persistent(agBuffer')) = 0
    BY <2>2, FS_EmptySet
  <2>4. Counted(agBuffer, agPcount)'
    BY <2>1, <2>3, HalfBounds, AgentBufferAssumption DEF Counted, Persistent
  <2>5. AgTypes' /\ FreshStart' /\ OnlyLines(agBuffer)' /\ NotAhead(agBuffer)'
    BY <2>1, <1>1, <1>2 DEF AgInv, AgTypes, FreshStart, OnlyLines, NotAhead
  <2>6. LinesKept'
    BY <1>1, <1>2, <1>4 DEF LinesKept
  <2> QED
    BY <2>4, <2>5, <2>6, <1>3 DEF AgInv
<1>5. CASE ~Emptied(due, out)
  <2>1. agBuffer' = agBuffer /\ agPcount' = agPcount
    BY <1>5 DEF SendAlone
  <2>2. AgTypes' /\ FreshStart' /\ OnlyLines(agBuffer)' /\ NotAhead(agBuffer)' /\ Counted(agBuffer, agPcount)'
    BY <2>1, <1>1, <1>2 DEF AgInv, AgTypes, FreshStart, OnlyLines, NotAhead, Counted, Persistent
  <2>3. LinesKept'
    BY <2>1, <1>1, <1>2 DEF LinesKept, LinesIn
  <2> QED
    BY <2>2, <2>3, <1>3 DEF AgInv
<1> QED
  BY <1>4, <1>5

\* process_active_checks with a line of the log
LEMMA ReadLineKeeps ==
  ASSUME AgInv, NEW due \in BOOLEAN, NEW out \in Outcomes, ReadLine(due, out)
  PROVE  AgInv'
<1> DEFINE el == [key |-> LogKey, line |-> agPos + 1, pos |-> agPos + 1, persistent |-> TRUE]
<1>1. agPos \in Nat /\ el \in Element /\ el.key = LogKey /\ el.line = agPos + 1 /\ el.pos = agPos + 1
  BY DEF AgInv, AgTypes, Element
<1>2. /\ process_value(due, out, el) /\ agMetric = "normal" /\ agMetric' = "normal"
      /\ agPos' = IF Full(due, out, el) THEN agPos ELSE agPos + 1
  BY DEF ReadLine
<1>3. el.persistent
  OBVIOUS
<1> HIDE DEF el
<1>4. \A n \in 1 .. agPos' : n > agPos => n = el.line /\ ~Full(due, out, el)
  BY <1>1, <1>2
<1> QED
  BY <1>1, <1>2, <1>3, <1>4, ValueKeeps

\* process_active_checks with a value that is not a line: the log's "not supported" or
\* that of another check
LEMMA OtherValueKeeps ==
  ASSUME AgInv, NEW due \in BOOLEAN, NEW out \in Outcomes,
         LogFails(due, out) \/ \E k \in AgKeys : PlainValue(k, due, out)
  PROVE  AgInv'
<1> DEFINE Given(el) == /\ el \in Element /\ process_value(due, out, el) /\ agPos' = agPos
                        /\ ~el.persistent /\ el.line = 0 /\ (el.key = LogKey => el.pos = agPos)
<1>1. \E el : Given(el)
  <2>1. CASE LogFails(due, out)
    <3> DEFINE el == [key |-> LogKey, line |-> 0, pos |-> agPos, persistent |-> FALSE]
    <3>1. el \in Element /\ ~el.persistent /\ el.line = 0 /\ el.pos = agPos
      BY DEF AgInv, AgTypes, Element
    <3>2. process_value(due, out, el) /\ agPos' = agPos
      BY <2>1 DEF LogFails
    <3> HIDE DEF el
    <3> QED
      BY <3>1, <3>2
  <2>2. ASSUME NEW k \in AgKeys, PlainValue(k, due, out)
        PROVE  \E el : Given(el)
    <3> DEFINE el == [key |-> k, line |-> 0, pos |-> 0, persistent |-> FALSE]
    <3>1. el \in Element /\ ~el.persistent /\ el.line = 0 /\ el.key # LogKey
      BY AgentBufferAssumption DEF Element
    <3>2. process_value(due, out, el) /\ agPos' = agPos
      BY <2>2 DEF PlainValue
    <3> HIDE DEF el
    <3> QED
      BY <3>1, <3>2
  <2> QED
    BY <2>1, <2>2
<1>2. PICK el : Given(el)
  BY <1>1
<1>3. agMetric \in {"normal", "notsupported"} /\ agMetric' \in {"normal", "notsupported"}
  BY DEF LogFails, PlainValue, AgInv, AgTypes
<1>4. agPos \in Nat
  BY DEF AgInv, AgTypes
<1>5. /\ agPos' \in Nat /\ agPos' >= agPos
      /\ el.key = LogKey => el.pos <= agPos'
      /\ \A n \in 1 .. agPos' : ~(n > agPos)
  BY <1>2, <1>4
<1> QED
  BY <1>2, <1>3, <1>5, ValueKeeps

\* A new list of checks, a restart, a new line in the file
LEMMA RefreshKeeps == AgInv /\ refresh_active_checks => AgInv'
<1> SUFFICES ASSUME AgInv, refresh_active_checks PROVE AgInv'
  OBVIOUS
<1>1. /\ agMetric' = "normal" /\ agPos' = IF agMetric = "none" THEN agSrvPos ELSE agPos
      /\ agBuffer' = agBuffer /\ agPcount' = agPcount /\ agSrvPos' = agSrvPos
      /\ agGot' = agGot /\ agGone' = agGone /\ agOusted' = agOusted
  BY DEF refresh_active_checks
<1>2. AgTypes' /\ FreshStart' /\ OnlyLines(agBuffer)' /\ Counted(agBuffer, agPcount)' /\ ServerKept'
  BY <1>1 DEF AgInv, AgTypes, FreshStart, OnlyLines, Counted, Persistent, ServerKept
<1>3. NotAhead(agBuffer)'
  BY <1>1 DEF AgInv, NotAhead, FreshStart
<1>4. LinesKept'
  BY <1>1 DEF AgInv, LinesKept, ServerKept, LinesIn
<1> QED
  BY <1>2, <1>3, <1>4 DEF AgInv

LEMMA RestartKeeps == AgInv /\ AgentRestart => AgInv'
<1> SUFFICES ASSUME AgInv, AgentRestart PROVE AgInv'
  OBVIOUS
<1>1. /\ agMetric' = "none" /\ agPos' = 0 /\ agBuffer' = <<>> /\ agPcount' = 0
      /\ agSrvPos' = agSrvPos /\ agGot' = agGot /\ agGone' = agGone /\ agOusted' = agOusted
  BY DEF AgentRestart
<1>2. Cardinality(Persistent(<<>>)) = 0
  <2>1. Persistent(<<>>) = {}
    BY DEF Persistent
  <2> QED
    BY <2>1, FS_EmptySet
<1>3. Counted(agBuffer, agPcount)'
  BY <1>1, <1>2, HalfBounds, AgentBufferAssumption DEF Counted, Persistent
<1>4. AgTypes' /\ FreshStart' /\ OnlyLines(agBuffer)' /\ NotAhead(agBuffer)' /\ ServerKept' /\ LinesKept'
  BY <1>1 DEF AgInv, AgTypes, FreshStart, OnlyLines, NotAhead, ServerKept, LinesKept
<1> QED
  BY <1>3, <1>4 DEF AgInv

\* Every step of the agent keeps the invariant.
LEMMA AgStep == AgInv /\ [AgNext]_agVars => AgInv'
<1> SUFFICES ASSUME AgInv, [AgNext]_agVars PROVE AgInv'
  OBVIOUS
<1>1. CASE LineWritten \/ UNCHANGED agVars
  <2>1. /\ agMetric' = agMetric /\ agPos' = agPos /\ agBuffer' = agBuffer /\ agPcount' = agPcount
        /\ agSrvPos' = agSrvPos /\ agGot' = agGot /\ agGone' = agGone /\ agOusted' = agOusted
    BY <1>1 DEF LineWritten, agVars
  <2> QED
    BY <2>1 DEF AgInv, AgTypes, FreshStart, OnlyLines, Counted, Persistent, NotAhead, ServerKept, LinesKept, LinesIn
<1>2. CASE AgNext
  BY <1>1, <1>2, RefreshKeeps, RestartKeeps, SendAloneKeeps, ReadLineKeeps, OtherValueKeeps DEF AgNext
<1> QED
  BY <1>1, <1>2

\* Every line up to the position is in the buffer or with the server, unless its message
\* was given up or its log's own "not supported" value has taken its place; and
\* process_value finds room for every value it accepts, because lines are counted in
\* pcount and fill at most one half.
THEOREM BufferKeeps == AgSpec => []BufferSound
<1>1. AgInv => BufferSound
  <2> SUFFICES ASSUME AgInv PROVE BufferSound
    OBVIOUS
  <2>1. Len(agBuffer) = CONFIG_BUFFER_SIZE => \E k \in DOMAIN agBuffer : ~agBuffer[k].persistent
    BY RoomLeft DEF AgInv, AgTypes
  <2> QED
    BY <2>1 DEF AgInv, BufferSound, RoomForAll, Counted, Persistent
<1> QED
  BY <1>1, AgInitSound, AgStep, PTL DEF AgSpec

-----------------------------------------------------------------------------
(* The upload of a proxy *)

RowType == [st : {"none", "open", "done", "deleted"}, item : PUItems \cup {"none"},
            clock : Nat, by : PUSyncers \cup {"none"}]
ReaderType == [pc : {"idle", "read", "send", "set"}, id : Nat, lastid : Nat, batch : SUBSET Ids,
               lim : Nat, retries : {0, 1}]

PUTypes ==
    /\ puRows \in [Ids -> RowType] /\ puNextId \in Nat \ {0} /\ puLast \in Nat
    /\ puRead \in [PUReaders -> ReaderType]
    /\ puItems \subseteq PUItems /\ puNow \in Nat
    /\ puGot \in [Ids -> Nat] /\ puFaults \in Nat

\* The ids of rows are those that the database has given.
RowsBefore == \A n \in Ids : puRows[n].st \in {"open", "done"} => n < puNextId

\* A committed row with this id or a greater one is there: the housekeeper leaves it.
Backed(id) == id = 0 \/ \E n \in Committed : id <= n

\* A row that need not be sent any more
PassedOver(n) == n \in puLate \cup puExcused \/ puGot[n] > 0

\* What is up to id is sent, in the message, or not committed and known to be late.
SettledTo(id, message) ==
    \A n \in Ids : n <= id =>
        /\ puRows[n].st = "done" => PassedOver(n) \/ n \in message
        /\ puRows[n].st = "open" => n \in puLate

ReaderSound(rd) ==
    /\ rd.pc = "read" =>
          /\ Backed(rd.id) /\ SettledTo(rd.id, rd.batch) /\ rd.lim > 0
          /\ \A n \in rd.batch : n <= rd.id
          /\ IF rd.retries = 0 THEN Backed(rd.lastid) /\ rd.id < rd.lastid ELSE rd.batch = {}
    /\ rd.pc = "send" => Backed(rd.lastid) /\ SettledTo(rd.lastid, rd.batch)
    /\ rd.pc = "set" => Backed(rd.lastid) /\ SettledTo(rd.lastid, {})

\* Reader r may still send row n.
MaySend(r, n) ==
    \/ puRead[r].pc = "read" /\ (n > puRead[r].id \/ n \in puRead[r].batch)
    \/ puRead[r].pc = "send" /\ n \in puRead[r].batch

\* Row n is beyond what reader r passes, or within.
Beyond(r, n) == puRead[r].pc \in {"send", "set"} /\ n > puRead[r].lastid
Within(r, n) ==
    \/ puRead[r].pc = "read" /\ (n > puRead[r].id \/ n \in puRead[r].batch)
    \/ puRead[r].pc \in {"send", "set"} /\ n <= puRead[r].lastid

Senders(n) == {r \in PUReaders : MaySend(r, n)}

\* How often row n was processed, or may be by those who read now
Uses(n) == puGot[n] + Cardinality(Senders(n))

\* One use of a row is free, the others are paid with a fault.  The free one is still to
\* come when a reader has left the row out, or when history_lastid is before it and no
\* reader is about to pass it.
UsesCounted(n) ==
    /\ Uses(n) <= 1 + puFaults
    /\ (\E r \in PUReaders : Beyond(r, n)) => Uses(n) <= puFaults
    /\ n > puLast /\ (\A r \in PUReaders : ~Within(r, n)) => Uses(n) <= puFaults

Busy == {r \in PUReaders : puRead[r].pc # "idle"}

PUInv ==
    /\ PUTypes /\ RowsBefore
    /\ Backed(puLast) /\ SettledTo(puLast, {})
    /\ \A r \in PUReaders : ReaderSound(puRead[r])
    /\ IsFiniteSet(Busy)
    /\ \A n \in Ids : UsesCounted(n)

\* The ids are numbers up to MaxRows, so the committed rows have a last one.
LEMMA LastCommitted ==
  /\ Ids \subseteq Nat /\ 0 \notin Ids /\ IsFiniteSet(Ids)
  /\ Committed \subseteq Ids
  /\ Committed # {} => Max(Committed) \in Committed /\ \A n \in Committed : n <= Max(Committed)
<1>1. MaxRows \in Nat
  BY ProxyUploadAssumption
<1>2. Ids \subseteq Nat /\ 0 \notin Ids /\ IsFiniteSet(Ids) /\ Ids \subseteq 0 .. MaxRows
  BY <1>1, FS_Interval DEF Ids
<1>3. Committed \subseteq Ids
  BY DEF Committed
<1> QED
  BY <1>1, <1>2, <1>3, GreatestNatural

\* An id that is backed is one that the database has given.
LEMMA BackedIsBefore ==
  ASSUME PUTypes, RowsBefore, NEW id \in Nat, Backed(id)
  PROVE  id < puNextId
<1>1. CASE id = 0
  BY <1>1 DEF PUTypes
<1>2. CASE \E n \in Committed : id <= n
  <2>1. PICK n \in Committed : id <= n
    BY <1>2
  <2>2. n \in Ids /\ n \in Nat /\ n < puNextId
    BY LastCommitted DEF Committed, RowsBefore
  <2> QED
    BY <2>1, <2>2 DEF PUTypes
<1> QED
  BY <1>1, <1>2 DEF Backed

\* One SELECT gives committed rows after id without leaving one out, gives some if there
\* are any, and fewer than lim before each of them.
LEMMA SelectLaws ==
  ASSUME NEW id \in Nat, NEW lim \in Nat, lim > 0
  PROVE  /\ SelectN(id, lim) \subseteq {n \in Committed : n > id}
         /\ \A n \in Committed : \A m \in SelectN(id, lim) : id < n /\ n <= m => n \in SelectN(id, lim)
         /\ (\E n \in Committed : n > id) => SelectN(id, lim) # {}
         /\ \A m \in SelectN(id, lim) : Cardinality({n \in SelectN(id, lim) : n < m}) < lim
<1> DEFINE rows == {n \in Committed : n > id}
           UpTo(n) == {m \in rows : m <= n}
           ids == SelectN(id, lim)
<1>1. rows \subseteq Nat /\ IsFiniteSet(rows)
  BY LastCommitted, FS_Subset
<1>2. \A n : UpTo(n) \subseteq rows /\ IsFiniteSet(UpTo(n)) /\ Cardinality(UpTo(n)) \in Nat
  BY <1>1, FS_Subset, FS_CardinalityType
<1>3. ids = {n \in rows : Cardinality(UpTo(n)) <= lim}
  BY DEF SelectN
<1> HIDE DEF rows, ids
<1>0. ids \subseteq rows /\ \A m \in ids : m \in Nat /\ Cardinality(UpTo(m)) <= lim
  BY <1>1, <1>3
<1>4. ASSUME NEW n \in rows, NEW m \in ids, n <= m
      PROVE  n \in ids
  <2>1. n \in Nat /\ m \in Nat /\ \A l \in rows : l \in Nat
    BY <1>1, <1>0
  <2>2. \A l \in rows : l <= n => l <= m
    BY <2>1, <1>4
  <2>3. UpTo(n) \subseteq UpTo(m)
    BY <2>2
  <2> DEFINE c == Cardinality(UpTo(n))
             d == Cardinality(UpTo(m))
  <2>4. c \in Nat /\ d \in Nat /\ c <= d /\ d <= lim
    BY <2>3, <1>2, <1>0, FS_Subset
  <2> HIDE DEF c, d
  <2>5. c <= lim
    BY <2>4
  <2> QED
    BY <2>5, <1>3 DEF c
<1>5. ASSUME rows # {}
      PROVE  ids # {}
  <2> DEFINE n == Min(rows)
  <2>1. n \in rows /\ \A m \in rows : n <= m
    BY <1>1, <1>5, LeastNatural
  <2> HIDE DEF n
  <2>2. \A l \in rows : l <= n <=> l = n
    BY <2>1, <1>1
  <2>5. UpTo(n) = {n}
    BY <2>1, <2>2
  <2>3. Cardinality(UpTo(n)) = 1
    BY <2>5, FS_Singleton
  <2>4. Cardinality(UpTo(n)) <= lim
    BY <2>3
  <2> QED
    BY <2>1, <2>4, <1>3
<1>6. ASSUME NEW m \in ids
      PROVE  Cardinality({n \in ids : n < m}) < lim
  <2> DEFINE before == {n \in ids : n < m}
  <2>6. m \in rows /\ m <= m /\ Cardinality(UpTo(m)) <= lim
    BY <1>0
  <2>1. m \in UpTo(m)
    BY <2>6
  <2>8. \A n \in ids : n \in Nat /\ n \in rows
    BY <1>0
  <2>7. \A n \in ids : n < m => n \in rows /\ n <= m /\ n # m
    BY <2>8
  <2>2. before \subseteq UpTo(m) \ {m}
    BY <2>7
  <2>3. IsFiniteSet(UpTo(m) \ {m}) /\ Cardinality(UpTo(m) \ {m}) = Cardinality(UpTo(m)) - 1
    <3> DEFINE U == UpTo(m)
    <3>1. IsFiniteSet(U) /\ m \in U
      BY <2>1, <1>2
    <3> HIDE DEF U
    <3>2. IsFiniteSet(U \ {m}) /\ Cardinality(U \ {m}) = Cardinality(U) - 1
      BY <3>1, FS_RemoveElement
    <3> QED
      BY <3>2 DEF U
  <2> HIDE DEF before
  <2>4. Cardinality(before) <= Cardinality(UpTo(m) \ {m}) /\ Cardinality(before) \in Nat
    BY <2>2, <2>3, FS_Subset, FS_CardinalityType
  <2>5. Cardinality(before) < lim
    BY <2>6, <2>3, <2>4, <1>2
  <2> QED
    BY <2>5 DEF before
<1> QED
  BY <1>3, <1>4, <1>5, <1>6, <1>1 DEF rows, ids

\* What is selected before the first missing row follows on id without a gap.
LEMMA NoGapBefore ==
  ASSUME NEW rd \in ReaderType, NEW ids \in SUBSET Ids, \A n \in ids : n > rd.id,
         Gaps(rd, ids) # {}
  PROVE  LET first == Min(Gaps(rd, ids)) IN
         /\ first \in ids
         /\ \A m \in ids, n \in Nat : m < first /\ rd.id < n /\ n <= m => n \in ids
<1> DEFINE first == Min(Gaps(rd, ids))
<1>1. Gaps(rd, ids) \subseteq ids /\ ids \subseteq Nat
  BY LastCommitted DEF Gaps
<1>2. first \in Gaps(rd, ids) /\ \A m \in Gaps(rd, ids) : first <= m
  BY <1>1, LeastNatural
<1> HIDE DEF first
<1>3. ASSUME NEW m \in ids, NEW n \in Nat, m < first, rd.id < n, n <= m
      PROVE  n \in ids
  <2> DEFINE after == {l \in ids : n <= l}
             l == Min(after)
  <2>1. l \in after /\ \A j \in after : l <= j
    BY <1>1, <1>3, LeastNatural
  <2> HIDE DEF l
  <2>2. l \in ids /\ n <= l /\ l <= m /\ l \in Nat /\ first \in Nat /\ m \in Nat /\ rd.id \in Nat
    BY <2>1, <1>1, <1>2, <1>3 DEF ReaderType
  <2>3. l \notin Gaps(rd, ids)
    BY <2>2, <1>2, <1>3
  <2>4. l - 1 \in ids \cup {rd.id}
    BY <2>2, <2>3 DEF Gaps
  <2>5. l - 1 \notin after
    BY <2>1, <2>2
  <2>6. ~(n <= l - 1)
    BY <2>4, <2>5, <1>3, <2>2
  <2> QED
    BY <2>2, <2>6, <1>3
<1> QED
  BY <1>1, <1>2, <1>3 DEF first

\* What a step may do to the rows: a row is committed when it was open, and a new one
\* has an id that was not given yet.
RowMoves ==
    \A n \in Ids : /\ puRows'[n].st = "done" => puRows[n].st \in {"done", "open"}
                   /\ puRows'[n].st = "open" => puRows[n].st = "open" \/ n >= puNextId

\* Nothing that was sent, late or given up is taken back.
Passing ==
    /\ puLate \subseteq puLate' /\ puExcused \subseteq puExcused'
    /\ \A n \in Ids : puGot[n] <= puGot'[n]

\* What is settled stays settled: a row that is committed later was late, a new one is
\* after every id that is backed.
LEMMA SettledKept ==
  ASSUME PUTypes, RowsBefore, PUTypes', RowMoves, Passing,
         NEW id \in Nat, NEW m \in SUBSET Ids, Backed(id), SettledTo(id, m)
  PROVE  SettledTo(id, m)'
<1>1. id < puNextId
  BY BackedIsBefore
<1>2. ASSUME NEW n \in Ids, n <= id
      PROVE  /\ (puRows[n].st = "done")' => PassedOver(n)' \/ n \in m
             /\ (puRows[n].st = "open")' => n \in puLate'
  <2>1. n \in Nat /\ puNextId \in Nat
    BY LastCommitted DEF PUTypes
  <2>2. ~(n >= puNextId)
    BY <2>1, <1>1, <1>2
  <2>3. /\ puRows[n].st = "done" => PassedOver(n) \/ n \in m
        /\ puRows[n].st = "open" => n \in puLate
    BY <1>2 DEF SettledTo
  <2>4. PassedOver(n) => PassedOver(n)'
    <3>1. puGot[n] \in Nat /\ puGot'[n] \in Nat /\ puGot[n] <= puGot'[n]
      BY DEF PUTypes, Passing
    <3> QED
      BY <3>1 DEF PassedOver, Passing
  <2>5. n \in puLate => n \in puLate' /\ PassedOver(n)'
    BY DEF Passing, PassedOver
  <2> QED
    BY <2>2, <2>3, <2>4, <2>5 DEF RowMoves
<1> QED
  BY <1>2 DEF SettledTo

\* A reader that does nothing stays sound.
LEMMA ReaderKept ==
  ASSUME PUTypes, RowsBefore, PUTypes', RowMoves, Passing,
         \A id \in Nat : Backed(id) => Backed(id)',
         NEW r \in PUReaders, ReaderSound(puRead[r]), puRead'[r] = puRead[r]
  PROVE  ReaderSound(puRead[r])'
<1> DEFINE rd == puRead[r]
<1>1. rd \in ReaderType /\ rd' = rd
  BY DEF PUTypes
<1>2. /\ rd.id \in Nat /\ rd.lastid \in Nat /\ rd.batch \in SUBSET Ids /\ {} \in SUBSET Ids
      /\ rd.id' = rd.id /\ rd.lastid' = rd.lastid /\ rd.batch' = rd.batch /\ rd.pc' = rd.pc
      /\ rd.lim' = rd.lim /\ rd.retries' = rd.retries
  BY <1>1 DEF ReaderType
<1>3. ReaderSound(rd)
  OBVIOUS
<1> HIDE DEF rd
<1>4. \A id \in Nat : \A m \in SUBSET Ids : Backed(id) /\ SettledTo(id, m) => SettledTo(id, m)'
  BY SettledKept
<1>5. rd.pc = "read" => /\ Backed(rd.id)' /\ SettledTo(rd.id, rd.batch)' /\ rd.lim > 0
                        /\ \A n \in rd.batch : n <= rd.id
                        /\ IF rd.retries = 0 THEN Backed(rd.lastid)' /\ rd.id < rd.lastid
                                             ELSE rd.batch = {}
  <2>1. rd.pc = "read" => Backed(rd.id) /\ SettledTo(rd.id, rd.batch)
    BY <1>3 DEF ReaderSound
  <2>2. rd.pc = "read" => /\ rd.lim > 0 /\ \A n \in rd.batch : n <= rd.id
                          /\ IF rd.retries = 0 THEN Backed(rd.lastid) /\ rd.id < rd.lastid
                                               ELSE rd.batch = {}
    BY <1>3 DEF ReaderSound
  <2>3. Backed(rd.lastid) => Backed(rd.lastid)'
    BY <1>2
  <2>4. rd.pc = "read" => Backed(rd.id)' /\ SettledTo(rd.id, rd.batch)'
    BY <2>1, <1>2, <1>4
  <2> QED
    BY <2>2, <2>3, <2>4
<1>6. rd.pc = "send" => Backed(rd.lastid)' /\ SettledTo(rd.lastid, rd.batch)'
  <2>1. rd.pc = "send" => Backed(rd.lastid) /\ SettledTo(rd.lastid, rd.batch)
    BY <1>3 DEF ReaderSound
  <2> QED
    BY <2>1, <1>2, <1>4
<1>7. rd.pc = "set" => Backed(rd.lastid)' /\ SettledTo(rd.lastid, {})'
  <2>1. rd.pc = "set" => Backed(rd.lastid) /\ SettledTo(rd.lastid, {})
    BY <1>3 DEF ReaderSound
  <2> QED
    BY <2>1, <1>2, <1>4
<1>8. ReaderSound(rd)'
  BY <1>1, <1>2, <1>5, <1>6, <1>7 DEF ReaderSound
<1> QED
  BY <1>8 DEF rd

\* How many may send a row, and how that changes when one reader goes on: the others
\* are c before and after.
LEMMA SendersCounted ==
  ASSUME IsFiniteSet(Busy), NEW r \in PUReaders, NEW n \in Ids,
         \A q \in PUReaders \ {r} : puRead'[q] = puRead[q]
  PROVE  \E c \in Nat : /\ Cardinality(Senders(n)) = IF MaySend(r, n) THEN c + 1 ELSE c
                        /\ Cardinality(Senders(n)') = IF MaySend(r, n)' THEN c + 1 ELSE c
<1> DEFINE others == Senders(n) \ {r}
           c == Cardinality(others)
<1>1. IsFiniteSet(Senders(n))
  <2>1. Senders(n) \subseteq Busy
    BY DEF Senders, Busy, MaySend
  <2> QED
    BY <2>1, FS_Subset
<1>2. IsFiniteSet(others) /\ c \in Nat
  BY <1>1, FS_Subset, FS_CardinalityType
<1>3. Senders(n)' \ {r} = others
  <2>1. \A q \in PUReaders \ {r} : MaySend(q, n)' <=> MaySend(q, n)
    BY DEF MaySend
  <2> QED
    BY <2>1 DEF Senders
<1>4. /\ r \in Senders(n) <=> MaySend(r, n)
      /\ r \in Senders(n)' <=> MaySend(r, n)'
  BY DEF Senders
<1> HIDE DEF others
<1>5. ASSUME NEW S, S \ {r} = others
      PROVE  Cardinality(S) = IF r \in S THEN c + 1 ELSE c
  <2>1. CASE r \in S
    <3>1. S = others \cup {r} /\ r \notin others
      BY <2>1, <1>5
    <3> QED
      BY <3>1, <2>1, <1>2, FS_AddElement
  <2>2. CASE r \notin S
    <3>1. S = others
      BY <2>2, <1>5
    <3> QED
      BY <3>1, <2>2
  <2> QED
    BY <2>1, <2>2
<1>6. Cardinality(Senders(n)) = IF r \in Senders(n) THEN c + 1 ELSE c
  BY <1>5 DEF others
<1>7. Cardinality(Senders(n)') = IF r \in Senders(n)' THEN c + 1 ELSE c
  BY <1>5, <1>3
<1>8. /\ Cardinality(Senders(n)) = IF MaySend(r, n) THEN c + 1 ELSE c
      /\ Cardinality(Senders(n)') = IF MaySend(r, n)' THEN c + 1 ELSE c
  BY <1>4, <1>6, <1>7
<1> QED
  BY <1>2, <1>8

\* The number of senders is a number.
LEMMA UsesNat ==
  ASSUME PUTypes, IsFiniteSet(Busy), NEW n \in Ids
  PROVE  Uses(n) \in Nat
<1>1. Senders(n) \subseteq Busy
  BY DEF Senders, Busy, MaySend
<1>2. Cardinality(Senders(n)) \in Nat
  BY <1>1, FS_Subset, FS_CardinalityType
<1> QED
  BY <1>2 DEF Uses, PUTypes

\* A step that moves rows alone
LEMMA RowsKeep ==
  ASSUME PUInv, PUTypes', RowsBefore', RowMoves, puFaults <= puFaults',
         UNCHANGED <<puLast, puRead, puGot, puLate, puExcused>>,
         \A id \in Nat : Backed(id) => Backed(id)'
  PROVE  PUInv'
<1>1. Passing
  BY DEF Passing, PUInv, PUTypes
<1>2. PUTypes /\ RowsBefore /\ puLast \in Nat /\ {} \in SUBSET Ids /\ puFaults \in Nat /\ puFaults' \in Nat
  BY DEF PUInv, PUTypes
<1>3. Backed(puLast)'
  BY <1>2 DEF PUInv
<1>4. SettledTo(puLast, {})'
  <2>1. Backed(puLast) /\ SettledTo(puLast, {})
    BY DEF PUInv
  <2>2. \A id \in Nat : \A m \in SUBSET Ids : Backed(id) /\ SettledTo(id, m) => SettledTo(id, m)'
    BY SettledKept, <1>1, <1>2
  <2> QED
    BY <1>2, <2>1, <2>2
<1>5. ASSUME NEW r \in PUReaders PROVE ReaderSound(puRead[r])'
  <2>1. ReaderSound(puRead[r]) /\ puRead'[r] = puRead[r]
    BY DEF PUInv
  <2> QED
    BY <2>1, <1>1, <1>2, ReaderKept
<1>6. IsFiniteSet(Busy)'
  BY DEF PUInv, Busy
<1>7. ASSUME NEW n \in Ids PROVE UsesCounted(n)'
  <2>1. UsesCounted(n) /\ IsFiniteSet(Busy)
    BY DEF PUInv
  <2>2. Uses(n) \in Nat
    BY <2>1, <1>2, UsesNat
  <2>3. Uses(n)' = Uses(n)
    BY DEF Uses, Senders, MaySend
  <2>4. \A r \in PUReaders : /\ Beyond(r, n)' <=> Beyond(r, n)
                             /\ Within(r, n)' <=> Within(r, n)
    BY DEF Beyond, Within
  <2> HIDE DEF Uses
  <2> QED
    BY <2>1, <2>2, <2>3, <2>4, <1>2 DEF UsesCounted
<1> QED
  BY <1>3, <1>4, <1>5, <1>6, <1>7 DEF PUInv

\* The row after an insert, and after the end of a transaction
LEMMA InsertKeeps ==
  ASSUME PUInv, NEW s \in PUSyncers, NEW item \in PUItems, ProxyInsert(s, item)
  PROVE  PUInv'
<1> DEFINE new == [st |-> "open", item |-> item, clock |-> puNow, by |-> s]
<1>1. PUTypes /\ RowsBefore /\ puNextId \in Ids /\ puNextId' = puNextId + 1
  BY DEF PUInv, ProxyInsert
<1>2. new \in RowType /\ new.st = "open"
  BY <1>1 DEF PUTypes, RowType
<1> HIDE DEF new
<1>3. /\ puRows' = [puRows EXCEPT ![puNextId] = new]
      /\ UNCHANGED <<puLast, puRead, puItems, puNow, puGot, puLate, puExcused, puFaults>>
  BY DEF ProxyInsert, new
<1>4. /\ puRows' \in [Ids -> RowType]
      /\ \A n \in Ids : puRows'[n] = IF n = puNextId THEN new ELSE puRows[n]
  BY <1>1, <1>2, <1>3 DEF PUTypes
<1>5. PUTypes'
  BY <1>1, <1>3, <1>4 DEF PUTypes
<1>6. \A n \in Ids : n \in Nat /\ puNextId \in Nat
  BY <1>1, LastCommitted DEF PUTypes
<1>7. RowsBefore'
  BY <1>1, <1>4, <1>6 DEF RowsBefore
<1>8. RowMoves
  BY <1>2, <1>4, <1>6 DEF RowMoves
<1>9. puNextId \notin Committed
  BY <1>1, <1>6 DEF Committed, RowsBefore
<1>10. Committed \subseteq Committed'
  BY <1>4, <1>9 DEF Committed
<1>11. \A id \in Nat : Backed(id) => Backed(id)'
  BY <1>10 DEF Backed
<1>12. puFaults <= puFaults'
  BY <1>1, <1>3 DEF PUTypes
<1> QED
  BY <1>3, <1>5, <1>7, <1>8, <1>11, <1>12, RowsKeep

LEMMA EndKeeps ==
  ASSUME PUInv, NEW s \in PUSyncers, NEW st \in {"done", "none"}, ProxyEnd(s, st)
  PROVE  PUInv'
<1>1. PUTypes /\ RowsBefore
  BY DEF PUInv
<1>2. /\ puRows' = [n \in Ids |-> IF n \in RowsOf(s) THEN Closed(n, st) ELSE puRows[n]]
      /\ UNCHANGED <<puNextId, puLast, puRead, puItems, puNow, puGot, puLate, puExcused, puFaults>>
  BY DEF ProxyEnd
<1>3. ASSUME NEW n \in Ids, n \in RowsOf(s)
      PROVE  puRows[n].st = "open" /\ Closed(n, st) \in RowType /\ Closed(n, st).st = st
  BY <1>1, <1>3 DEF RowsOf, Closed, PUTypes, RowType, NoRow
<1>4. ASSUME NEW n \in Ids
      PROVE  /\ puRows'[n] \in RowType
             /\ puRows'[n] = puRows[n] \/ (puRows[n].st = "open" /\ puRows'[n].st = st)
  BY <1>1, <1>2, <1>3 DEF PUTypes
<1>5. PUTypes'
  BY <1>1, <1>2, <1>4 DEF PUTypes
<1>6. RowsBefore'
  BY <1>1, <1>2, <1>4 DEF RowsBefore
<1>7. RowMoves
  BY <1>4 DEF RowMoves
<1>8. Committed \subseteq Committed'
  BY <1>4 DEF Committed
<1>9. \A id \in Nat : Backed(id) => Backed(id)'
  BY <1>8 DEF Backed
<1>10. puFaults <= puFaults'
  BY <1>1, <1>2 DEF PUTypes
<1> QED
  BY <1>2, <1>5, <1>6, <1>7, <1>9, <1>10, RowsKeep

\* The database forgets the ids of rows that were rolled back or deleted, not those of
\* committed rows.
LEMMA DatabaseRestartKeeps == PUInv /\ DatabaseRestart => PUInv'
<1> SUFFICES ASSUME PUInv, DatabaseRestart PROVE PUInv'
  OBVIOUS
<1>1. PUTypes /\ RowsBefore
  BY DEF PUInv
<1>2. /\ puRows' = [n \in Ids |-> IF puRows[n].st = "open" THEN NoRow ELSE puRows[n]]
      /\ puNextId' = IF Committed = {} THEN 1 ELSE Max(Committed) + 1
      /\ puFaults' = puFaults + 1
      /\ UNCHANGED <<puLast, puRead, puItems, puNow, puGot, puLate, puExcused>>
  BY DEF DatabaseRestart
<1>3. NoRow \in RowType /\ NoRow.st = "none"
  BY DEF NoRow, RowType
<1>4. ASSUME NEW n \in Ids
      PROVE  /\ puRows'[n] \in RowType
             /\ puRows'[n] = puRows[n] \/ puRows'[n].st = "none"
             /\ puRows'[n].st # "open"
             /\ puRows[n].st = "done" => puRows'[n].st = "done"
  BY <1>1, <1>2, <1>3 DEF PUTypes
<1>5. Committed' = Committed
  BY <1>4 DEF Committed
<1>6. puNextId' \in Nat \ {0} /\ \A n \in Committed : n < puNextId'
  <2>1. CASE Committed = {}
    BY <2>1, <1>2
  <2>2. CASE Committed # {}
    <3>1. Max(Committed) \in Nat /\ \A n \in Committed : n \in Nat /\ n <= Max(Committed)
      BY <2>2, LastCommitted
    <3>2. puNextId' = Max(Committed) + 1
      BY <2>2, <1>2
    <3> QED
      BY <3>1, <3>2
  <2> QED
    BY <2>1, <2>2
<1>7. PUTypes'
  BY <1>1, <1>2, <1>4, <1>6 DEF PUTypes
<1>8. RowsBefore'
  BY <1>4, <1>5, <1>6 DEF RowsBefore, Committed
<1>9. RowMoves
  BY <1>4 DEF RowMoves
<1>10. \A id \in Nat : Backed(id) => Backed(id)'
  BY <1>5 DEF Backed
<1>11. puFaults <= puFaults'
  BY <1>1, <1>2 DEF PUTypes
<1> QED
  BY <1>2, <1>7, <1>8, <1>9, <1>10, <1>11, RowsKeep

\* The last committed row is not deleted: what was backed is backed by it.
LEMMA HousekeeperKeeps == PUInv /\ delete_history => PUInv'
<1> SUFFICES ASSUME PUInv, delete_history PROVE PUInv'
  OBVIOUS
<1>1. PUTypes /\ RowsBefore /\ Committed # {}
  BY DEF PUInv, delete_history
<1> DEFINE gone == Deleted(Max(Committed), Min({puRows[n].clock : n \in Committed}))
           left == [NoRow EXCEPT !.st = "deleted"]
<1>2. /\ puRows' = [n \in Ids |-> IF n \in gone THEN left ELSE puRows[n]]
      /\ UNCHANGED <<puNextId, puLast, puRead, puItems, puNow, puGot, puLate, puExcused, puFaults>>
  BY DEF delete_history
<1>3. left \in RowType /\ left.st = "deleted"
  BY DEF NoRow, RowType
<1>4. /\ Max(Committed) \in Committed /\ Max(Committed) \in Nat
      /\ \A n \in Committed : n \in Nat /\ n <= Max(Committed)
  BY <1>1, LastCommitted
<1>5. Max(Committed) \notin gone
  BY <1>4 DEF Deleted
<1> HIDE DEF gone, left
<1>6. ASSUME NEW n \in Ids
      PROVE  /\ puRows'[n] \in RowType
             /\ puRows'[n] = puRows[n] \/ puRows'[n].st = "deleted"
  BY <1>1, <1>2, <1>3 DEF PUTypes
<1>7. Max(Committed) \in Committed'
  BY <1>2, <1>4, <1>5 DEF Committed
<1>8. ASSUME NEW id \in Nat, Backed(id)
      PROVE  Backed(id)'
  <2>1. CASE id = 0
    BY <2>1 DEF Backed
  <2>2. CASE id # 0
    <3>1. PICK n \in Committed : id <= n
      BY <2>2, <1>8 DEF Backed
    <3>2. id <= Max(Committed)
      BY <3>1, <1>4
    <3> QED
      BY <3>2, <1>7 DEF Backed
  <2> QED
    BY <2>1, <2>2
<1>9. PUTypes'
  BY <1>1, <1>2, <1>6 DEF PUTypes
<1>10. RowsBefore'
  BY <1>1, <1>2, <1>6 DEF RowsBefore
<1>11. RowMoves
  BY <1>6 DEF RowMoves
<1>12. puFaults <= puFaults'
  BY <1>1, <1>2 DEF PUTypes
<1> QED
  BY <1>2, <1>8, <1>9, <1>10, <1>11, <1>12, RowsKeep

\* Items and time have no part in it.
LEMMA RestKeeps ==
  PUInv /\ (UNCHANGED puVars \/ UpTick \/ \E item \in PUItems : ItemRemoved(item)) => PUInv'
<1> SUFFICES ASSUME PUInv, UNCHANGED puVars \/ UpTick \/ \E item \in PUItems : ItemRemoved(item)
             PROVE  PUInv'
  OBVIOUS
<1>1. PUTypes /\ RowsBefore
  BY DEF PUInv
<1>2. /\ UNCHANGED <<puRows, puNextId, puLast, puRead, puGot, puLate, puExcused, puFaults>>
      /\ puItems' \subseteq puItems /\ puNow' \in Nat
  BY <1>1 DEF puVars, UpTick, ItemRemoved, PUTypes
<1>3. PUTypes' /\ RowsBefore'
  BY <1>1, <1>2 DEF PUTypes, RowsBefore
<1>4. RowMoves
  BY <1>2 DEF RowMoves
<1>5. \A id \in Nat : Backed(id) => Backed(id)'
  BY <1>2 DEF Backed, Committed
<1>6. puFaults <= puFaults'
  BY <1>1, <1>2 DEF PUTypes
<1> QED
  BY <1>2, <1>3, <1>4, <1>5, <1>6, RowsKeep

\* What one reader does keeps the rest of the invariant.
ReaderMove(r) ==
    /\ puRead' = [puRead EXCEPT ![r] = puRead'[r]] /\ puRead'[r] \in ReaderType
    /\ UNCHANGED <<puRows, puNextId, puItems, puNow>>
    /\ puLast' \in Nat /\ puGot' \in [Ids -> Nat] /\ puFaults' \in Nat
    /\ Passing

LEMMA ReaderMoveLaws ==
  ASSUME PUInv, NEW r \in PUReaders, ReaderMove(r)
  PROVE  /\ PUTypes' /\ RowsBefore' /\ IsFiniteSet(Busy')
         /\ \A q \in PUReaders \ {r} : puRead'[q] = puRead[q]
         /\ \A id \in Nat : Backed(id) => Backed(id)'
         /\ \A id \in Nat, m \in SUBSET Ids : Backed(id) /\ SettledTo(id, m) => SettledTo(id, m)'
         /\ \A q \in PUReaders \ {r} : ReaderSound(puRead[q])'
<1>1. PUTypes /\ RowsBefore /\ IsFiniteSet(Busy)
  BY DEF PUInv
<1>2. /\ puRead' = [puRead EXCEPT ![r] = puRead'[r]] /\ puRead'[r] \in ReaderType
      /\ UNCHANGED <<puRows, puNextId, puItems, puNow>>
      /\ puLast' \in Nat /\ puGot' \in [Ids -> Nat] /\ puFaults' \in Nat
  BY DEF ReaderMove
<1>3. PUTypes'
  <2>1. puRead' \in [PUReaders -> ReaderType]
    BY <1>1, <1>2 DEF PUTypes
  <2> QED
    BY <2>1, <1>1, <1>2 DEF PUTypes
<1>4. RowsBefore' /\ RowMoves /\ \A id \in Nat : Backed(id) => Backed(id)'
  BY <1>1, <1>2 DEF RowsBefore, RowMoves, Backed, Committed
<1>5. \A q \in PUReaders \ {r} : puRead'[q] = puRead[q]
  BY <1>1, <1>2 DEF PUTypes
<1>6. Passing
  BY DEF ReaderMove
<1>7. \A id \in Nat, m \in SUBSET Ids : Backed(id) /\ SettledTo(id, m) => SettledTo(id, m)'
  BY <1>1, <1>3, <1>4, <1>6, SettledKept
<1>8. \A q \in PUReaders \ {r} : ReaderSound(puRead[q])'
  <2> SUFFICES ASSUME NEW q \in PUReaders \ {r} PROVE ReaderSound(puRead[q])'
    OBVIOUS
  <2>1. ReaderSound(puRead[q]) /\ puRead'[q] = puRead[q]
    BY <1>5 DEF PUInv
  <2> QED
    BY <2>1, <1>1, <1>3, <1>4, <1>6, ReaderKept
<1>9. IsFiniteSet(Busy')
  <2>1. Busy' \subseteq Busy \cup {r}
    BY <1>5 DEF Busy
  <2>2. IsFiniteSet(Busy \cup {r})
    BY <1>1, FS_AddElement
  <2> QED
    BY <2>1, <2>2, FS_Subset
<1> QED
  BY <1>3, <1>4, <1>5, <1>7, <1>8, <1>9

\* What is left to show for a step of a reader
LEMMA ReaderMoveKeeps ==
  ASSUME PUInv, NEW r \in PUReaders, ReaderMove(r), ReaderSound(puRead[r])',
         Backed(puLast)', SettledTo(puLast, {})', \A n \in Ids : UsesCounted(n)'
  PROVE  PUInv'
<1>1. PUTypes' /\ RowsBefore' /\ IsFiniteSet(Busy')
  BY ReaderMoveLaws
<1>2. \A q \in PUReaders \ {r} : ReaderSound(puRead[q])'
  BY ReaderMoveLaws
<1>3. \A q \in PUReaders : ReaderSound(puRead[q])'
  BY <1>2
<1> QED
  BY <1>1, <1>3 DEF PUInv

\* history_lastid stays where it is.
LEMMA LastKept ==
  ASSUME PUInv, NEW r \in PUReaders, ReaderMove(r), puLast' = puLast
  PROVE  Backed(puLast)' /\ SettledTo(puLast, {})'
<1>1. puLast \in Nat /\ {} \in SUBSET Ids /\ Backed(puLast) /\ SettledTo(puLast, {})
  BY DEF PUInv, PUTypes
<1>2. /\ \A id \in Nat : Backed(id) => Backed(id)'
      /\ \A id \in Nat, m \in SUBSET Ids : Backed(id) /\ SettledTo(id, m) => SettledTo(id, m)'
  BY ReaderMoveLaws
<1> QED
  BY <1>1, <1>2

\* The uses of a row when reader r goes on: the other readers keep their part, c.
LEMMA UsesMove ==
  ASSUME PUInv, NEW r \in PUReaders, ReaderMove(r), NEW n \in Ids
  PROVE  /\ \E c \in Nat : /\ Uses(n) = puGot[n] + (IF MaySend(r, n) THEN c + 1 ELSE c)
                           /\ Uses(n)' = puGot'[n] + (IF MaySend(r, n)' THEN c + 1 ELSE c)
         /\ \A q \in PUReaders \ {r} : /\ Beyond(q, n)' <=> Beyond(q, n)
                                       /\ Within(q, n)' <=> Within(q, n)
         /\ puGot[n] \in Nat /\ puGot'[n] \in Nat /\ puFaults \in Nat /\ puFaults' \in Nat
         /\ UsesCounted(n)
<1>1. \A q \in PUReaders \ {r} : puRead'[q] = puRead[q]
  BY ReaderMoveLaws
<1>2. /\ IsFiniteSet(Busy) /\ UsesCounted(n) /\ PUTypes
      /\ puGot' \in [Ids -> Nat] /\ puFaults' \in Nat
  BY DEF PUInv, ReaderMove
<1>3. \E c \in Nat : /\ Cardinality(Senders(n)) = IF MaySend(r, n) THEN c + 1 ELSE c
                     /\ Cardinality(Senders(n)') = IF MaySend(r, n)' THEN c + 1 ELSE c
  BY <1>1, <1>2, SendersCounted
<1>4. \E c \in Nat : /\ Uses(n) = puGot[n] + (IF MaySend(r, n) THEN c + 1 ELSE c)
                     /\ Uses(n)' = puGot'[n] + (IF MaySend(r, n)' THEN c + 1 ELSE c)
  BY <1>3 DEF Uses
<1>5. \A q \in PUReaders \ {r} : /\ Beyond(q, n)' <=> Beyond(q, n)
                                 /\ Within(q, n)' <=> Within(q, n)
  BY <1>1 DEF Beyond, Within
<1> QED
  BY <1>2, <1>4, <1>5 DEF PUTypes

\* A fault pays for what a step of a reader leaves open, as long as there are no more
\* uses than before.
LEMMA FaultPays ==
  ASSUME PUInv, NEW r \in PUReaders, ReaderMove(r), puFaults' = puFaults + 1, NEW n \in Ids,
         puGot'[n] = puGot[n] + 1 => MaySend(r, n),
         puGot'[n] \in {puGot[n], puGot[n] + 1}, ~MaySend(r, n)' 
  PROVE  UsesCounted(n)'
<1>1. PICK c \in Nat : /\ Uses(n) = puGot[n] + (IF MaySend(r, n) THEN c + 1 ELSE c)
                       /\ Uses(n)' = puGot'[n] + (IF MaySend(r, n)' THEN c + 1 ELSE c)
  BY UsesMove
<1>2. puGot[n] \in Nat /\ puGot'[n] \in Nat /\ puFaults \in Nat /\ UsesCounted(n)
  BY UsesMove
<1>3. Uses(n) \in Nat /\ Uses(n)' \in Nat /\ Uses(n)' <= Uses(n)
  BY <1>1, <1>2
<1>4. Uses(n) <= 1 + puFaults
  BY <1>2 DEF UsesCounted
<1> HIDE DEF Uses
<1>5. Uses(n)' <= puFaults'
  BY <1>2, <1>3, <1>4
<1> QED
  BY <1>2, <1>3, <1>5 DEF UsesCounted

\* A reader that gives up is idle: a fault.
LEMMA ReaderRestartKeeps ==
  ASSUME PUInv, NEW r \in PUReaders, ReaderRestart(r)
  PROVE  PUInv'
<1>1. /\ puRead' = [puRead EXCEPT ![r] = IdleReader] /\ puFaults' = puFaults + 1
      /\ UNCHANGED <<puRows, puNextId, puLast, puItems, puNow, puGot, puLate, puExcused>>
  BY DEF ReaderRestart
<1>2. PUTypes
  BY DEF PUInv
<1>3. IdleReader \in ReaderType /\ IdleReader.pc = "idle"
  BY DEF IdleReader, ReaderType
<1>4. puRead'[r] = IdleReader
  BY <1>1, <1>2 DEF PUTypes
<1> HIDE DEF IdleReader
<1>5. Passing
  BY <1>1, <1>2 DEF Passing, PUTypes
<1>6. ReaderMove(r)
  BY <1>1, <1>2, <1>3, <1>4, <1>5 DEF ReaderMove, PUTypes
<1>7. ReaderSound(puRead[r])'
  BY <1>3, <1>4 DEF ReaderSound
<1>8. ASSUME NEW n \in Ids PROVE UsesCounted(n)'
  <2>1. ~MaySend(r, n)'
    BY <1>3, <1>4 DEF MaySend
  <2>2. puGot'[n] = puGot[n] /\ puGot[n] # puGot[n] + 1
    BY <1>1, <1>2 DEF PUTypes
  <2> QED
    BY <2>1, <2>2, <1>1, <1>6, FaultPays
<1> QED
  BY <1>1, <1>6, <1>7, <1>8, LastKept, ReaderMoveKeeps

\* A message takes its use with it when it is processed; what goes wrong is a fault.
LEMMA SendKeeps ==
  ASSUME PUInv, NEW r \in PUReaders, NEW processed \in BOOLEAN, NEW answered \in BOOLEAN,
         SendBatch(r, processed, answered)
  PROVE  PUInv'
<1> DEFINE rd == puRead[r]
           next == AfterSend(rd, answered)
<1>1. PUTypes
  BY DEF PUInv
<1>2. /\ rd.pc = "send" /\ puRead' = [puRead EXCEPT ![r] = next]
      /\ puGot' = [n \in Ids |-> IF processed /\ n \in rd.batch THEN puGot[n] + 1 ELSE puGot[n]]
      /\ puExcused' = IF answered /\ ~processed THEN puExcused \cup rd.batch ELSE puExcused
      /\ puFaults' = IF ~processed \/ ~answered THEN puFaults + 1 ELSE puFaults
      /\ UNCHANGED <<puRows, puNextId, puLast, puItems, puNow, puLate>>
  BY DEF SendBatch
<1>3. rd \in ReaderType /\ rd.lastid \in Nat /\ rd.batch \in SUBSET Ids
  BY <1>1 DEF PUTypes, ReaderType
<1>4. IdleReader \in ReaderType /\ IdleReader.pc = "idle"
  BY DEF IdleReader, ReaderType
<1>5. [rd EXCEPT !.pc = "set"] \in ReaderType /\ [rd EXCEPT !.pc = "set"].pc = "set"
      /\ [rd EXCEPT !.pc = "set"].lastid = rd.lastid
  BY <1>3 DEF ReaderType
<1>6. /\ next \in ReaderType /\ puRead'[r] = next
      /\ answered => next.pc = "set" /\ next.lastid = rd.lastid
      /\ ~answered => next.pc = "idle"
  BY <1>1, <1>2, <1>4, <1>5 DEF AfterSend, PUTypes
<1>7. Backed(rd.lastid) /\ SettledTo(rd.lastid, rd.batch)
  BY <1>2 DEF PUInv, ReaderSound
<1>8. \A n \in Ids : MaySend(r, n) <=> n \in rd.batch
  BY <1>2 DEF MaySend
<1>9. \A n \in Ids : Beyond(r, n) <=> n > rd.lastid
  BY <1>2 DEF Beyond
<1>10. \A n \in Ids : Within(r, n) <=> n <= rd.lastid
  BY <1>2 DEF Within
<1> HIDE DEF next, rd
<1>11. \A n \in Ids : /\ ~MaySend(r, n)'
                      /\ answered => (Beyond(r, n)' <=> n > rd.lastid)
                      /\ answered => (Within(r, n)' <=> n <= rd.lastid)
  BY <1>6 DEF MaySend, Beyond, Within
<1>12. puGot' \in [Ids -> Nat] /\ puFaults' \in Nat
  BY <1>1, <1>2 DEF PUTypes
<1>13. Passing
  BY <1>1, <1>2 DEF Passing, PUTypes
<1>14. ReaderMove(r)
  BY <1>1, <1>2, <1>6, <1>12, <1>13 DEF ReaderMove, PUTypes
<1>15. ReaderSound(puRead[r])'
  <2>1. CASE answered
    <3>1. \A n \in rd.batch : n \in Ids /\ PassedOver(n)'
      <4>1. CASE processed
        <5>1. \A n \in rd.batch : n \in Ids /\ puGot'[n] = puGot[n] + 1 /\ puGot[n] \in Nat
          BY <4>1, <1>1, <1>2, <1>3 DEF PUTypes
        <5>2. \A n \in rd.batch : puGot'[n] > 0
          BY <5>1
        <5> QED
          BY <5>1, <5>2 DEF PassedOver
      <4>2. CASE ~processed
        BY <4>2, <2>1, <1>2, <1>3 DEF PassedOver
      <4> QED
        BY <4>1, <4>2
    <3>2. PICK id \in Nat, m \in SUBSET Ids : id = rd.lastid /\ m = rd.batch
      BY <1>3
    <3>3. Backed(id) /\ SettledTo(id, m)
      BY <3>2, <1>7
    <3>4. Backed(id)' /\ SettledTo(id, m)'
      BY <3>3, <1>14, ReaderMoveLaws
    <3>5. SettledTo(id, {})'
      BY <3>1, <3>2, <3>4 DEF SettledTo
    <3>6. puRead[r]'.pc = "set" /\ puRead[r]'.lastid = id
      BY <3>2, <2>1, <1>6
    <3> QED
      BY <3>4, <3>5, <3>6 DEF ReaderSound
  <2>2. CASE ~answered
    BY <2>2, <1>6 DEF ReaderSound
  <2> QED
    BY <2>1, <2>2
<1>16. ASSUME NEW n \in Ids PROVE UsesCounted(n)'
  <2>1. puGot'[n] = IF processed /\ n \in rd.batch THEN puGot[n] + 1 ELSE puGot[n]
    BY <1>2
  <2>2. CASE ~processed \/ ~answered
    <3>1. puGot[n] \in Nat /\ puGot[n] # puGot[n] + 1 /\ puFaults' = puFaults + 1
      BY <2>2, <1>1, <1>2 DEF PUTypes
    <3>2. (puGot'[n] = puGot[n] + 1 => MaySend(r, n)) /\ puGot'[n] \in {puGot[n], puGot[n] + 1}
      BY <3>1, <2>1, <1>8
    <3>3. ~MaySend(r, n)'
      BY <1>11
    <3> QED
      BY <3>1, <3>2, <3>3, <1>14, FaultPays
  <2>3. CASE processed /\ answered
    <3>1. PICK c \in Nat : /\ Uses(n) = puGot[n] + (IF MaySend(r, n) THEN c + 1 ELSE c)
                           /\ Uses(n)' = puGot'[n] + (IF MaySend(r, n)' THEN c + 1 ELSE c)
      BY <1>14, UsesMove
    <3>2. puGot[n] \in Nat /\ puGot'[n] \in Nat /\ UsesCounted(n)
      BY <1>14, UsesMove
    <3>3. Uses(n)' = Uses(n)
      BY <3>1, <3>2, <2>1, <2>3, <1>8, <1>11
    <3>4. \A q \in PUReaders : /\ Beyond(q, n)' <=> Beyond(q, n)
                               /\ Within(q, n)' <=> Within(q, n)
      BY <1>14, UsesMove, <2>3, <1>9, <1>10, <1>11
    <3> QED
      BY <3>2, <3>3, <3>4, <2>3, <1>2 DEF UsesCounted
  <2> QED
    BY <2>2, <2>3
<1> QED
  BY <1>2, <1>14, <1>15, <1>16, LastKept, ReaderMoveKeeps

\* history_lastid moves to what the answered message reached: who has left a row out
\* has not spent its free use.
LEMMA SetLastidKeeps ==
  ASSUME PUInv, NEW r \in PUReaders, proxy_set_lastid(r)
  PROVE  PUInv'
<1> DEFINE last == puRead[r].lastid
<1>1. /\ puRead' = [puRead EXCEPT ![r] = IdleReader] /\ puRead[r].pc = "set" /\ puLast' = last
      /\ UNCHANGED <<puRows, puNextId, puItems, puNow, puGot, puLate, puExcused, puFaults>>
  BY DEF proxy_set_lastid
<1>2. PUTypes /\ last \in Nat /\ {} \in SUBSET Ids
  BY DEF PUInv, PUTypes, ReaderType
<1>3. IdleReader \in ReaderType /\ IdleReader.pc = "idle"
  BY DEF IdleReader, ReaderType
<1>4. puRead'[r] = IdleReader
  BY <1>1, <1>2 DEF PUTypes
<1> HIDE DEF IdleReader
<1>5. Passing
  BY <1>1, <1>2 DEF Passing, PUTypes
<1>6. ReaderMove(r)
  BY <1>1, <1>2, <1>3, <1>4, <1>5 DEF ReaderMove, PUTypes
<1>7. ReaderSound(puRead[r])'
  BY <1>3, <1>4 DEF ReaderSound
<1>8. Backed(last) /\ SettledTo(last, {})
  BY <1>1 DEF PUInv, ReaderSound
<1>9. ASSUME NEW n \in Ids PROVE UsesCounted(n)'
  <2>1. PICK c \in Nat : /\ Uses(n) = puGot[n] + (IF MaySend(r, n) THEN c + 1 ELSE c)
                         /\ Uses(n)' = puGot'[n] + (IF MaySend(r, n)' THEN c + 1 ELSE c)
    BY <1>6, UsesMove
  <2>2. UsesCounted(n) /\ \A q \in PUReaders \ {r} : Beyond(q, n)' <=> Beyond(q, n)
    BY <1>6, UsesMove
  <2>3. ~MaySend(r, n) /\ ~MaySend(r, n)' /\ ~Beyond(r, n)'
    BY <1>1, <1>3, <1>4 DEF MaySend, Beyond
  <2>4. Uses(n)' = Uses(n)
    BY <2>1, <2>3, <1>1
  <2>5. n > puLast' => Beyond(r, n)
    BY <1>1 DEF Beyond
  <2> HIDE DEF Uses, last
  <2> QED
    BY <2>2, <2>3, <2>4, <2>5, <1>1 DEF UsesCounted
<1> HIDE DEF last
<1>10. Backed(puLast)' /\ SettledTo(puLast, {})'
  <2>1. PICK id \in Nat : id = last
    BY <1>2
  <2>2. Backed(id) /\ SettledTo(id, {})
    BY <2>1, <1>8
  <2>3. Backed(id)' /\ SettledTo(id, {})'
    BY <2>2, <1>2, <1>6, ReaderMoveLaws
  <2> QED
    BY <2>1, <2>3, <1>1
<1> QED
  BY <1>6, <1>7, <1>9, <1>10, ReaderMoveKeeps

\* A reader starts after history_lastid: alone, what is after it is free, as nobody was
\* about to pass it; beside others it is a fault.
LEMMA GetLastidKeeps ==
  ASSUME PUInv, NEW r \in PUReaders, proxy_get_lastid(r)
  PROVE  PUInv'
<1> DEFINE new == [IdleReader EXCEPT !.pc = "read", !.id = puLast,
                                     !.lim = ZBX_MAX_HRECORDS, !.retries = 1]
<1>1. /\ puRead' = [puRead EXCEPT ![r] = new] /\ puRead[r].pc = "idle"
      /\ puFaults' = IF Overlaps(r) THEN puFaults + 1 ELSE puFaults
      /\ UNCHANGED <<puRows, puNextId, puLast, puItems, puNow, puGot, puLate, puExcused>>
  BY DEF proxy_get_lastid
<1>2. PUTypes /\ puLast \in Nat /\ Backed(puLast) /\ SettledTo(puLast, {})
  BY DEF PUInv, PUTypes
<1>3. ZBX_MAX_HRECORDS \in Nat /\ ZBX_MAX_HRECORDS > 0
  BY ProxyUploadAssumption
<1>4. /\ new.pc = "read" /\ new.id = puLast /\ new.batch = {} /\ new.lim > 0 /\ new.retries = 1
      /\ new \in ReaderType
  BY <1>2, <1>3 DEF IdleReader, ReaderType
<1> HIDE DEF new
<1>5. puRead'[r] = new
  BY <1>1, <1>2 DEF PUTypes
<1>6. Passing /\ puFaults' \in Nat
  BY <1>1, <1>2 DEF Passing, PUTypes
<1>7. ReaderMove(r)
  BY <1>1, <1>2, <1>4, <1>5, <1>6 DEF ReaderMove, PUTypes
<1>8. Backed(puLast)' /\ SettledTo(puLast, {})'
  BY <1>1, <1>7, LastKept
<1>9. ReaderSound(puRead[r])'
  BY <1>1, <1>4, <1>5, <1>8 DEF ReaderSound, SettledTo, PassedOver, Backed, Committed
<1>10. ASSUME NEW n \in Ids PROVE UsesCounted(n)'
  <2>1. PICK c \in Nat : /\ Uses(n) = puGot[n] + (IF MaySend(r, n) THEN c + 1 ELSE c)
                         /\ Uses(n)' = puGot'[n] + (IF MaySend(r, n)' THEN c + 1 ELSE c)
    BY <1>7, UsesMove
  <2>2. /\ UsesCounted(n) /\ puGot[n] \in Nat /\ puGot'[n] = puGot[n]
        /\ puFaults \in Nat /\ puFaults' \in Nat
    BY <1>1, <1>7, UsesMove
  <2>3. \A q \in PUReaders \ {r} : /\ Beyond(q, n)' <=> Beyond(q, n)
                                   /\ Within(q, n)' <=> Within(q, n)
    BY <1>7, UsesMove
  <2>4. ~MaySend(r, n) /\ ~Within(r, n) /\ ~Beyond(r, n)'
    BY <1>1, <1>4, <1>5 DEF MaySend, Within, Beyond
  <2>5. (MaySend(r, n)' <=> n > puLast) /\ (Within(r, n)' <=> n > puLast)
    BY <1>1, <1>4, <1>5 DEF MaySend, Within
  <2>6. /\ Uses(n) \in Nat /\ Uses(n)' \in Nat
        /\ Uses(n)' = IF n > puLast THEN Uses(n) + 1 ELSE Uses(n)
    BY <2>1, <2>2, <2>4, <2>5
  <2> HIDE DEF Uses
  <2>7. CASE Overlaps(r)
    BY <2>2, <2>3, <2>4, <2>5, <2>6, <2>7, <1>1 DEF UsesCounted
  <2>8. CASE ~Overlaps(r)
    <3>1. \A q \in PUReaders \ {r} : ~Beyond(q, n) /\ ~Within(q, n)
      BY <2>8 DEF Overlaps, Beyond, Within
    <3>2. puFaults' = puFaults
      BY <2>8, <1>1
    <3>3. n > puLast => Uses(n) <= puFaults
      BY <3>1, <2>2, <2>4 DEF UsesCounted
    <3>4. \A q \in PUReaders : ~Beyond(q, n)'
      BY <3>1, <2>3, <2>4
    <3> QED
      BY <3>2, <3>3, <3>4, <2>2, <2>5, <2>6, <1>1 DEF UsesCounted
  <2> QED
    BY <2>7, <2>8
<1> QED
  BY <1>7, <1>8, <1>9, <1>10, ReaderMoveKeeps

\* The first look at the rows, with a missing one: what is before it is kept, and
\* nothing that could be sent is lost.
LEMMA ReadAgainKeeps ==
  ASSUME PUInv, NEW r \in PUReaders, puRead[r].pc = "read",
         ReadAgain(r, SelectN(puRead[r].id, puRead[r].lim)),
         UNCHANGED <<puRows, puNextId, puLast, puItems, puNow, puGot, puFaults>>
  PROVE  PUInv'
<1> DEFINE rd == puRead[r]
           ids == SelectN(rd.id, rd.lim)
           first == Min(Gaps(rd, ids))
           before == {n \in ids : n < first}
           id == IF before = {} THEN rd.id ELSE Max(before)
           lim == rd.lim - Cardinality(before)
           new == [rd EXCEPT !.id = id, !.lastid = first, !.batch = rd.batch \cup before,
                             !.lim = lim, !.retries = 0]
<1>1. /\ rd.retries > 0 /\ Gaps(rd, ids) # {} /\ rd.pc = "read"
      /\ puRead' = [puRead EXCEPT ![r] = new] /\ UNCHANGED <<puLate, puExcused>>
  BY DEF ReadAgain
<1>2. PUTypes /\ ReaderSound(rd)
  BY DEF PUInv
<1>3. /\ rd \in ReaderType /\ rd.id \in Nat /\ rd.lim \in Nat /\ rd.retries \in {0, 1}
      /\ rd.batch \in SUBSET Ids
  BY <1>2 DEF PUTypes, ReaderType
<1>4. rd.batch = {} /\ rd.lim > 0 /\ Backed(rd.id) /\ SettledTo(rd.id, {})
  BY <1>1, <1>2, <1>3 DEF ReaderSound
<1>5. /\ ids \subseteq {n \in Committed : n > rd.id}
      /\ \A n \in Committed : \A m \in ids : rd.id < n /\ n <= m => n \in ids
      /\ \A m \in ids : Cardinality({n \in ids : n < m}) < rd.lim
  BY <1>3, <1>4, SelectLaws
<1> HIDE DEF ids
<1>6. ids \in SUBSET Ids /\ (\A n \in ids : n > rd.id) /\ ids \subseteq Nat /\ IsFiniteSet(ids)
  BY <1>5, LastCommitted, FS_Subset
<1>7. /\ first \in ids
      /\ \A m \in ids, n \in Nat : m < first /\ rd.id < n /\ n <= m => n \in ids
  BY <1>1, <1>3, <1>6, NoGapBefore
<1> HIDE DEF first
<1>8. first \in Nat /\ first \in Committed /\ rd.id < first
  BY <1>5, <1>6, <1>7
<1>9. Cardinality(before) \in Nat /\ Cardinality(before) < rd.lim
  <2>1. Cardinality(before) < rd.lim
    BY <1>5, <1>7
  <2>2. before \subseteq ids
    OBVIOUS
  <2> QED
    BY <2>1, <2>2, <1>6, FS_Subset, FS_CardinalityType
<1>10. lim \in Nat /\ lim > 0
  BY <1>3, <1>9
<1>11. /\ id \in Nat /\ rd.id <= id /\ id < first /\ Backed(id)
       /\ before # {} => id \in before /\ \A n \in before : n <= id
       /\ before = {} => id = rd.id
  <2>1. CASE before = {}
    BY <2>1, <1>3, <1>4, <1>8
  <2>2. CASE before # {}
    <3>1. before \subseteq Committed /\ before \subseteq Ids /\ before \subseteq 0 .. first
      BY <1>5, <1>6, <1>8
    <3>2. id \in before /\ \A n \in before : n <= id
      BY <2>2, <3>1, <1>8, GreatestNatural
    <3>3. id \in ids /\ id < first /\ id \in Committed
      BY <3>1, <3>2
    <3>4. id \in Nat /\ rd.id < id
      BY <3>3, <1>6, <1>3
    <3> HIDE DEF id
    <3> QED
      BY <3>2, <3>3, <3>4, <2>2, <1>3 DEF Backed
  <2> QED
    BY <2>1, <2>2
<1> HIDE DEF id, lim
<1>12. ASSUME NEW n \in Ids
       PROVE  /\ n > rd.id /\ n <= id <=> n \in before
              /\ n > rd.id <=> n > id \/ n \in before
  <2>1. n \in Nat /\ n <= n
    BY LastCommitted
  <2>2. n \in before => n > rd.id /\ n <= id /\ before # {}
    BY <1>6, <1>11
  <2>3. ASSUME n > rd.id, n <= id PROVE n \in before
    <3>1. before # {} /\ id \in ids /\ id < first
      BY <2>1, <2>3, <1>3, <1>11
    <3>2. n \in ids
      BY <2>1, <2>3, <3>1, <1>7
    <3>3. n < first
      BY <2>1, <2>3, <3>1, <1>8, <1>11
    <3> QED
      BY <3>2, <3>3
  <2>4. n > id => n > rd.id
    BY <2>1, <1>3, <1>11
  <2>5. n > id \/ n <= id
    BY <2>1, <1>11
  <2> HIDE DEF before
  <2> QED
    BY <2>2, <2>3, <2>4, <2>5
<1>13. /\ new.pc = "read" /\ new.id = id /\ new.lastid = first /\ new.batch = before
       /\ new.lim = lim /\ new.retries = 0
  BY <1>1, <1>3, <1>4 DEF ReaderType
<1>14. new \in ReaderType
  <2>1. before \in SUBSET Ids
    BY <1>6
  <2> HIDE DEF before
  <2> QED
    BY <2>1, <1>1, <1>3, <1>4, <1>8, <1>10, <1>11 DEF ReaderType
<1>15. before \subseteq Committed /\ before \subseteq Nat /\ \A n \in before : n <= id
  BY <1>5, <1>6, <1>11
<1> HIDE DEF new, before
<1>16. puRead'[r] = new
  BY <1>1, <1>2 DEF PUTypes
<1>17. Passing
  BY <1>1, <1>2 DEF Passing, PUTypes
<1>18. ReaderMove(r)
  BY <1>1, <1>2, <1>14, <1>16, <1>17 DEF ReaderMove, PUTypes
<1>19. SettledTo(id, before)
  <2> SUFFICES ASSUME NEW n \in Ids, n <= id
               PROVE  /\ puRows[n].st = "done" => PassedOver(n) \/ n \in before
                      /\ puRows[n].st = "open" => n \in puLate
    BY DEF SettledTo
  <2>1. n \in Nat
    BY LastCommitted
  <2>2. CASE n <= rd.id
    BY <2>2, <1>4 DEF SettledTo
  <2>3. CASE n > rd.id
    <3>1. n \in before
      BY <2>3, <1>12
    <3> QED
      BY <3>1, <1>15 DEF Committed
  <2> QED
    BY <2>1, <2>2, <2>3, <1>3
<1>20. ReaderSound(puRead[r])'
  <2>1. PICK i \in Nat, l \in Nat, b \in SUBSET Ids : i = id /\ l = first /\ b = before
    BY <1>8, <1>11, <1>14, <1>13 DEF ReaderType
  <2>2. Backed(i) /\ SettledTo(i, b) /\ Backed(l)
    BY <2>1, <1>8, <1>11, <1>19 DEF Backed
  <2>3. Backed(i)' /\ SettledTo(i, b)' /\ Backed(l)'
    BY <2>2, <1>18, ReaderMoveLaws
  <2>4. /\ puRead[r]'.id = i /\ puRead[r]'.lastid = l /\ puRead[r]'.batch = b /\ puRead[r]'.lim > 0
        /\ puRead[r]'.pc = "read" /\ puRead[r]'.retries = 0 /\ i < l /\ \A n \in b : n <= i
    BY <2>1, <1>10, <1>11, <1>13, <1>15, <1>16
  <2> QED
    BY <2>3, <2>4 DEF ReaderSound
<1>21. ASSUME NEW n \in Ids PROVE UsesCounted(n)'
  <2>1. PICK c \in Nat : /\ Uses(n) = puGot[n] + (IF MaySend(r, n) THEN c + 1 ELSE c)
                         /\ Uses(n)' = puGot'[n] + (IF MaySend(r, n)' THEN c + 1 ELSE c)
    BY <1>18, UsesMove
  <2>2. UsesCounted(n)
    BY <1>18, UsesMove
  <2>3. (MaySend(r, n) <=> n > rd.id) /\ (Within(r, n) <=> n > rd.id) /\ ~Beyond(r, n)
    BY <1>1, <1>4 DEF MaySend, Within, Beyond
  <2>4. /\ MaySend(r, n)' <=> n > id \/ n \in before
        /\ Within(r, n)' <=> n > id \/ n \in before
        /\ ~Beyond(r, n)'
    BY <1>13, <1>16 DEF MaySend, Within, Beyond
  <2>5. Uses(n)' = Uses(n)
    BY <2>1, <2>3, <2>4, <1>12
  <2>6. \A q \in PUReaders : /\ Beyond(q, n)' <=> Beyond(q, n)
                             /\ Within(q, n)' <=> Within(q, n)
    BY <1>12, <1>18, <2>3, <2>4, UsesMove
  <2> HIDE DEF Uses
  <2> QED
    BY <2>2, <2>5, <2>6 DEF UsesCounted
<1> QED
  BY <1>18, <1>20, <1>21, LastKept, ReaderMoveKeeps

\* The end of a reading: what it passes and leaves out was given up or is late, and what
\* is beyond it can be sent once more.
LEMMA ReadDoneKeeps ==
  ASSUME PUInv, NEW r \in PUReaders, puRead[r].pc = "read",
         ReadDone(r, SelectN(puRead[r].id, puRead[r].lim)),
         UNCHANGED <<puRows, puNextId, puLast, puItems, puNow, puGot, puFaults>>
  PROVE  PUInv'
<1> DEFINE rd == puRead[r]
           ids == SelectN(rd.id, rd.lim)
           batch == rd.batch \cup ids
           records == {n \in batch : Known(n)}
           last == IF ids = {} THEN rd.lastid ELSE Max(ids)
           new == IF records = {} THEN IdleReader
                  ELSE [rd EXCEPT !.pc = "send", !.batch = records, !.lastid = last]
<1>1. /\ puRead' = [puRead EXCEPT ![r] = new] /\ rd.pc = "read"
      /\ puLate' = puLate \cup {n \in Ids : puRows[n].st = "open" /\ n < last}
      /\ puExcused' = puExcused \cup (batch \ records)
  BY DEF ReadDone
<1>2. PUTypes /\ ReaderSound(rd)
  BY DEF PUInv
<1>3. /\ rd \in ReaderType /\ rd.id \in Nat /\ rd.lastid \in Nat /\ rd.lim \in Nat
      /\ rd.batch \in SUBSET Ids
  BY <1>2 DEF PUTypes, ReaderType
<1>4. /\ rd.lim > 0 /\ SettledTo(rd.id, rd.batch) /\ \A n \in rd.batch : n <= rd.id
      /\ IF rd.retries = 0 THEN Backed(rd.lastid) /\ rd.id < rd.lastid ELSE rd.batch = {}
  BY <1>1, <1>2 DEF ReaderSound
<1>5. /\ ids \subseteq {n \in Committed : n > rd.id}
      /\ \A n \in Committed : \A m \in ids : rd.id < n /\ n <= m => n \in ids
      /\ (\E n \in Committed : n > rd.id) => ids # {}
  BY <1>3, <1>4, SelectLaws
<1> HIDE DEF ids
<1>6. ids \in SUBSET Ids /\ (\A n \in ids : n > rd.id) /\ ids \subseteq Nat /\ MaxRows \in Nat
      /\ ids \subseteq Committed
  BY <1>5, LastCommitted, ProxyUploadAssumption
<1>7. batch # {} => ids # {}
  <2> SUFFICES ASSUME rd.batch # {} PROVE ids # {}
    OBVIOUS
  <2>1. Backed(rd.lastid) /\ rd.id < rd.lastid
    BY <1>4
  <2>2. PICK n \in Committed : rd.lastid <= n
    BY <2>1, <1>3 DEF Backed
  <2>3. n \in Nat
    BY LastCommitted
  <2>4. n > rd.id
    BY <2>1, <2>2, <2>3, <1>3
  <2> QED
    BY <2>4, <1>5
<1>8. ASSUME ids # {}
      PROVE  last \in ids /\ (\A n \in ids : n <= last) /\ last \in Nat /\ rd.id < last
  <2>1. ids \subseteq 0 .. MaxRows
    BY <1>6 DEF Ids
  <2>2. Max(ids) \in ids /\ \A n \in ids : n <= Max(ids)
    BY <2>1, <1>6, <1>8, GreatestNatural
  <2>3. last = Max(ids)
    BY <1>8
  <2> HIDE DEF last
  <2> QED
    BY <2>2, <2>3, <1>6
<1>9. last \in Nat
  BY <1>3, <1>8
<1> HIDE DEF last
<1>10. records \subseteq batch /\ records \in SUBSET Ids
  BY <1>3, <1>6
<1>11. records # {} => ids # {}
  BY <1>7, <1>10
<1> HIDE DEF records
<1>12. IdleReader \in ReaderType /\ IdleReader.pc = "idle"
  BY DEF IdleReader, ReaderType
<1>13. /\ new \in ReaderType
       /\ records = {} => new.pc = "idle"
       /\ records # {} => new.pc = "send" /\ new.batch = records /\ new.lastid = last
  BY <1>3, <1>9, <1>10, <1>12 DEF ReaderType
<1> HIDE DEF new
<1>14. puRead'[r] = new
  BY <1>1, <1>2 DEF PUTypes
<1>15. Passing
  BY <1>1, <1>2 DEF Passing, PUTypes
<1>16. ReaderMove(r)
  BY <1>1, <1>2, <1>13, <1>14, <1>15 DEF ReaderMove, PUTypes
<1>17. ReaderSound(puRead[r])'
  <2>1. CASE records = {}
    BY <2>1, <1>13, <1>14 DEF ReaderSound
  <2>2. CASE records # {}
    <3>1. /\ last \in ids /\ (\A n \in ids : n <= last) /\ last \in Nat /\ rd.id < last
      BY <2>2, <1>8, <1>11
    <3>2. PICK i \in Nat, b \in SUBSET Ids, j \in Nat, m \in SUBSET Ids :
             i = last /\ b = records /\ j = rd.id /\ m = rd.batch
      BY <1>3, <1>9, <1>10
    <3>3. Backed(i)
      BY <3>1, <3>2, <1>6 DEF Backed
    <3>4. Backed(i)'
      BY <3>3, <1>16, ReaderMoveLaws
    <3>5. \A n \in batch : n \in b \/ n \in puExcused'
      BY <3>2, <1>1
    <3>6. ASSUME NEW n \in Ids, n <= i
          PROVE  /\ (puRows[n].st = "done")' => PassedOver(n)' \/ n \in b
                 /\ (puRows[n].st = "open")' => n \in puLate'
      <4>1. n \in Nat /\ puRows'[n] = puRows[n] /\ puGot'[n] = puGot[n]
        BY LastCommitted
      <4>2. ASSUME puRows[n].st = "open" PROVE n \in puLate'
        <5>1. last \in Committed
          BY <3>1, <1>6
        <5>2. n # last
          BY <4>2, <5>1 DEF Committed
        <5>3. n < last
          BY <5>2, <4>1, <3>1, <3>2, <3>6
        <5> QED
          BY <5>3, <4>2, <1>1
      <4>3. ASSUME puRows[n].st = "done" PROVE PassedOver(n)' \/ n \in b
        <5>1. CASE n <= rd.id
          <6>1. PassedOver(n) \/ n \in rd.batch
            BY <5>1, <4>3, <1>4 DEF SettledTo
          <6>2. PassedOver(n) => PassedOver(n)'
            BY <4>1, <1>1 DEF PassedOver
          <6>3. n \in puExcused' => PassedOver(n)'
            BY DEF PassedOver
          <6> QED
            BY <6>1, <6>2, <6>3, <3>5
        <5>2. CASE n > rd.id
          <6>1. n \in Committed
            BY <4>3 DEF Committed
          <6>2. n \in ids
            BY <6>1, <5>2, <3>1, <3>2, <3>6, <1>5
          <6>3. n \in puExcused' => PassedOver(n)'
            BY DEF PassedOver
          <6> QED
            BY <6>2, <6>3, <3>5
        <5> QED
          BY <5>1, <5>2, <4>1, <1>3
      <4> QED
        BY <4>1, <4>2, <4>3
    <3>7. SettledTo(i, b)'
      BY <3>6 DEF SettledTo
    <3>8. puRead[r]'.pc = "send" /\ puRead[r]'.batch = b /\ puRead[r]'.lastid = i
      BY <2>2, <3>2, <1>13, <1>14
    <3> QED
      BY <3>4, <3>7, <3>8 DEF ReaderSound
  <2> QED
    BY <2>1, <2>2
<1>18. ASSUME NEW n \in Ids PROVE UsesCounted(n)'
  <2>1. PICK c \in Nat : /\ Uses(n) = puGot[n] + (IF MaySend(r, n) THEN c + 1 ELSE c)
                         /\ Uses(n)' = puGot'[n] + (IF MaySend(r, n)' THEN c + 1 ELSE c)
    BY <1>16, UsesMove
  <2>2. UsesCounted(n) /\ puGot[n] \in Nat /\ puGot'[n] = puGot[n] /\ puFaults \in Nat
    BY <1>16, UsesMove
  <2>3. \A q \in PUReaders \ {r} : /\ Beyond(q, n)' <=> Beyond(q, n)
                                   /\ Within(q, n)' <=> Within(q, n)
    BY <1>16, UsesMove
  <2>4. n \in Nat /\ rd.id \in Nat /\ last \in Nat
    BY LastCommitted, <1>3, <1>9
  <2>5. (MaySend(r, n) <=> n > rd.id \/ n \in rd.batch) /\ (Within(r, n) <=> MaySend(r, n)) /\ ~Beyond(r, n)
    BY <1>1 DEF MaySend, Within, Beyond
  <2>6. CASE records = {}
    <3>1. ~MaySend(r, n)' /\ ~Beyond(r, n)' /\ ~Within(r, n)'
      BY <2>6, <1>13, <1>14 DEF MaySend, Beyond, Within
    <3>2. /\ Uses(n) \in Nat /\ Uses(n)' \in Nat
          /\ Uses(n)' = IF MaySend(r, n) THEN Uses(n) - 1 ELSE Uses(n)
      BY <3>1, <2>1, <2>2
    <3> HIDE DEF Uses
    <3> QED
      BY <3>1, <3>2, <2>2, <2>3, <2>5 DEF UsesCounted
  <2>7. CASE records # {}
    <3>1. /\ MaySend(r, n)' <=> n \in records
          /\ Beyond(r, n)' <=> n > last
          /\ Within(r, n)' <=> n <= last
      BY <2>7, <1>13, <1>14 DEF MaySend, Beyond, Within
    <3>2. rd.id < last /\ \A m \in ids : m <= last /\ m > rd.id
      BY <2>7, <1>6, <1>8, <1>11
    <3>3. n \in records => MaySend(r, n) /\ n <= last
      <4>1. ASSUME n \in records PROVE n \in rd.batch \/ n \in ids
        BY <4>1, <1>10
      <4>2. n \in rd.batch => n <= last
        BY <2>4, <3>2, <1>4
      <4> QED
        BY <4>1, <4>2, <3>2, <2>5
    <3>4. n > last => MaySend(r, n) /\ ~MaySend(r, n)'
      BY <2>4, <2>5, <3>1, <3>2, <3>3
    <3>5. /\ Uses(n) \in Nat /\ Uses(n)' \in Nat /\ Uses(n)' <= Uses(n)
          /\ n > last => Uses(n)' = Uses(n) - 1
      BY <2>1, <2>2, <3>1, <3>3, <3>4
    <3> HIDE DEF Uses
    <3>6. Uses(n)' <= 1 + puFaults /\ (n > last => Uses(n)' <= puFaults)
      BY <3>5, <2>2 DEF UsesCounted
    <3>7. (\E q \in PUReaders : Beyond(q, n)') => Uses(n)' <= puFaults
      BY <3>1, <3>5, <3>6, <2>2, <2>3 DEF UsesCounted
    <3>8. ~Within(r, n)' => Uses(n)' <= puFaults
      BY <3>1, <3>6, <2>4
    <3> QED
      BY <3>6, <3>7, <3>8 DEF UsesCounted
  <2> QED
    BY <2>6, <2>7
<1> QED
  BY <1>16, <1>17, <1>18, LastKept, ReaderMoveKeeps

-----------------------------------------------------------------------------
LEMMA PUInitSound == PUInit => PUInv
<1> SUFFICES ASSUME PUInit PROVE PUInv
  OBVIOUS
<1>1. /\ \A n \in Ids : puRows[n] = NoRow /\ puGot[n] = 0
      /\ \A r \in PUReaders : puRead[r] = IdleReader
      /\ IdleReader.pc = "idle" /\ NoRow.st = "none"
  BY DEF PUInit, IdleReader, NoRow
<1>2. PUTypes
  <2>1. NoRow \in RowType /\ IdleReader \in ReaderType
    BY DEF NoRow, IdleReader, RowType, ReaderType
  <2> QED
    BY <2>1 DEF PUInit, PUTypes
<1>3. RowsBefore /\ Backed(puLast)
  BY <1>1 DEF RowsBefore, Backed, PUInit
<1>4. SettledTo(puLast, {})
  BY <1>1 DEF SettledTo
<1>5. \A r \in PUReaders : ReaderSound(puRead[r])
  BY <1>1 DEF ReaderSound
<1>6. Busy = {}
  BY <1>1 DEF Busy
<1>7. ASSUME NEW n \in Ids PROVE UsesCounted(n)
  <2>1. Senders(n) = {}
    BY <1>1 DEF Senders, MaySend
  <2>2. Uses(n) = 0
    BY <2>1, <1>1, FS_EmptySet DEF Uses
  <2>3. puFaults = 0
    BY DEF PUInit
  <2> QED
    BY <2>2, <2>3 DEF UsesCounted
<1> QED
  BY <1>2, <1>3, <1>4, <1>5, <1>6, <1>7, FS_EmptySet DEF PUInv

LEMMA PUStep == PUInv /\ [PUNext]_puVars => PUInv'
<1> SUFFICES ASSUME PUInv, [PUNext]_puVars PROVE PUInv'
  OBVIOUS
<1>1. ASSUME NEW s \in PUSyncers, NEW item \in PUItems, ProxyInsert(s, item) PROVE PUInv'
  BY <1>1, InsertKeeps
<1>2. ASSUME NEW s \in PUSyncers, NEW st \in {"done", "none"}, ProxyEnd(s, st) PROVE PUInv'
  BY <1>2, EndKeeps
<1>3. ASSUME NEW r \in PUReaders, proxy_get_lastid(r) PROVE PUInv'
  BY <1>3, GetLastidKeeps
<1>4. ASSUME NEW r \in PUReaders, proxy_get_history_data(r) PROVE PUInv'
  <2>1. /\ puRead[r].pc = "read"
        /\ \/ ReadAgain(r, SelectN(puRead[r].id, puRead[r].lim))
           \/ ReadDone(r, SelectN(puRead[r].id, puRead[r].lim))
        /\ UNCHANGED <<puRows, puNextId, puLast, puItems, puNow, puGot, puFaults>>
    BY <1>4 DEF proxy_get_history_data
  <2> QED
    BY <2>1, ReadAgainKeeps, ReadDoneKeeps
<1>5. ASSUME NEW r \in PUReaders, proxy_set_lastid(r) PROVE PUInv'
  BY <1>5, SetLastidKeeps
<1>6. ASSUME NEW r \in PUReaders, NEW processed \in BOOLEAN, NEW answered \in BOOLEAN,
             SendBatch(r, processed, answered)
      PROVE  PUInv'
  BY <1>6, SendKeeps
<1>7. ASSUME NEW r \in PUReaders, ReaderRestart(r) PROVE PUInv'
  BY <1>7, ReaderRestartKeeps
<1> QED
  BY <1>1, <1>2, <1>3, <1>4, <1>5, <1>6, <1>7, DatabaseRestartKeeps, HousekeeperKeeps, RestKeeps
     DEF PUNext

\* Whatever happens to the database, the readers, the proxy and the server: history_lastid
\* only passes rows that were processed, given up or late, no row is processed more often
\* than faults explain, and no new row gets an id it has passed.
THEOREM UploadKeeps == PUSpec => []UploadSound
<1>1. PUInv => UploadSound
  <2> SUFFICES ASSUME PUInv PROVE UploadSound
    OBVIOUS
  <2>1. PUTypes /\ RowsBefore /\ Backed(puLast) /\ SettledTo(puLast, {}) /\ puLast \in Nat
    BY DEF PUInv, PUTypes
  <2>2. puLast < puNextId
    BY <2>1, BackedIsBefore
  <2>3. FreshIds
    BY <2>1, <2>2 DEF FreshIds, PUTypes
  <2>4. \A n \in Committed \ (puLate \cup puExcused) : n <= puLast => puGot[n] > 0
    BY <2>1 DEF SettledTo, PassedOver, Committed
  <2>5. ASSUME NEW n \in Ids PROVE puGot[n] <= 1 + puFaults
    <3>1. Senders(n) \subseteq Busy /\ IsFiniteSet(Busy) /\ UsesCounted(n)
      BY DEF Senders, Busy, MaySend, PUInv
    <3>2. Cardinality(Senders(n)) \in Nat
      BY <3>1, FS_Subset, FS_CardinalityType
    <3>3. puGot[n] \in Nat /\ puFaults \in Nat
      BY <2>1 DEF PUTypes
    <3> QED
      BY <3>1, <3>2, <3>3 DEF UsesCounted, Uses
  <2> QED
    BY <2>3, <2>4, <2>5 DEF UploadSound, UploadExact
<1> QED
  BY <1>1, PUInitSound, PUStep, PTL DEF PUSpec

-----------------------------------------------------------------------------
(* The alerter *)

\* A row of table alerts
AlertRow == [status : {"not_sent", "sent", "failed"}, retries : Nat]

\* The table, the attempts and the rows that were read
AlertTypes ==
    /\ alAlerts \in Seq(AlertRow)
    /\ alTries \in Seq(Nat) /\ Len(alTries) = Len(alAlerts)
    /\ alTodo \in [DOMAIN alTodo -> Nat] /\ DOMAIN alTodo \subseteq DOMAIN alAlerts
    /\ alResult \in {"none", "ok", "error"}
    /\ alCrashes \in Nat

\* A row that was read is still what the table says: nobody else changes an alert.
RowsCurrent ==
    \A n \in DOMAIN alTodo : alAlerts[n].status = "not_sent" /\ alTodo[n] = alAlerts[n].retries

\* The attempts at alert n that are noted, and the one whose result is not yet
Noted(n) ==
    IF Fetched(n) /\ alResult # "none" THEN alAlerts[n].retries + 1 ELSE alAlerts[n].retries

\* An alert that waits: every attempt is noted, but those that a crash has cut off.
Waiting(n) ==
    /\ alAlerts[n].retries < ALERT_MAX_RETRIES
    /\ Noted(n) <= alTries[n] /\ alTries[n] <= Noted(n) + alCrashes
    /\ Fetched(n) /\ alResult = "ok" => n \in alGot

Sent(n) == n \in alGot /\ alTries[n] <= ALERT_MAX_RETRIES + alCrashes

Failed(n) ==
    /\ alTries[n] <= ALERT_MAX_RETRIES + alCrashes
    /\ alTries[n] >= ALERT_MAX_RETRIES \/ alTries[n] = 0

Accounted(n) ==
    /\ alAlerts[n].status = "not_sent" => Waiting(n)
    /\ alAlerts[n].status = "sent" => Sent(n)
    /\ alAlerts[n].status = "failed" => Failed(n)

Accounts == \A n \in DOMAIN alAlerts : Accounted(n)

\* A result is that of a row that was read.
Idle == DOMAIN alTodo = {} => alResult = "none"

AlertInv == AlertTypes /\ RowsCurrent /\ Idle /\ Accounts

-----------------------------------------------------------------------------
\* What the types say of one alert of main_alerter_loop.
LEMMA OneAlert ==
  ASSUME AlertTypes, NEW n \in DOMAIN alAlerts
  PROVE  /\ alAlerts[n].status \in {"not_sent", "sent", "failed"}
         /\ alAlerts[n].retries \in Nat /\ alTries[n] \in Nat
         /\ alCrashes \in Nat /\ ALERT_MAX_RETRIES \in Nat \ {0}
         /\ Noted(n) \in Nat
  <1>1. alAlerts[n] \in AlertRow
    BY DEF AlertTypes
  <1>2. n \in DOMAIN alTries
    BY DEF AlertTypes
  <1>3. alTries[n] \in Nat
    BY <1>2 DEF AlertTypes
  <1> QED
    BY <1>1, <1>3, AlerterAssumption DEF AlertRow, AlertTypes, Noted

\* The invariant gives the property.
LEMMA AlertInvSafe == AlertInv => AttemptsCounted
  <1> SUFFICES ASSUME AlertInv, NEW n \in DOMAIN alAlerts
               PROVE  /\ alTries[n] <= ALERT_MAX_RETRIES + alCrashes
                      /\ alAlerts[n].status = "failed" => alTries[n] >= ALERT_MAX_RETRIES \/ alTries[n] = 0
                      /\ alAlerts[n].status = "sent" => n \in alGot
    BY DEF AttemptsCounted
  <1>1. Accounted(n) /\ AlertTypes
    BY DEF AlertInv, Accounts
  <1> QED
    BY <1>1, OneAlert DEF Accounted, Waiting, Noted, Sent, Failed

\* In the first state there is no alert.
LEMMA AlertInvInit == AlertInit => AlertInv
  <1> SUFFICES ASSUME AlertInit PROVE AlertInv
    OBVIOUS
  <1>1. /\ alAlerts = <<>> /\ alTries = <<>> /\ DOMAIN alTodo = {} /\ alTodo \in [DOMAIN alTodo -> Nat]
        /\ alResult = "none" /\ alCrashes = 0
    BY DEF AlertInit, NoRows
  <1>2. DOMAIN alAlerts = {}
    BY <1>1
  <1>3. AlertTypes
    BY <1>1, <1>2 DEF AlertTypes
  <1> QED
    BY <1>1, <1>2, <1>3 DEF AlertInv, RowsCurrent, Idle, Accounts

-----------------------------------------------------------------------------
\* db_insert_alert adds an alert that was never tried.
LEMMA AlertInsertKeeps ==
  ASSUME AlertInv, NEW active \in BOOLEAN, db_insert_alert(active)
  PROVE  AlertInv'
  <1> DEFINE a == [status |-> IF active THEN "not_sent" ELSE "failed", retries |-> 0]
  <1>0. PICK new \in Nat : new = Len(alAlerts) + 1
    BY DEF AlertInv, AlertTypes
  <1>1. /\ alAlerts' = Append(alAlerts, a) /\ alTries' = Append(alTries, 0)
        /\ UNCHANGED <<alTodo, alResult, alGot, alCrashes>>
    BY DEF db_insert_alert
  <1>2. /\ a \in AlertRow /\ a.retries = 0
        /\ a.status \in {"not_sent", "failed"}
    BY DEF AlertRow
  <1> HIDE DEF a
  <1>3. alAlerts \in Seq(AlertRow) /\ alTries \in Seq(Nat) /\ Len(alTries) = Len(alAlerts)
    BY DEF AlertInv, AlertTypes
  <1>4. /\ alAlerts' \in Seq(AlertRow) /\ DOMAIN alAlerts' = DOMAIN alAlerts \cup {new}
        /\ \A n \in DOMAIN alAlerts : alAlerts'[n] = alAlerts[n]
        /\ alAlerts'[new] = a /\ new \notin DOMAIN alAlerts /\ Len(alAlerts') = new
    BY <1>0, <1>1, <1>2, <1>3
  <1>5. /\ alTries' \in Seq(Nat) /\ Len(alTries') = new
        /\ \A n \in DOMAIN alAlerts : alTries'[n] = alTries[n]
        /\ alTries'[new] = 0
    BY <1>0, <1>1, <1>3
  <1>6. AlertTypes'
    BY <1>1, <1>4, <1>5 DEF AlertInv, AlertTypes
  <1>7. RowsCurrent' /\ Idle'
    BY <1>1, <1>4 DEF AlertInv, AlertTypes, RowsCurrent, Idle
  <1>8. ASSUME NEW n \in DOMAIN alAlerts
        PROVE  Accounted(n)'
    <2>1. Accounted(n)
      BY DEF AlertInv, Accounts
    <2>2. alAlerts'[n] = alAlerts[n] /\ alTries'[n] = alTries[n]
      BY <1>4, <1>5
    <2> QED
      BY <1>1, <2>1, <2>2 DEF Accounted, Waiting, Sent, Failed, Noted, Fetched
  <1>9. Accounted(new)'
    <2>1. new \notin DOMAIN alTodo
      BY <1>4 DEF AlertInv, AlertTypes
    <2>2. ~ Fetched(new)'
      BY <1>1, <2>1 DEF Fetched
    <2>3. /\ ALERT_MAX_RETRIES \in Nat /\ 0 < ALERT_MAX_RETRIES
          /\ alCrashes \in Nat /\ alCrashes' = alCrashes
      BY <1>1, AlerterAssumption DEF AlertInv, AlertTypes
    <2>4. alTries'[new] = 0 /\ alAlerts'[new].retries = 0
      BY <1>2, <1>4, <1>5
    <2>5. Noted(new)' = 0
      BY <2>2, <2>4 DEF Noted
    <2>6. Waiting(new)' /\ Failed(new)'
      BY <2>2, <2>3, <2>4, <2>5 DEF Waiting, Failed
    <2>7. alAlerts'[new].status \in {"not_sent", "failed"}
      BY <1>2, <1>4
    <2> QED
      BY <2>6, <2>7 DEF Accounted
  <1> QED
    BY <1>4, <1>6, <1>7, <1>8, <1>9 DEF AlertInv, Accounts

\* The SELECT reads the alerts that wait, while no message is out.
LEMMA SelectKeeps ==
  ASSUME AlertInv, AlertSelect
  PROVE  AlertInv'
  <1>1. /\ DOMAIN alTodo = {} /\ alTodo' = [n \in Unsent |-> alAlerts[n].retries]
        /\ UNCHANGED <<alAlerts, alResult, alTries, alGot, alCrashes>>
    BY DEF AlertSelect
  <1>2. Unsent \subseteq DOMAIN alAlerts /\ \A n \in Unsent : alAlerts[n].status = "not_sent"
    BY DEF Unsent
  <1>3. \A n \in DOMAIN alAlerts : alAlerts[n].retries \in Nat
    BY OneAlert DEF AlertInv
  <1>4. AlertTypes'
    BY <1>1, <1>2, <1>3 DEF AlertInv, AlertTypes
  <1>5. RowsCurrent'
    BY <1>1, <1>2 DEF RowsCurrent
  <1>6. alResult = "none"
    BY <1>1 DEF AlertInv, Idle
  <1>7. ASSUME NEW n \in DOMAIN alAlerts
        PROVE  Accounted(n)'
    <2>1. Accounted(n)
      BY DEF AlertInv, Accounts
    <2>2. ~ Fetched(n)
      BY <1>1 DEF Fetched
    <2> QED
      BY <1>1, <1>6, <2>1, <2>2 DEF Accounted, Waiting, Sent, Failed, Noted
  <1>8. Idle'
    BY <1>1, <1>6 DEF Idle
  <1> QED
    BY <1>1, <1>4, <1>5, <1>7, <1>8 DEF AlertInv, Accounts

\* execute_action: one more attempt at the alert that is fetched.
LEMMA ExecuteKeeps ==
  ASSUME AlertInv, NEW k \in DOMAIN alTodo, NEW res \in {"ok", "error"}, NEW accepted \in BOOLEAN,
         execute_action(k, res, accepted)
  PROVE  AlertInv'
  <1>1. /\ Fetched(k) /\ alResult = "none" /\ alResult' = res /\ (res = "ok" => accepted)
        /\ alTries' = [alTries EXCEPT ![k] = @ + 1]
        /\ alGot' = IF accepted THEN alGot \cup {k} ELSE alGot
        /\ UNCHANGED <<alAlerts, alTodo, alCrashes>>
    BY DEF execute_action
  <1>2. /\ alTries \in Seq(Nat) /\ Len(alTries) = Len(alAlerts) /\ k \in DOMAIN alAlerts
        /\ alAlerts \in Seq(AlertRow)
    BY DEF AlertInv, AlertTypes
  <1>3. /\ alTries' \in Seq(Nat) /\ Len(alTries') = Len(alTries)
        /\ alTries'[k] = alTries[k] + 1
        /\ \A n \in DOMAIN alAlerts \ {k} : alTries'[n] = alTries[n]
    BY <1>1, <1>2
  <1>4. AlertTypes'
    BY <1>1, <1>3 DEF AlertInv, AlertTypes
  <1>5. RowsCurrent' /\ Idle'
    BY <1>1 DEF AlertInv, RowsCurrent, Idle
  <1>6. \A n \in DOMAIN alAlerts : Fetched(n) => n = k
    <2> SUFFICES ASSUME NEW n \in DOMAIN alAlerts, Fetched(n) PROVE n = k
      OBVIOUS
    <2>1. n <= k /\ k <= n
      BY <1>1 DEF Fetched
    <2>2. n \in Nat /\ k \in Nat
      BY <1>2
    <2> QED
      BY <2>1, <2>2
  <1>7. ASSUME NEW n \in DOMAIN alAlerts, n # k
        PROVE  Accounted(n)'
    <2>1. Accounted(n) /\ ~ Fetched(n)
      BY <1>6, <1>7 DEF AlertInv, Accounts
    <2>2. alTries'[n] = alTries[n] /\ (n \in alGot' <=> n \in alGot) /\ ~ Fetched(n)'
      BY <1>1, <1>3, <1>7, <2>1 DEF Fetched
    <2> QED
      BY <1>1, <2>1, <2>2 DEF Accounted, Waiting, Sent, Failed, Noted
  <1>8. Accounted(k)'
    <2>1. alAlerts[k].status = "not_sent" /\ Waiting(k)
      BY <1>2 DEF AlertInv, Accounts, Accounted, RowsCurrent
    <2>2. /\ alAlerts[k].retries \in Nat /\ alTries[k] \in Nat /\ alCrashes \in Nat
          /\ ALERT_MAX_RETRIES \in Nat
      BY <1>2, OneAlert DEF AlertInv
    <2>3. /\ Noted(k) = alAlerts[k].retries /\ Noted(k)' = alAlerts[k].retries + 1
          /\ res = "ok" => k \in alGot'
      BY <1>1 DEF Noted, Fetched
    <2>4. Waiting(k)'
      <3>1. alAlerts[k].retries < ALERT_MAX_RETRIES /\ alAlerts'[k].retries = alAlerts[k].retries
        BY <1>1, <2>1 DEF Waiting
      <3>2. Noted(k) <= alTries[k] /\ alTries[k] <= Noted(k) + alCrashes /\ alCrashes' = alCrashes
        BY <1>1, <2>1 DEF Waiting
      <3>3. Noted(k)' <= alTries'[k] /\ alTries'[k] <= Noted(k)' + alCrashes'
        BY <1>3, <2>2, <2>3, <3>2
      <3>4. Fetched(k)' /\ alResult' = "ok" => k \in alGot'
        BY <1>1, <2>3
      <3> QED
        BY <3>1, <3>3, <3>4 DEF Waiting
    <2> QED
      BY <1>1, <2>1, <2>4 DEF Accounted
  <1> QED
    BY <1>1, <1>4, <1>5, <1>7, <1>8 DEF AlertInv, Accounts

\* The result is noted in the row that was read (alerter.c:204-231).
LEMMA ResultKeeps ==
  ASSUME AlertInv, NEW k \in DOMAIN alTodo, AlertResult(k)
  PROVE  AlertInv'
  <1> DEFINE row == IF alResult = "ok" THEN [alAlerts[k] EXCEPT !.status = "sent"]
                    ELSE AfterFailure(alTodo[k])
  <1>1. /\ Fetched(k) /\ alResult # "none" /\ alResult' = "none"
        /\ alAlerts' = [alAlerts EXCEPT ![k] = row]
        /\ alTodo' = [n \in DOMAIN alTodo \ {k} |-> alTodo[n]]
        /\ UNCHANGED <<alTries, alGot, alCrashes>>
    BY DEF AlertResult, Restrict
  <1>2. /\ k \in DOMAIN alAlerts /\ alAlerts \in Seq(AlertRow) /\ Len(alTries) = Len(alAlerts)
        /\ alResult \in {"ok", "error"}
    BY <1>1 DEF AlertInv, AlertTypes
  <1>3. /\ alAlerts[k].status = "not_sent" /\ Waiting(k) /\ alTodo[k] = alAlerts[k].retries
        /\ Noted(k) = alAlerts[k].retries + 1
    BY <1>1, <1>2 DEF AlertInv, Accounts, Accounted, RowsCurrent, Noted
  <1>4. /\ alAlerts[k] \in AlertRow /\ alAlerts[k].retries \in Nat /\ alTries[k] \in Nat
        /\ alCrashes \in Nat /\ ALERT_MAX_RETRIES \in Nat
    BY <1>2, OneAlert DEF AlertInv
  <1>5. /\ row \in AlertRow
        /\ alResult = "ok" => row.status = "sent"
        /\ alResult # "ok" => /\ row.retries = alAlerts[k].retries + 1
                              /\ row.status = IF alAlerts[k].retries + 1 < ALERT_MAX_RETRIES
                                              THEN "not_sent" ELSE "failed"
    BY <1>3, <1>4 DEF AlertRow, AfterFailure
  <1> HIDE DEF row
  <1>6. /\ alAlerts' \in Seq(AlertRow) /\ Len(alAlerts') = Len(alAlerts)
        /\ DOMAIN alAlerts' = DOMAIN alAlerts /\ alAlerts'[k] = row
        /\ \A n \in DOMAIN alAlerts \ {k} : alAlerts'[n] = alAlerts[n]
    BY <1>1, <1>2, <1>5
  <1>7. AlertTypes'
    BY <1>1, <1>6 DEF AlertInv, AlertTypes
  <1>8. RowsCurrent' /\ Idle'
    BY <1>1, <1>6 DEF AlertInv, AlertTypes, RowsCurrent, Idle
  <1>9. ASSUME NEW n \in DOMAIN alAlerts, n # k
        PROVE  Accounted(n)'
    <2>1. Accounted(n)
      BY DEF AlertInv, Accounts
    <2>2. ~ Fetched(n)
      <3>1. n \in Nat /\ k \in Nat
        BY <1>2
      <3> QED
        BY <1>1, <1>9, <3>1 DEF Fetched
    <2>3. alAlerts'[n] = alAlerts[n]
      BY <1>6, <1>9
    <2> QED
      BY <1>1, <2>1, <2>2, <2>3 DEF Accounted, Waiting, Sent, Failed, Noted
  <1>10. Accounted(k)'
    <2>1. CASE alResult = "ok"
      <3>1. k \in alGot /\ alTries[k] <= ALERT_MAX_RETRIES + alCrashes
        BY <1>1, <1>3, <1>4, <2>1 DEF Waiting
      <3> QED
        BY <1>1, <1>5, <1>6, <2>1, <3>1 DEF Accounted, Sent
    <2>2. CASE alResult # "ok"
      <3>1. Noted(k)' = alAlerts[k].retries + 1
        BY <1>1, <1>5, <1>6, <2>2 DEF Noted
      <3>2. /\ alAlerts[k].retries + 1 <= alTries[k]
            /\ alTries[k] <= alAlerts[k].retries + 1 + alCrashes
            /\ alAlerts[k].retries < ALERT_MAX_RETRIES
        BY <1>3 DEF Waiting
      <3>3. alAlerts'[k].status = "not_sent" => Waiting(k)'
        BY <1>1, <1>4, <1>5, <1>6, <2>2, <3>1, <3>2 DEF Waiting
      <3>4. alAlerts'[k].status = "failed" => Failed(k)'
        BY <1>1, <1>4, <1>5, <1>6, <2>2, <3>2 DEF Failed
      <3> QED
        BY <1>5, <1>6, <2>2, <3>3, <3>4 DEF Accounted
    <2> QED
      BY <2>1, <2>2
  <1> QED
    BY <1>6, <1>7, <1>8, <1>9, <1>10 DEF AlertInv, Accounts

\* A crash: the attempt that is out is never noted, and counts as one of the crash.
LEMMA CrashKeeps ==
  ASSUME AlertInv, AlertCrash
  PROVE  AlertInv'
  <1>1. /\ alTodo' = NoRows /\ alResult' = "none" /\ alCrashes' = alCrashes + 1
        /\ UNCHANGED <<alAlerts, alTries, alGot>>
    BY DEF AlertCrash
  <1>2. DOMAIN alTodo' = {} /\ alTodo' \in [DOMAIN alTodo' -> Nat]
    BY <1>1 DEF NoRows
  <1>3. AlertTypes' /\ RowsCurrent' /\ Idle'
    BY <1>1, <1>2 DEF AlertInv, AlertTypes, RowsCurrent, Idle
  <1>4. ASSUME NEW n \in DOMAIN alAlerts
        PROVE  Accounted(n)'
    <2>1. Accounted(n)
      BY DEF AlertInv, Accounts
    <2>2. /\ alAlerts[n].retries \in Nat /\ alTries[n] \in Nat /\ alCrashes \in Nat
          /\ ALERT_MAX_RETRIES \in Nat
      BY OneAlert DEF AlertInv
    <2>3. ~ Fetched(n)'
      BY <1>2 DEF Fetched
    <2> QED
      BY <1>1, <2>1, <2>2, <2>3 DEF Accounted, Waiting, Sent, Failed, Noted
  <1> QED
    BY <1>1, <1>3, <1>4 DEF AlertInv, Accounts

\* Every step of the alerter and of the escalator that inserts keeps the invariant.
LEMMA AlertInvStep == AlertInv /\ [AlertNext]_alVars => AlertInv'
  <1> SUFFICES ASSUME AlertInv, [AlertNext]_alVars PROVE AlertInv'
    OBVIOUS
  <1>1. CASE \E active \in BOOLEAN : db_insert_alert(active)
    BY <1>1, AlertInsertKeeps
  <1>2. CASE AlertSelect
    BY <1>2, SelectKeeps
  <1>3. CASE AlertCrash
    BY <1>3, CrashKeeps
  <1>4. CASE \E n \in DOMAIN alTodo, res \in {"ok", "error"}, accepted \in BOOLEAN :
               execute_action(n, res, accepted)
    BY <1>4, ExecuteKeeps
  <1>5. CASE \E n \in DOMAIN alTodo : AlertResult(n)
    BY <1>5, ResultKeeps
  <1>6. CASE UNCHANGED alVars
    BY <1>6 DEF alVars, AlertInv, AlertTypes, RowsCurrent, Idle, Accounts, Accounted, Waiting, Sent,
       Failed, Noted, Fetched
  <1> QED
    BY <1>1, <1>2, <1>3, <1>4, <1>5, <1>6 DEF AlertNext

\* Whatever the medium answers and whenever the alerter stops, an alert is tried
\* at most ALERT_MAX_RETRIES times and once more for a crash, given up only after
\* as many attempts, and called sent only when the medium has it.
THEOREM AttemptsBounded == AlertSpec => []AttemptsCounted
  <1>1. AlertSpec => []AlertInv
    BY AlertInvInit, AlertInvStep, PTL DEF AlertSpec
  <1> QED
    BY <1>1, AlertInvSafe, PTL

-----------------------------------------------------------------------------
(* The escalator *)

EscEvent == [trigger : EscTriggers, problem : BOOLEAN]
EscMsg == [ev : Nat, rev : Nat, step : Nat]
EscRow == [id : Nat, trigger : EscTriggers, ev : Nat, rev : Nat, next : Nat, step : Nat,
           status : {"active", "sleep"}]
EscRecord == [id : Nat, trigger : EscTriggers, ev : Nat, rev : Nat, next : Nat, step : Nat,
              status : {"active", "sleep", "completed"}]

EscTypes ==
  /\ esNow \in Nat /\ esPeriod \in Nat /\ esNextId \in Nat
  /\ esEvents \in Seq(EscEvent) /\ esMsgs \in Seq(EscMsg)
  /\ esRows \subseteq EscRow /\ IsFiniteSet(esRows)
  /\ esOpen \in [EscTriggers -> [on : BOOLEAN, rows : SUBSET EscRow]]
  /\ \A t \in EscTriggers : IsFiniteSet(esOpen[t].rows)
  /\ esScan \in [on : BOOLEAN, now : Nat, rest : Seq(EscRecord), dels : SUBSET Nat]

\* The rows of the table and those of open transactions
AllEsc == esRows \cup UNION {esOpen[t].rows : t \in EscTriggers}

\* A row is of a problem or of a recovery.
EventOf(r) == IF r.rev # 0 THEN r.rev ELSE r.ev

EscFacts(r) ==
  /\ r.id < esNextId /\ (r.ev = 0 <=> r.rev # 0)
  /\ EventOf(r) \in DOMAIN esEvents
  /\ esEvents[EventOf(r)].trigger = r.trigger /\ (esEvents[EventOf(r)].problem <=> r.rev = 0)

\* The rows come in the order of their events, and a problem has one.
EscOrdered ==
  \A r \in AllEsc, s \in AllEsc :
    /\ r.id = s.id => r = s
    /\ r.id < s.id => EventOf(r) <= EventOf(s)
    /\ r.ev # 0 /\ r.ev = s.ev => r = s

EscApart == \A t \in EscTriggers : \A r \in esOpen[t].rows : r \notin esRows /\ r.trigger = t

\* What the SELECT makes of a row
ReadEsc(r) == IF r.rev # 0 THEN [r EXCEPT !.status = "completed"] ELSE r

\* What is left of the scan is still what the table says, in order.
ScanTrue ==
  /\ \A n \in DOMAIN esScan.rest : \E r \in esRows : esScan.rest[n] = ReadEsc(r)
  /\ \A m \in DOMAIN esScan.rest, n \in DOMAIN esScan.rest :
       m < n => EscBefore(esScan.rest[m], esScan.rest[n])

\* What has been told of the problem of a row that is still there
ToldOf(r, M) ==
  /\ \A n \in DOMAIN M : M[n].ev = r.ev => M[n].rev = 0
  /\ esPeriod # 0 => \A n \in DOMAIN M : M[n].ev = r.ev => M[n].step <= r.step
  /\ esPeriod = 0 => \A m \in DOMAIN M, n \in DOMAIN M : M[m].ev = r.ev /\ M[n].ev = r.ev => m = n
  /\ esPeriod = 0 /\ r.status = "active" => \A n \in DOMAIN M : M[n].ev # r.ev

ToldTrue ==
  /\ \A n \in DOMAIN esMsgs : esMsgs[n].ev \in DOMAIN esEvents /\ esMsgs[n].rev \in {0} \cup DOMAIN esEvents
  /\ \A r \in AllEsc : r.ev # 0 => ToldOf(r, esMsgs)

EscInv ==
  /\ EscTypes /\ EscOrdered /\ EscApart /\ ScanTrue /\ ToldTrue /\ MessagesSound
  /\ \A r \in AllEsc : EscFacts(r)

\* MessagesSound of a sequence of messages
Once(M) ==
  \A m \in DOMAIN M, n \in DOMAIN M :
    m < n /\ M[m] = M[n] /\ M[n].rev = 0 =>
      /\ esPeriod = 0
      /\ \A k \in DOMAIN M : M[k] = M[m] => k \in {m, n}

Recovers(e, v) ==
  /\ e < v /\ ~ esEvents[v].problem /\ esEvents[v].trigger = esEvents[e].trigger

RecoversLast(M) ==
  \A m \in DOMAIN M :
    M[m].rev # 0 =>
      /\ Recovers(M[m].ev, M[m].rev)
      /\ \E k \in 1 .. m - 1 : M[k].ev = M[m].ev /\ M[k].rev = 0
      /\ \A k \in m + 1 .. Len(M) : M[k].ev # M[m].ev

LEMMA SoundParts == MessagesSound <=> Once(esMsgs) /\ RecoversLast(esMsgs)
  BY DEF MessagesSound, StepOnce, RecoveryLast, Once, RecoversLast, Recovers

\* A step of a problem is told.
LEMMA TellStep ==
  ASSUME NEW M \in Seq(EscMsg), NEW P \in EscMsg, P.rev = 0, esPeriod \in Nat,
         Once(M), RecoversLast(M),
         \A n \in DOMAIN M : M[n].ev = P.ev => M[n].rev = 0,
         esPeriod # 0 => \A n \in DOMAIN M : M[n].ev = P.ev => M[n].step < P.step,
         esPeriod = 0 => \A m \in DOMAIN M, n \in DOMAIN M : M[m].ev = P.ev /\ M[n].ev = P.ev => m = n
  PROVE  Once(Append(M, P)) /\ RecoversLast(Append(M, P))
  <1> DEFINE N == Append(M, P)
  <1>1. /\ Len(N) = Len(M) + 1 /\ Len(M) \in Nat /\ DOMAIN M = 1 .. Len(M)
        /\ DOMAIN N = 1 .. Len(M) + 1 /\ N[Len(M) + 1] = P
        /\ \A n \in DOMAIN M : N[n] = M[n]
    OBVIOUS
  <1>2. \A n \in DOMAIN M : M[n] \in EscMsg
    OBVIOUS
  <1> HIDE DEF N
  <1>3. Once(N)
    <2> SUFFICES ASSUME NEW m \in DOMAIN N, NEW n \in DOMAIN N, m < n, N[m] = N[n], N[n].rev = 0
                 PROVE  esPeriod = 0 /\ \A k \in DOMAIN N : N[k] = N[m] => k \in {m, n}
      BY DEF Once
    <2>1. m \in DOMAIN M /\ N[m] = M[m]
      BY <1>1
    <2>2. CASE n \in DOMAIN M
      <3>1. M[m] = M[n] /\ M[n].rev = 0
        BY <1>1, <2>1, <2>2
      <3>2. esPeriod = 0 /\ \A k \in DOMAIN M : M[k] = M[m] => k \in {m, n}
        BY <2>1, <2>2, <3>1 DEF Once
      <3>3. N[Len(M) + 1] # N[m]
        BY <1>1, <2>1, <2>2, <3>1, <3>2
      <3> QED
        BY <1>1, <2>1, <3>2, <3>3
    <2>3. CASE n = Len(M) + 1
      <3>1. M[m] = P
        BY <1>1, <2>1, <2>3
      <3>2. P.step \in Nat
        BY DEF EscMsg
      <3>3. esPeriod = 0
        BY <2>1, <3>1, <3>2
      <3>4. \A k \in DOMAIN M : M[k] = P => k = m
        BY <2>1, <3>1, <3>3
      <3> QED
        BY <1>1, <2>1, <2>3, <3>1, <3>3, <3>4
    <2> QED
      BY <1>1, <2>2, <2>3
  <1>4. RecoversLast(N)
    <2> SUFFICES ASSUME NEW m \in DOMAIN N, N[m].rev # 0
                 PROVE  /\ Recovers(N[m].ev, N[m].rev)
                        /\ \E k \in 1 .. m - 1 : N[k].ev = N[m].ev /\ N[k].rev = 0
                        /\ \A k \in m + 1 .. Len(N) : N[k].ev # N[m].ev
      BY DEF RecoversLast
    <2>1. m \in DOMAIN M /\ N[m] = M[m]
      BY <1>1
    <2>2. /\ Recovers(M[m].ev, M[m].rev)
          /\ \E k \in 1 .. m - 1 : M[k].ev = M[m].ev /\ M[k].rev = 0
          /\ \A k \in m + 1 .. Len(M) : M[k].ev # M[m].ev
      BY <2>1 DEF RecoversLast
    <2>3. P.ev # M[m].ev
      BY <2>1
    <2>4. \A k \in m + 1 .. Len(N) : N[k].ev # N[m].ev
      BY <1>1, <2>1, <2>2, <2>3
    <2>5. \E k \in 1 .. m - 1 : N[k].ev = N[m].ev /\ N[k].rev = 0
      BY <1>1, <2>1, <2>2
    <2> QED
      BY <2>1, <2>2, <2>4, <2>5
  <1> QED
    BY <1>3, <1>4 DEF N

\* The recovery of a problem is told.
LEMMA TellRecovery ==
  ASSUME NEW M \in Seq(EscMsg), NEW R \in EscMsg, R.rev # 0,
         Once(M), RecoversLast(M), Recovers(R.ev, R.rev),
         \A n \in DOMAIN M : M[n].ev = R.ev => M[n].rev = 0,
         \E n \in DOMAIN M : M[n].ev = R.ev
  PROVE  Once(Append(M, R)) /\ RecoversLast(Append(M, R))
  <1> DEFINE N == Append(M, R)
  <1>1. /\ Len(N) = Len(M) + 1 /\ Len(M) \in Nat /\ DOMAIN M = 1 .. Len(M)
        /\ DOMAIN N = 1 .. Len(M) + 1 /\ N[Len(M) + 1] = R
        /\ \A n \in DOMAIN M : N[n] = M[n]
    OBVIOUS
  <1> HIDE DEF N
  <1>2. Once(N)
    <2> SUFFICES ASSUME NEW m \in DOMAIN N, NEW n \in DOMAIN N, m < n, N[m] = N[n], N[n].rev = 0
                 PROVE  esPeriod = 0 /\ \A k \in DOMAIN N : N[k] = N[m] => k \in {m, n}
      BY DEF Once
    <2>1. m \in DOMAIN M /\ n \in DOMAIN M
      BY <1>1
    <2>2. M[m] = M[n] /\ M[n].rev = 0
      BY <1>1, <2>1
    <2>3. esPeriod = 0 /\ \A k \in DOMAIN M : M[k] = M[m] => k \in {m, n}
      BY <2>1, <2>2 DEF Once
    <2>4. N[Len(M) + 1] # N[m]
      BY <1>1, <2>1, <2>2
    <2> QED
      BY <1>1, <2>1, <2>3, <2>4
  <1>3. RecoversLast(N)
    <2> SUFFICES ASSUME NEW m \in DOMAIN N, N[m].rev # 0
                 PROVE  /\ Recovers(N[m].ev, N[m].rev)
                        /\ \E k \in 1 .. m - 1 : N[k].ev = N[m].ev /\ N[k].rev = 0
                        /\ \A k \in m + 1 .. Len(N) : N[k].ev # N[m].ev
      BY DEF RecoversLast
    <2>1. CASE m \in DOMAIN M
      <3>1. N[m] = M[m] /\ M[m].rev # 0
        BY <1>1, <2>1
      <3>2. /\ Recovers(M[m].ev, M[m].rev)
            /\ \E k \in 1 .. m - 1 : M[k].ev = M[m].ev /\ M[k].rev = 0
            /\ \A k \in m + 1 .. Len(M) : M[k].ev # M[m].ev
        BY <2>1, <3>1 DEF RecoversLast
      <3>3. R.ev # M[m].ev
        BY <2>1, <3>1
      <3>4. \A k \in m + 1 .. Len(N) : N[k].ev # N[m].ev
        BY <1>1, <2>1, <3>1, <3>2, <3>3
      <3>5. \E k \in 1 .. m - 1 : N[k].ev = N[m].ev /\ N[k].rev = 0
        BY <1>1, <2>1, <3>1, <3>2
      <3> QED
        BY <3>1, <3>2, <3>4, <3>5
    <2>2. CASE m = Len(M) + 1
      <3>1. N[m] = R
        BY <1>1, <2>2
      <3>2. \E k \in 1 .. m - 1 : N[k].ev = N[m].ev /\ N[k].rev = 0
        BY <1>1, <2>2, <3>1
      <3>3. \A k \in m + 1 .. Len(N) : N[k].ev # N[m].ev
        BY <1>1, <2>2
      <3> QED
        BY <3>1, <3>2, <3>3
    <2> QED
      BY <1>1, <2>1, <2>2
  <1> QED
    BY <1>2, <1>3 DEF N

LEMMA AllParts ==
  /\ \A r \in esRows : r \in AllEsc
  /\ \A t \in EscTriggers : \A r \in esOpen[t].rows : r \in AllEsc
  /\ \A r \in AllEsc : r \in esRows \/ \E t \in EscTriggers : r \in esOpen[t].rows
  BY DEF AllEsc

LEMMA AllTypes ==
  ASSUME EscTypes
  PROVE  \A r \in AllEsc : r \in EscRow
  BY AllParts DEF EscTypes

LEMMA EventLaws ==
  ASSUME EscTypes, NEW r \in AllEsc, EscFacts(r)
  PROVE  /\ EventOf(r) \in Nat /\ EventOf(r) \in 1 .. Len(esEvents)
         /\ r.ev # 0 => r.rev = 0 /\ EventOf(r) = r.ev
         /\ r.ev = 0 => r.rev # 0 /\ EventOf(r) = r.rev
  <1>1. r \in EscRow /\ r.ev \in Nat /\ r.rev \in Nat
    BY AllTypes DEF EscRow
  <1>2. DOMAIN esEvents = 1 .. Len(esEvents) /\ Len(esEvents) \in Nat
    BY DEF EscTypes
  <1> QED
    BY <1>1, <1>2 DEF EscFacts, EventOf

\* Two versions of one row
SameEsc(r, s) == r.id = s.id /\ r.trigger = s.trigger /\ r.ev = s.ev /\ r.rev = s.rev

\* A row is replaced by a version of it, or is gone.
LEMMA OrderedKept ==
  ASSUME EscInv, NEW old, NEW upd, AllEsc' \subseteq (AllEsc \ {old}) \cup {upd},
         upd \in AllEsc' => old \in AllEsc /\ SameEsc(old, upd),
         esEvents' = esEvents, esNextId' = esNextId
  PROVE  EscOrdered' /\ (\A r \in AllEsc : EscFacts(r))'
  <1>1. EscOrdered /\ \A r \in AllEsc : EscFacts(r)
    BY DEF EscInv
  <1>2. ASSUME NEW r \in AllEsc'
        PROVE  \/ r \in AllEsc /\ r # old
               \/ r = upd /\ old \in AllEsc /\ SameEsc(old, upd) /\ EventOf(upd) = EventOf(old)
    <2>1. (r \in AllEsc /\ r # old) \/ r = upd
      OBVIOUS
    <2> QED
      BY <2>1 DEF SameEsc, EventOf
  <1>3. ASSUME NEW r \in AllEsc'
        PROVE  EscFacts(r)'
    <2>1. CASE r \in AllEsc
      BY <1>1, <2>1 DEF EscFacts, EventOf
    <2>2. CASE r = upd /\ old \in AllEsc /\ SameEsc(old, upd) /\ EventOf(upd) = EventOf(old)
      <3>1. EscFacts(old)
        BY <1>1, <2>2
      <3>2. EscFacts(upd)
        BY <2>2, <3>1 DEF EscFacts, SameEsc
      <3> QED
        BY <2>2, <3>2 DEF EscFacts, EventOf
    <2> QED
      BY <1>2, <2>1, <2>2
  <1>4. ASSUME NEW r \in AllEsc', NEW s \in AllEsc'
        PROVE  /\ r.id = s.id => r = s
               /\ r.id < s.id => EventOf(r) <= EventOf(s)
               /\ r.ev # 0 /\ r.ev = s.ev => r = s
    <2>1. CASE r \in AllEsc /\ r # old /\ s \in AllEsc /\ s # old
      BY <1>1, <2>1 DEF EscOrdered
    <2>2. CASE r \in AllEsc /\ r # old /\ s = upd
      <3>1. old \in AllEsc /\ SameEsc(old, upd) /\ EventOf(upd) = EventOf(old)
        BY <1>2, <2>2 DEF SameEsc, EventOf
      <3> QED
        BY <1>1, <2>2, <3>1 DEF EscOrdered, SameEsc
    <2>3. CASE r = upd /\ s \in AllEsc /\ s # old
      <3>1. old \in AllEsc /\ SameEsc(old, upd) /\ EventOf(upd) = EventOf(old)
        BY <1>2, <2>3 DEF SameEsc, EventOf
      <3> QED
        BY <1>1, <2>3, <3>1 DEF EscOrdered, SameEsc
    <2>4. CASE r = upd /\ s = upd
      <3>1. old \in AllEsc /\ SameEsc(old, upd) /\ EventOf(upd) = EventOf(old)
        BY <2>4 DEF SameEsc, EventOf
      <3> QED
        BY <1>1, <2>4, <3>1 DEF EscOrdered, SameEsc
    <2> QED
      BY <1>2, <2>1, <2>2, <2>3, <2>4
  <1>5. EscOrdered'
    BY <1>4 DEF EscOrdered, EventOf
  <1> QED
    BY <1>3, <1>5

\* One row is replaced by a version of it or is gone, and messages are told of its problem.
LEMMA ToldKept ==
  ASSUME EscInv, NEW old \in AllEsc, NEW upd, old.ev # 0,
         AllEsc' \subseteq (AllEsc \ {old}) \cup {upd}, upd \in AllEsc' => ToldOf(upd, esMsgs)',
         \A n \in DOMAIN esMsgs' :
           \/ n \in DOMAIN esMsgs /\ esMsgs'[n] = esMsgs[n]
           \/ esMsgs'[n].ev = old.ev /\ esMsgs'[n].rev \in {0} \cup DOMAIN esEvents,
         esEvents' = esEvents, esPeriod' = esPeriod
  PROVE  ToldTrue'
  <1>1. EscOrdered /\ ToldTrue /\ EscTypes /\ EscFacts(old)
    BY DEF EscInv
  <1>2. old.ev \in DOMAIN esEvents
    BY <1>1, EventLaws DEF EscTypes, EscFacts
  <1>3. \A n \in DOMAIN esMsgs' : esMsgs'[n].ev \in DOMAIN esEvents /\ esMsgs'[n].rev \in {0} \cup DOMAIN esEvents
    BY <1>1, <1>2 DEF ToldTrue
  <1>4. ASSUME NEW r \in AllEsc', r.ev # 0
        PROVE  ToldOf(r, esMsgs)'
    <2>1. CASE r = upd
      BY <2>1
    <2>2. CASE r \in AllEsc /\ r # old
      <3>1. ToldOf(r, esMsgs)
        BY <1>1, <1>4, <2>2 DEF ToldTrue
      <3>2. r.ev # old.ev
        BY <1>1, <1>4, <2>2 DEF EscOrdered
      <3>3. \A n \in DOMAIN esMsgs' : esMsgs'[n].ev = r.ev => n \in DOMAIN esMsgs /\ esMsgs'[n] = esMsgs[n]
        BY <3>2
      <3> QED
        BY <3>1, <3>3 DEF ToldOf
    <2> QED
      BY <2>1, <2>2
  <1> QED
    BY <1>3, <1>4 DEF ToldTrue

\* Neither events nor messages change, and no row is new.
LEMMA FewerKept ==
  ASSUME EscInv, AllEsc' \subseteq AllEsc, esEvents' = esEvents, esNextId' = esNextId,
         esPeriod' = esPeriod, esMsgs' = esMsgs
  PROVE  EscOrdered' /\ (\A r \in AllEsc : EscFacts(r))' /\ ToldTrue' /\ MessagesSound'
  <1>1. EscOrdered /\ ToldTrue /\ MessagesSound /\ \A r \in AllEsc : EscFacts(r)
    BY DEF EscInv
  <1>2. EscOrdered'
    BY <1>1 DEF EscOrdered, EventOf
  <1>3. (\A r \in AllEsc : EscFacts(r))'
    BY <1>1 DEF EscFacts, EventOf
  <1>4. ToldTrue'
    BY <1>1 DEF ToldTrue, ToldOf
  <1>5. MessagesSound'
    BY <1>1 DEF MessagesSound, StepOnce, RecoveryLast
  <1> QED
    BY <1>2, <1>3, <1>4, <1>5

LEMMA ScanKept ==
  ASSUME ScanTrue, \A n \in DOMAIN esScan.rest : \E r \in esRows' : esScan.rest[n] = ReadEsc(r),
         esScan' = esScan
  PROVE  ScanTrue'
  BY DEF ScanTrue, ReadEsc, EscBefore

LEMMA ScanMoved ==
  ASSUME NEW rest, esScan'.rest = rest,
         \A n \in DOMAIN rest : \E r \in esRows' : rest[n] = ReadEsc(r),
         \A m \in DOMAIN rest, n \in DOMAIN rest : m < n => EscBefore(rest[m], rest[n])
  PROVE  ScanTrue'
  BY DEF ScanTrue, ReadEsc, EscBefore

LEMMA NoScanTypes ==
  /\ NoScan \in [on : BOOLEAN, now : Nat, rest : Seq(EscRecord), dels : SUBSET Nat]
  /\ NoScan.rest = <<>>
  BY DEF NoScan

LEMMA EscInitial == EscInit => EscInv
  <1> SUFFICES ASSUME EscInit
               PROVE  EscInv
    OBVIOUS
  <1>1. NoTxn \in [on : BOOLEAN, rows : SUBSET EscRow] /\ NoTxn.rows = {} /\ IsFiniteSet({})
    BY FS_EmptySet DEF NoTxn
  <1>2. EscTypes
    <2>1. esNow \in Nat /\ esPeriod \in Nat /\ esNextId \in Nat /\ esEvents \in Seq(EscEvent) /\ esMsgs \in Seq(EscMsg)
      BY EscAssumption DEF EscInit
    <2>2. esRows \subseteq EscRow /\ IsFiniteSet(esRows)
      BY <1>1 DEF EscInit
    <2>3. esOpen \in [EscTriggers -> [on : BOOLEAN, rows : SUBSET EscRow]] /\ \A t \in EscTriggers : esOpen[t] = NoTxn
      BY <1>1 DEF EscInit
    <2>4. \A t \in EscTriggers : IsFiniteSet(esOpen[t].rows)
      BY <1>1, <2>3
    <2>5. esScan \in [on : BOOLEAN, now : Nat, rest : Seq(EscRecord), dels : SUBSET Nat]
      BY NoScanTypes DEF EscInit
    <2> QED
      BY <2>1, <2>2, <2>3, <2>4, <2>5 DEF EscTypes
  <1>3. AllEsc = {}
    BY <1>1 DEF EscInit, AllEsc
  <1>4. EscOrdered /\ ToldTrue /\ MessagesSound /\ \A r \in AllEsc : EscFacts(r)
    BY <1>3 DEF EscInit, EscOrdered, ToldTrue, MessagesSound, StepOnce, RecoveryLast
  <1>5. EscApart /\ ScanTrue
    BY <1>1, NoScanTypes DEF EscInit, EscApart, ScanTrue
  <1> QED
    BY <1>2, <1>4, <1>5 DEF EscInv

\* The clock and the configuration
LEMMA EscStill ==
  ASSUME EscInv, esNow' \in Nat,
         UNCHANGED <<esPeriod, esEvents, esOpen, esNextId, esRows, esMsgs, esScan>>
  PROVE  EscInv'
  <1>1. AllEsc' \subseteq AllEsc
    BY DEF AllEsc
  <1>2. EscOrdered' /\ (\A r \in AllEsc : EscFacts(r))' /\ ToldTrue' /\ MessagesSound'
    BY <1>1, FewerKept
  <1>3. EscTypes' /\ EscApart' /\ ScanTrue'
    BY DEF EscInv, EscTypes, EscApart, ScanTrue
  <1> QED
    BY <1>2, <1>3 DEF EscInv

LEMMA EscCommits ==
  ASSUME EscInv, NEW t \in EscTriggers, CommitEvent(t)
  PROVE  EscInv'
  <1>1. /\ esRows' = esRows \cup esOpen[t].rows /\ esOpen' = [esOpen EXCEPT ![t] = NoTxn]
        /\ UNCHANGED <<esNow, esPeriod, esEvents, esNextId, esMsgs, esScan>>
    BY DEF CommitEvent
  <1>2. EscTypes /\ EscApart /\ ScanTrue
    BY DEF EscInv
  <1>3. NoTxn \in [on : BOOLEAN, rows : SUBSET EscRow] /\ NoTxn.rows = {} /\ IsFiniteSet({})
    BY FS_EmptySet DEF NoTxn
  <1>4. \A u \in EscTriggers : esOpen'[u] = IF u = t THEN NoTxn ELSE esOpen[u]
    BY <1>1, <1>2 DEF EscTypes
  <1>5. AllEsc' \subseteq AllEsc
    BY <1>1, <1>3, <1>4 DEF AllEsc
  <1>6. EscOrdered' /\ (\A r \in AllEsc : EscFacts(r))' /\ ToldTrue' /\ MessagesSound'
    BY <1>1, <1>5, FewerKept
  <1>7. EscTypes'
    <2>1. esOpen[t].rows \subseteq EscRow /\ IsFiniteSet(esOpen[t].rows)
      BY <1>2 DEF EscTypes
    <2>2. IsFiniteSet(esRows \cup esOpen[t].rows)
      BY <1>2, <2>1, FS_Union DEF EscTypes
    <2>3. esOpen' \in [EscTriggers -> [on : BOOLEAN, rows : SUBSET EscRow]]
      BY <1>1, <1>2, <1>3 DEF EscTypes
    <2>4. \A u \in EscTriggers : IsFiniteSet(esOpen'[u].rows)
      BY <1>2, <1>3, <1>4 DEF EscTypes
    <2> QED
      BY <1>1, <1>2, <2>1, <2>2, <2>3, <2>4 DEF EscTypes
  <1>8. EscApart'
    <2> SUFFICES ASSUME NEW u \in EscTriggers, NEW r \in esOpen'[u].rows
                 PROVE  r \notin esRows' /\ r.trigger = u
      BY DEF EscApart
    <2>1. u # t /\ r \in esOpen[u].rows
      BY <1>3, <1>4
    <2> QED
      BY <1>1, <1>2, <2>1 DEF EscApart
  <1>9. ScanTrue'
    <2>1. \A n \in DOMAIN esScan.rest : \E r \in esRows' : esScan.rest[n] = ReadEsc(r)
      BY <1>1, <1>2 DEF ScanTrue
    <2> QED
      BY <1>1, <1>2, <2>1, ScanKept
  <1> QED
    BY <1>6, <1>7, <1>8, <1>9 DEF EscInv

LEMMA ImageFinite ==
  ASSUME NEW f, f = [x \in DOMAIN f |-> f[x]], IsFiniteSet(DOMAIN f)
  PROVE  IsFiniteSet({f[x] : x \in DOMAIN f})
  <1>1. f \in Surjection(DOMAIN f, {f[x] : x \in DOMAIN f})
    BY DEF Surjection
  <1> QED
    BY <1>1, FS_Surjection

LEMMA EscReads ==
  ASSUME EscInv, ScanBegin
  PROVE  EscInv'
  <1> DEFINE R == {ReadEsc(r) : r \in esRows}
  <1>1. PICK rest \in SetToSeqs(R) :
          /\ \A m \in DOMAIN rest, n \in DOMAIN rest : m < n => EscBefore(rest[m], rest[n])
          /\ esScan' = [on |-> TRUE, now |-> esNow, dels |-> {}, rest |-> rest]
    BY DEF ScanBegin, ReadEsc
  <1>2. UNCHANGED <<esNow, esPeriod, esEvents, esOpen, esNextId, esRows, esMsgs>>
    BY DEF ScanBegin
  <1>3. EscTypes /\ EscApart
    BY DEF EscInv
  <1>4. IsFiniteSet(R)
    <2> DEFINE f == [r \in esRows |-> ReadEsc(r)]
    <2>1. IsFiniteSet(esRows)
      BY <1>3 DEF EscTypes
    <2>2. IsFiniteSet({f[r] : r \in DOMAIN f})
      BY <2>1, ImageFinite
    <2>3. {f[r] : r \in esRows} = R
      OBVIOUS
    <2> QED
      BY <2>2, <2>3
  <1>5. \A x \in R : x \in EscRecord /\ \E r \in esRows : x = ReadEsc(r)
    <2>1. ASSUME NEW r \in EscRow
          PROVE  ReadEsc(r) \in EscRecord
      BY DEF EscRow, EscRecord, ReadEsc
    <2> QED
      BY <1>3, <2>1 DEF EscTypes
  <1> HIDE DEF R
  <1>6. Cardinality(R) \in Nat /\ rest \in [1 .. Cardinality(R) -> R]
    BY <1>4, FS_CardinalityType DEF SetToSeqs
  <1>7. rest \in Seq(EscRecord)
    BY <1>5, <1>6
  <1>8. EscTypes'
    BY <1>1, <1>2, <1>3, <1>7 DEF EscTypes
  <1>9. ScanTrue'
    <2>1. esScan'.rest = rest
      BY <1>1
    <2>2. \A n \in DOMAIN rest : \E r \in esRows' : rest[n] = ReadEsc(r)
      BY <1>2, <1>5, <1>6
    <2> QED
      BY <1>1, <2>1, <2>2 DEF ScanTrue, ReadEsc, EscBefore
  <1>10. AllEsc' \subseteq AllEsc /\ EscApart'
    BY <1>2, <1>3 DEF AllEsc, EscApart
  <1>11. EscOrdered' /\ (\A r \in AllEsc : EscFacts(r))' /\ ToldTrue' /\ MessagesSound'
    BY <1>2, <1>10, FewerKept
  <1> QED
    BY <1>8, <1>9, <1>10, <1>11 DEF EscInv

\* The scan ends, and some rows go.
LEMMA EscScanOver ==
  ASSUME EscInv, esRows' \subseteq esRows, esScan' = NoScan,
         UNCHANGED <<esNow, esPeriod, esEvents, esOpen, esNextId, esMsgs>>
  PROVE  EscInv'
  <1>1. EscTypes /\ EscApart
    BY DEF EscInv
  <1>2. AllEsc' \subseteq AllEsc /\ EscApart'
    BY <1>1 DEF AllEsc, EscApart
  <1>3. EscOrdered' /\ (\A r \in AllEsc : EscFacts(r))' /\ ToldTrue' /\ MessagesSound'
    BY <1>2, FewerKept
  <1>4. EscTypes'
    BY <1>1, NoScanTypes, FS_Subset DEF EscTypes
  <1>5. ScanTrue'
    BY NoScanTypes DEF ScanTrue
  <1> QED
    BY <1>2, <1>3, <1>4, <1>5 DEF EscInv

\* The rows that process_actions is about to insert for event e
NewRows(t, problem, n) ==
  {NewEsc(esNextId + i - 1, t, IF problem THEN Len(esEvents) + 1 ELSE 0,
          IF problem THEN 0 ELSE Len(esEvents) + 1) : i \in 1 .. n}

LEMMA NewRowsLaws ==
  ASSUME EscTypes, NEW t \in EscTriggers, NEW problem \in BOOLEAN, NEW n \in Nat, problem => n = 1
  PROVE  /\ NewRows(t, problem, n) \subseteq EscRow /\ IsFiniteSet(NewRows(t, problem, n))
         /\ \A r \in NewRows(t, problem, n) :
              /\ esNextId <= r.id /\ r.id < esNextId + n /\ r.trigger = t
              /\ r.ev = (IF problem THEN Len(esEvents) + 1 ELSE 0)
              /\ r.rev = (IF problem THEN 0 ELSE Len(esEvents) + 1)
              /\ EventOf(r) = Len(esEvents) + 1
         /\ \A r \in NewRows(t, problem, n), s \in NewRows(t, problem, n) : r.id = s.id \/ problem => r = s
  <1> DEFINE e == Len(esEvents) + 1
             ev == IF problem THEN e ELSE 0
             rev == IF problem THEN 0 ELSE e
             f == [i \in 1 .. n |-> NewEsc(esNextId + i - 1, t, ev, rev)]
             N == NewRows(t, problem, n)
  <1>1. e \in Nat /\ e > 0 /\ ev \in Nat /\ rev \in Nat /\ esNextId \in Nat
    BY DEF EscTypes
  <1>2. N = {f[i] : i \in DOMAIN f}
    BY DEF NewRows
  <1>3. IsFiniteSet(N)
    <2>1. IsFiniteSet(1 .. n)
      BY FS_Interval
    <2>2. DOMAIN f = 1 .. n /\ f = [x \in DOMAIN f |-> f[x]]
      OBVIOUS
    <2> HIDE DEF f
    <2>3. IsFiniteSet({f[i] : i \in DOMAIN f})
      BY <2>1, <2>2, ImageFinite
    <2> QED
      BY <1>2, <2>3
  <1> HIDE DEF e, ev, rev, f
  <1>4. ASSUME NEW i \in 1 .. n
        PROVE  f[i] = [id |-> esNextId + i - 1, trigger |-> t, ev |-> ev, rev |-> rev,
                       next |-> 0, step |-> 0, status |-> "active"]
    BY DEF f, NewEsc, NoEsc
  <1>5. DOMAIN f = 1 .. n
    BY DEF f
  <1> HIDE DEF N
  <1>6. ASSUME NEW r \in N
        PROVE  /\ r \in EscRow /\ esNextId <= r.id /\ r.id < esNextId + n /\ r.trigger = t
               /\ r.ev = ev /\ r.rev = rev
    <2>1. PICK i \in 1 .. n : r = f[i]
      BY <1>2, <1>5
    <2>2. esNextId + i - 1 \in Nat /\ esNextId <= esNextId + i - 1 /\ esNextId + i - 1 < esNextId + n
      BY <1>1
    <2>3. r = [id |-> esNextId + i - 1, trigger |-> t, ev |-> ev, rev |-> rev,
               next |-> 0, step |-> 0, status |-> "active"]
      BY <1>4, <2>1
    <2> QED
      BY <1>1, <2>2, <2>3 DEF EscRow
  <1>7. ASSUME NEW r \in N
        PROVE  EventOf(r) = e
    BY <1>1, <1>6 DEF EventOf, ev, rev
  <1>8. ASSUME NEW r \in N, NEW s \in N, r.id = s.id \/ problem
        PROVE  r = s
    <2>1. PICK i \in 1 .. n : r = f[i]
      BY <1>2, <1>5
    <2>2. PICK j \in 1 .. n : s = f[j]
      BY <1>2, <1>5
    <2>3. r.id = esNextId + i - 1 /\ s.id = esNextId + j - 1
      <3>1. r = [id |-> esNextId + i - 1, trigger |-> t, ev |-> ev, rev |-> rev,
                  next |-> 0, step |-> 0, status |-> "active"]
        BY <1>4, <2>1
      <3>2. s = [id |-> esNextId + j - 1, trigger |-> t, ev |-> ev, rev |-> rev,
                  next |-> 0, step |-> 0, status |-> "active"]
        BY <1>4, <2>2
      <3> QED
        BY <3>1, <3>2
    <2>4. i = j
      BY <1>1, <1>8, <2>3
    <2> QED
      BY <2>1, <2>2, <2>4
  <1> QED
    BY <1>3, <1>6, <1>7, <1>8 DEF N, e, ev, rev

LEMMA EscOpens ==
  ASSUME EscInv, NEW t \in EscTriggers, NEW problem \in BOOLEAN, process_actions(t, problem)
  PROVE  EscInv'
  <1> DEFINE ongoing == {r \in esRows : r.ev # 0 /\ r.trigger = t}
             n == IF problem THEN 1 ELSE Cardinality(ongoing)
             N == NewRows(t, problem, n)
             E == Append(esEvents, [trigger |-> t, problem |-> problem])
             new == [on |-> TRUE, rows |-> N]
  <1>1. EscTypes /\ EscOrdered /\ EscApart /\ ScanTrue /\ ToldTrue /\ MessagesSound
    BY DEF EscInv
  <1>2. n \in Nat /\ (problem => n = 1)
    <2>1. IsFiniteSet(ongoing)
      BY <1>1, FS_Subset DEF EscTypes
    <2> QED
      BY <2>1, FS_CardinalityType
  <1>3. /\ esEvents' = E /\ esOpen' = [esOpen EXCEPT ![t] = new] /\ esNextId' = esNextId + n
        /\ UNCHANGED <<esNow, esPeriod, esRows, esMsgs, esScan>>
    BY DEF process_actions, NewRows
  <1> HIDE DEF n, N
  <1>4. /\ N \subseteq EscRow /\ IsFiniteSet(N)
        /\ \A r \in N :
             /\ esNextId <= r.id /\ r.id < esNextId + n /\ r.trigger = t
             /\ r.ev = (IF problem THEN Len(esEvents) + 1 ELSE 0)
             /\ r.rev = (IF problem THEN 0 ELSE Len(esEvents) + 1)
             /\ EventOf(r) = Len(esEvents) + 1
        /\ \A r \in N, s \in N : r.id = s.id \/ problem => r = s
    BY <1>1, <1>2, NewRowsLaws DEF N
  <1>5. /\ E \in Seq(EscEvent) /\ Len(E) = Len(esEvents) + 1 /\ Len(esEvents) \in Nat
        /\ DOMAIN E = 1 .. Len(esEvents) + 1 /\ DOMAIN esEvents = 1 .. Len(esEvents)
        /\ \A k \in DOMAIN esEvents : E[k] = esEvents[k]
        /\ E[Len(esEvents) + 1].trigger = t /\ E[Len(esEvents) + 1].problem = problem
    BY <1>1 DEF EscTypes, EscEvent
  <1> HIDE DEF E
  <1>6. \A u \in EscTriggers : esOpen'[u] = IF u = t THEN new ELSE esOpen[u]
    BY <1>1, <1>3 DEF EscTypes
  <1>7. \A r \in AllEsc' : r \in AllEsc \/ r \in N
    BY <1>3, <1>6 DEF AllEsc
  <1>8. \A r \in AllEsc : /\ r \in EscRow /\ EscFacts(r) /\ r.id < esNextId
                          /\ EventOf(r) \in 1 .. Len(esEvents) /\ (r.ev # 0 => EventOf(r) = r.ev)
    BY <1>1, AllTypes, EventLaws DEF EscInv, EscFacts
  <1>9. EscTypes'
    <2>1. esOpen' \in [EscTriggers -> [on : BOOLEAN, rows : SUBSET EscRow]]
      BY <1>1, <1>3, <1>4 DEF EscTypes
    <2>2. \A u \in EscTriggers : IsFiniteSet(esOpen'[u].rows)
      BY <1>1, <1>4, <1>6 DEF EscTypes
    <2> QED
      BY <1>1, <1>2, <1>3, <1>5, <2>1, <2>2 DEF EscTypes
  <1>10. EscApart'
    <2> SUFFICES ASSUME NEW u \in EscTriggers, NEW r \in esOpen'[u].rows
                 PROVE  r \notin esRows' /\ r.trigger = u
      BY DEF EscApart
    <2>1. CASE u = t
      <3>1. r \in N /\ r.trigger = t /\ esNextId <= r.id
        BY <1>4, <1>6, <2>1
      <3>2. \A s \in esRows : s.id < esNextId /\ s.id \in Nat
        BY <1>8, AllParts DEF EscRow
      <3>3. esNextId \in Nat
        BY <1>1 DEF EscTypes
      <3> QED
        BY <1>3, <2>1, <3>1, <3>2, <3>3
    <2>2. CASE u # t
      BY <1>1, <1>3, <1>6, <2>2 DEF EscApart
    <2> QED
      BY <2>1, <2>2
  <1>11. EscOrdered'
    <2> SUFFICES ASSUME NEW r \in AllEsc', NEW s \in AllEsc'
                 PROVE  /\ r.id = s.id => r = s
                        /\ r.id < s.id => EventOf(r) <= EventOf(s)
                        /\ r.ev # 0 /\ r.ev = s.ev => r = s
      BY DEF EscOrdered, EventOf
    <2>1. esNextId \in Nat
      BY <1>1 DEF EscTypes
    <2>2. CASE r \in AllEsc /\ s \in AllEsc
      BY <1>1, <2>2 DEF EscOrdered
    <2>3. CASE r \in AllEsc /\ s \in N
      <3>1. r.id \in Nat /\ s.id \in Nat /\ r.id < s.id
        BY <1>4, <1>8, <2>1, <2>3 DEF EscRow
      <3>2. EventOf(r) <= EventOf(s)
        BY <1>4, <1>5, <1>8, <2>3
      <3>3. r.ev # 0 => r.ev # s.ev
        BY <1>4, <1>5, <1>8, <2>3
      <3> QED
        BY <3>1, <3>2, <3>3
    <2>4. CASE r \in N /\ s \in AllEsc
      <3>1. r.id \in Nat /\ s.id \in Nat /\ s.id < r.id
        BY <1>4, <1>8, <2>1, <2>4 DEF EscRow
      <3>2. r.ev # 0 => r.ev # s.ev
        BY <1>4, <1>5, <1>8, <2>4
      <3> QED
        BY <3>1, <3>2
    <2>5. CASE r \in N /\ s \in N
      <3>1. EventOf(r) <= EventOf(s)
        BY <1>4, <1>5, <2>5
      <3>2. r.ev # 0 => problem
        BY <1>4, <2>5
      <3> QED
        BY <1>4, <2>5, <3>1, <3>2
    <2> QED
      BY <1>7, <2>2, <2>3, <2>4, <2>5
  <1>12. (\A r \in AllEsc : EscFacts(r))'
    <2> SUFFICES ASSUME NEW r \in AllEsc'
                 PROVE  EscFacts(r)'
      OBVIOUS
    <2>1. esNextId \in Nat
      BY <1>1 DEF EscTypes
    <2>2. CASE r \in AllEsc
      <3>1. EscFacts(r) /\ EventOf(r) \in 1 .. Len(esEvents) /\ r.id \in Nat
        BY <1>8, <2>2 DEF EscRow
      <3>2. r.id < esNextId + n
        BY <1>2, <2>1, <3>1 DEF EscFacts
      <3>3. EventOf(r) \in DOMAIN E /\ E[EventOf(r)] = esEvents[EventOf(r)]
        BY <1>5, <3>1
      <3> QED
        BY <1>3, <3>1, <3>2, <3>3 DEF EscFacts, EventOf
    <2>3. CASE r \in N
      <3>1. EventOf(r) \in DOMAIN E /\ E[EventOf(r)].trigger = t /\ E[EventOf(r)].problem = problem
        BY <1>4, <1>5, <2>3
      <3>2. (r.ev = 0 <=> r.rev # 0) /\ (problem <=> r.rev = 0)
        BY <1>4, <1>5, <2>3
      <3>3. r.id < esNextId' /\ EventOf(r) = EventOf(r)'
        BY <1>3, <1>4, <2>3 DEF EventOf
      <3>4. E[EventOf(r)].trigger = r.trigger
        BY <1>4, <2>3, <3>1
      <3> QED
        BY <1>3, <3>1, <3>2, <3>3, <3>4 DEF EscFacts
    <2> QED
      BY <1>7, <2>2, <2>3
  <1>13. \A m \in DOMAIN esMsgs :
           /\ esMsgs[m].ev \in DOMAIN esEvents /\ esMsgs[m].rev \in {0} \cup DOMAIN esEvents
           /\ esMsgs[m].ev \in DOMAIN E /\ esMsgs[m].rev \in {0} \cup DOMAIN E
    BY <1>1, <1>5 DEF ToldTrue
  <1>14. ToldTrue'
    <2>1. ASSUME NEW r \in AllEsc', r.ev # 0
          PROVE  ToldOf(r, esMsgs)'
      <3>1. CASE r \in AllEsc
        BY <1>1, <1>3, <2>1, <3>1 DEF ToldTrue, ToldOf
      <3>2. CASE r \in N
        <4>1. r.ev = Len(esEvents) + 1
          BY <1>4, <2>1, <3>2
        <4>2. \A m \in DOMAIN esMsgs : esMsgs[m].ev # r.ev
          BY <1>5, <1>13, <4>1
        <4> QED
          BY <1>3, <4>2 DEF ToldOf
      <3> QED
        BY <1>7, <3>1, <3>2
    <2> QED
      BY <1>3, <1>13, <2>1 DEF ToldTrue
  <1>15. MessagesSound'
    <2>1. Once(esMsgs) /\ RecoversLast(esMsgs)
      BY <1>1, SoundParts
    <2>2. ASSUME NEW m \in DOMAIN esMsgs, esMsgs[m].rev # 0
          PROVE  Recovers(esMsgs[m].ev, esMsgs[m].rev)'
      <3>1. Recovers(esMsgs[m].ev, esMsgs[m].rev)
        BY <2>1, <2>2 DEF RecoversLast
      <3>2. esMsgs[m].ev \in DOMAIN esEvents /\ esMsgs[m].rev \in DOMAIN esEvents
        BY <1>13, <2>2
      <3> QED
        BY <1>3, <1>5, <3>1, <3>2 DEF Recovers
    <2>3. Once(esMsgs)'
      BY <1>3, <2>1 DEF Once
    <2>4. RecoversLast(esMsgs)'
      BY <1>3, <2>1, <2>2 DEF RecoversLast
    <2>5. (Once(esMsgs) /\ RecoversLast(esMsgs) => MessagesSound)'
      BY SoundParts, PTL
    <2> QED
      BY <2>3, <2>4, <2>5
  <1>16. ScanTrue'
    BY <1>1, <1>3 DEF ScanTrue
  <1> QED
    BY <1>9, <1>10, <1>11, <1>12, <1>14, <1>15, <1>16 DEF EscInv

\* The message of the next step, and that of the recovery
StepMsg(esc) == [ev |-> esc.ev, rev |-> 0, step |-> IF esPeriod = 0 THEN esc.step ELSE esc.step + 1]
RecoveryOf(esc) == [ev |-> esc.ev, rev |-> esc.rev, step |-> 0]

\* What is done of an active escalation before its recovery
Executed(esc, res) ==
  /\ res.esc \in EscRecord /\ res.esc.ev = esc.ev /\ res.esc.rev = esc.rev
  /\ res.msgs = <<>> \/ res.msgs = <<StepMsg(esc)>>
  /\ res.esc.status = "active" =>
       \/ res.msgs = <<>> /\ res.esc.step >= esc.step
       \/ esPeriod # 0 /\ res.msgs = <<StepMsg(esc)>> /\ res.esc.step = StepMsg(esc).step
  /\ res.esc.status = "sleep" /\ res.msgs # <<>> => esPeriod = 0

LEMMA OperationsLaw ==
  ASSUME EscTypes, NEW esc \in EscRecord, esc.status = "active"
  PROVE  Executed(esc, execute_operations(esc))
  <1> DEFINE step == IF esPeriod = 0 THEN esc.step ELSE esc.step + 1
             now == esPeriod = 0 \/ step \in OpSteps
             more == esPeriod # 0 /\ (now \/ \E s \in OpSteps : s > step)
             res == execute_operations(esc)
  <1> SUFFICES Executed(esc, res)
    OBVIOUS
  <1>1. /\ esc.id \in Nat /\ esc.trigger \in EscTriggers /\ esc.ev \in Nat /\ esc.rev \in Nat
        /\ esc.next \in Nat /\ esc.step \in Nat
    BY DEF EscRecord
  <1>2. esPeriod \in Nat /\ esNow \in Nat /\ SleepPeriod \in Nat
    BY EscAssumption DEF EscTypes
  <1>3. step \in Nat /\ step >= esc.step /\ StepMsg(esc) = [ev |-> esc.ev, rev |-> 0, step |-> step]
    BY <1>1 DEF StepMsg
  <1>4. Quiet \in {"sleep", "completed"}
    BY DEF Quiet
  <1>5. res.msgs = IF now THEN <<StepMsg(esc)>> ELSE <<>>
    BY <1>3 DEF execute_operations
  <1>6. res.esc = IF more THEN [[esc EXCEPT !.step = step] EXCEPT !.next = esNow + esPeriod]
                  ELSE [[esc EXCEPT !.step = step] EXCEPT
                          !.status = Quiet, !.next = IF RecoveryMsg THEN esNow + SleepPeriod ELSE @]
    BY DEF execute_operations
  <1> HIDE DEF step, now, res
  <1>7. CASE more
    <2>1. res.esc = [[esc EXCEPT !.step = step] EXCEPT !.next = esNow + esPeriod]
      BY <1>6, <1>7
    <2>2. esNow + esPeriod \in Nat
      BY <1>2
    <2>3. /\ res.esc \in EscRecord /\ res.esc.ev = esc.ev /\ res.esc.rev = esc.rev
          /\ res.esc.step = step /\ res.esc.status = "active"
      BY <1>3, <2>1, <2>2 DEF EscRecord
    <2>4. StepMsg(esc).step = step
      BY <1>3
    <2> QED
      BY <1>3, <1>5, <1>7, <2>3, <2>4 DEF Executed
  <1>8. CASE ~ more
    <2>1. res.esc = [[esc EXCEPT !.step = step] EXCEPT
                       !.status = Quiet, !.next = IF RecoveryMsg THEN esNow + SleepPeriod ELSE @]
      BY <1>6, <1>8
    <2>2. esNow + SleepPeriod \in Nat
      BY <1>2
    <2>3. /\ res.esc \in EscRecord /\ res.esc.ev = esc.ev /\ res.esc.rev = esc.rev
          /\ res.esc.status = Quiet
      BY <1>1, <1>3, <1>4, <2>1, <2>2 DEF EscRecord
    <2>4. res.msgs # <<>> => esPeriod = 0
      BY <1>5, <1>8
    <2> QED
      BY <1>4, <1>5, <2>3, <2>4 DEF Executed
  <1> QED
    BY <1>7, <1>8

LEMMA ExecuteLaw ==
  ASSUME EscTypes, NEW esc \in EscRecord, esc.status = "active", NEW M
  PROVE  Executed(esc, execute_escalation(esc, M))
  <1> DEFINE op == execute_operations(esc)
             non == [esc |-> esc, msgs |-> <<>>]
             res == IF esConfig = "deleted" THEN non ELSE op
             all == execute_escalation(esc, M)
  <1> SUFFICES Executed(esc, all)
    OBVIOUS
  <1>1. Executed(esc, op)
    BY OperationsLaw
  <1>2. esc.step \in Nat
    BY DEF EscRecord
  <1>3. Executed(esc, non)
    BY <1>2 DEF Executed
  <1>4. Executed(esc, res)
    BY <1>1, <1>3
  <1>5. all = IF esConfig = "on" THEN res ELSE [res EXCEPT !.esc.status = "completed"]
    BY DEF execute_escalation
  <1>6. op = [esc |-> op.esc, msgs |-> op.msgs]
    BY DEF execute_operations
  <1>7. res = [esc |-> res.esc, msgs |-> res.msgs]
    BY <1>6
  <1> HIDE DEF res, all, op, non
  <1>8. CASE esConfig # "on"
    <2>1. all.msgs = res.msgs /\ all.esc = [res.esc EXCEPT !.status = "completed"]
      BY <1>5, <1>7, <1>8
    <2>2. res.esc \in EscRecord /\ res.esc.ev = esc.ev /\ res.esc.rev = esc.rev
      BY <1>4 DEF Executed
    <2>3. /\ all.esc \in EscRecord /\ all.esc.ev = esc.ev /\ all.esc.rev = esc.rev
          /\ all.esc.status = "completed"
      BY <2>1, <2>2 DEF EscRecord
    <2> QED
      BY <1>4, <2>1, <2>3 DEF Executed
  <1>9. CASE esConfig = "on"
    BY <1>4, <1>5, <1>9
  <1> QED
    BY <1>8, <1>9

\* Somebody was told of the problem.
Told(esc, M) == \E n \in DOMAIN M : M[n].ev = esc.ev /\ M[n].rev = 0

LEMMA RecoveryLaw ==
  ASSUME NEW esc \in EscRecord, NEW M
  PROVE  LET res == execute_escalation([esc EXCEPT !.status = "recovery"], M)
         IN  /\ res.esc \in EscRecord /\ res.esc.status = "completed"
             /\ res.msgs = <<>> \/ (Told(esc, M) /\ res.msgs = <<RecoveryOf(esc)>>)
  <1> DEFINE rec == [esc EXCEPT !.status = "recovery"]
             res == IF esConfig = "deleted" THEN [esc |-> rec, msgs |-> <<>>] ELSE process_recovery_msg(rec, M)
             all == execute_escalation(rec, M)
  <1>1. rec.status = "recovery" /\ rec.ev = esc.ev /\ rec.rev = esc.rev
    BY DEF EscRecord
  <1>2. all = IF esConfig = "on" THEN res ELSE [res EXCEPT !.esc.status = "completed"]
    BY <1>1 DEF execute_escalation
  <1>3. [rec EXCEPT !.status = "completed"] \in EscRecord
    BY DEF EscRecord
  <1>4. process_recovery_msg(rec, M) =
          [esc |-> [rec EXCEPT !.status = "completed"],
           msgs |-> IF RecoveryMsg /\ Told(esc, M) THEN <<RecoveryOf(esc)>> ELSE <<>>]
    BY <1>1 DEF process_recovery_msg, Told, RecoveryOf
  <1>5. /\ res.msgs = <<>> \/ (Told(esc, M) /\ res.msgs = <<RecoveryOf(esc)>>)
        /\ res = [esc |-> res.esc, msgs |-> res.msgs]
        /\ res.esc = rec \/ res.esc = [rec EXCEPT !.status = "completed"]
        /\ esConfig = "on" => res.esc = [rec EXCEPT !.status = "completed"]
    BY <1>4
  <1> HIDE DEF res, all
  <1>6. all.msgs = res.msgs /\ all.esc = [rec EXCEPT !.status = "completed"]
    <2>1. CASE esConfig = "on"
      BY <1>2, <1>5, <2>1
    <2>2. CASE esConfig # "on"
      BY <1>2, <1>5, <2>2
    <2> QED
      BY <2>1, <2>2
  <1>7. all.esc.status = "completed"
    BY <1>6 DEF EscRecord
  <1> QED
    BY <1>3, <1>5, <1>6, <1>7 DEF all

\* The whole of a transaction for an active escalation
Ran(esc, run) ==
  /\ run.esc \in EscRecord
  /\ \/ run.msgs = <<>> \/ run.msgs = <<StepMsg(esc)>>
     \/ /\ esc.rev # 0 /\ run.esc.status = "completed"
        /\ \/ run.msgs = <<RecoveryOf(esc)>> /\ Told(esc, esMsgs)
           \/ run.msgs = <<StepMsg(esc), RecoveryOf(esc)>>
  /\ run.esc.status # "completed" => esc.rev = 0
  /\ run.esc.status = "active" =>
       \/ run.msgs = <<>> /\ run.esc.step >= esc.step
       \/ esPeriod # 0 /\ run.msgs = <<StepMsg(esc)>> /\ run.esc.step = StepMsg(esc).step
  /\ run.esc.status = "sleep" /\ run.msgs # <<>> => esPeriod = 0

LEMMA PairLaw ==
  ASSUME NEW a, NEW b
  PROVE  <<a>> \o <<b>> = <<a, b>>
  <1>1. <<a>> \in Seq({a, b}) /\ <<b>> \in Seq({a, b}) /\ <<a, b>> \in Seq({a, b})
    OBVIOUS
  <1>2. Len(<<a>> \o <<b>>) = 2 /\ (<<a>> \o <<b>>)[1] = a /\ (<<a>> \o <<b>>)[2] = b
    BY <1>1
  <1>3. <<a>> \o <<b>> \in Seq({a, b})
    BY <1>1
  <1>4. Len(<<a, b>>) = 2 /\ <<a, b>>[1] = a /\ <<a, b>>[2] = b
    OBVIOUS
  <1>5. \A i \in 1 .. Len(<<a>> \o <<b>>) : (<<a>> \o <<b>>)[i] = <<a, b>>[i]
    BY <1>2, <1>4
  <1> QED
    BY <1>1, <1>2, <1>3, <1>4, <1>5, SeqEqual

LEMMA RunLaw ==
  ASSUME EscTypes, NEW esc \in EscRecord, esc.status = "active", NEW superseded \in BOOLEAN
  PROVE  Ran(esc, RunActive(esc, superseded))
  <1> DEFINE first == IF esc.next <= esScan.now THEN execute_escalation(esc, esMsgs)
                      ELSE [esc |-> esc, msgs |-> <<>>]
             rec == execute_escalation([first.esc EXCEPT !.status = "recovery"], esMsgs \o first.msgs)
             run == RunActive(esc, superseded)
  <1> SUFFICES Ran(esc, run)
    OBVIOUS
  <1>1. esc.step \in Nat
    BY DEF EscRecord
  <1>2. Executed(esc, [esc |-> esc, msgs |-> <<>>])
    BY <1>1 DEF Executed
  <1>3. Executed(esc, first)
    BY <1>2, ExecuteLaw
  <1>4. run = IF first.esc.status # "completed" /\ first.esc.rev # 0
              THEN [esc |-> rec.esc, msgs |-> first.msgs \o rec.msgs]
              ELSE IF superseded THEN [first EXCEPT !.esc.status = "completed"] ELSE first
    BY DEF RunActive
  <1>5. first = [esc |-> first.esc, msgs |-> first.msgs]
    <2>1. execute_operations(esc) = [esc |-> execute_operations(esc).esc, msgs |-> execute_operations(esc).msgs]
      BY DEF execute_operations
    <2>2. execute_escalation(esc, esMsgs) =
            [esc |-> execute_escalation(esc, esMsgs).esc, msgs |-> execute_escalation(esc, esMsgs).msgs]
      BY <2>1 DEF execute_escalation
    <2> QED
      BY <2>2
  <1> HIDE DEF first, rec, run
  <1>6. first.esc \in EscRecord /\ first.esc.ev = esc.ev /\ first.esc.rev = esc.rev
    BY <1>3 DEF Executed
  <1>7. CASE first.esc.status # "completed" /\ first.esc.rev # 0
    <2>1. first.esc.status = "active" \/ first.esc.status = "sleep"
      BY <1>6, <1>7 DEF EscRecord
    <2>2. /\ rec.esc \in EscRecord /\ rec.esc.status = "completed"
          /\ rec.msgs = <<>> \/ (Told(first.esc, esMsgs \o first.msgs) /\ rec.msgs = <<RecoveryOf(first.esc)>>)
      BY <1>6, <2>1, RecoveryLaw DEF rec
    <2>3. RecoveryOf(first.esc) = RecoveryOf(esc)
      BY <1>6 DEF RecoveryOf
    <2>4. run.esc = rec.esc /\ run.msgs = first.msgs \o rec.msgs
      BY <1>4, <1>7
    <2>5. CASE first.msgs = <<>>
      <3>1. esMsgs \o <<>> = esMsgs /\ <<>> \o rec.msgs = rec.msgs
        BY <2>2 DEF EscTypes
      <3>2. Told(first.esc, esMsgs \o first.msgs) => Told(esc, esMsgs)
        BY <1>6, <2>5, <3>1 DEF Told
      <3> QED
        BY <1>6, <1>7, <2>2, <2>3, <2>4, <2>5, <3>1, <3>2 DEF Ran
    <2>6. CASE first.msgs = <<StepMsg(esc)>>
      <3>1. <<StepMsg(esc)>> \o <<>> = <<StepMsg(esc)>>
        OBVIOUS
      <3>2. <<StepMsg(esc)>> \o <<RecoveryOf(esc)>> = <<StepMsg(esc), RecoveryOf(esc)>>
        BY PairLaw
      <3> QED
        BY <1>6, <1>7, <2>2, <2>3, <2>4, <2>6, <3>1, <3>2 DEF Ran
    <2> QED
      BY <1>3, <2>5, <2>6 DEF Executed
  <1>8. CASE ~ (first.esc.status # "completed" /\ first.esc.rev # 0)
    <2>1. CASE superseded
      <3>1. run = [first EXCEPT !.esc.status = "completed"]
        BY <1>4, <1>8, <2>1
      <3>2. run.msgs = first.msgs /\ run.esc = [first.esc EXCEPT !.status = "completed"]
        BY <1>5, <3>1
      <3>3. run.esc \in EscRecord /\ run.esc.status = "completed"
        BY <1>6, <3>2 DEF EscRecord
      <3> QED
        BY <1>3, <3>2, <3>3 DEF Executed, Ran
    <2>2. CASE ~ superseded
      <3>1. run = first
        BY <1>4, <1>8, <2>2
      <3> QED
        BY <1>3, <1>6, <1>8, <3>1 DEF Executed, Ran
    <2> QED
      BY <2>1, <2>2
  <1> QED
    BY <1>7, <1>8

\* The record at the head of the scan is what the table says of one row.
LEMMA ScanHead ==
  ASSUME EscInv, esScan.rest # <<>>
  PROVE  \E r0 \in esRows :
           /\ Head(esScan.rest) = ReadEsc(r0) /\ Head(esScan.rest) \in EscRecord
           /\ \A r \in esRows : r.id = Head(esScan.rest).id => r = r0
           /\ (CHOOSE r \in esRows : r.id = Head(esScan.rest).id) = r0
           /\ Head(esScan.rest).status # "completed" => Head(esScan.rest) = r0 /\ r0.rev = 0 /\ r0.ev # 0
           /\ Tail(esScan.rest) \in Seq(EscRecord)
           /\ \A n \in DOMAIN Tail(esScan.rest) :
                \E r \in esRows : r # r0 /\ Tail(esScan.rest)[n] = ReadEsc(r)
           /\ \A m \in DOMAIN Tail(esScan.rest), n \in DOMAIN Tail(esScan.rest) :
                m < n => EscBefore(Tail(esScan.rest)[m], Tail(esScan.rest)[n])
           /\ Len(esScan.rest) > 1 =>
                \E r \in esRows : esScan.rest[2] = ReadEsc(r) /\ EscBefore(Head(esScan.rest), esScan.rest[2])
  <1> DEFINE rest == esScan.rest
             row == Head(rest)
             tail == Tail(rest)
  <1>1. EscTypes /\ EscOrdered /\ ScanTrue /\ \A r \in AllEsc : EscFacts(r)
    BY DEF EscInv
  <1>2. rest \in Seq(EscRecord)
    BY <1>1 DEF EscTypes
  <1>3. /\ Len(rest) \in Nat /\ Len(rest) > 0 /\ DOMAIN rest = 1 .. Len(rest) /\ row = rest[1] /\ row \in EscRecord
        /\ tail \in Seq(EscRecord) /\ DOMAIN tail = 1 .. Len(rest) - 1
        /\ \A n \in DOMAIN tail : tail[n] = rest[n + 1]
    BY <1>2
  <1>4. /\ \A n \in DOMAIN rest : \E r \in esRows : rest[n] = ReadEsc(r)
        /\ \A m \in DOMAIN rest, n \in DOMAIN rest : m < n => EscBefore(rest[m], rest[n])
    BY <1>1 DEF ScanTrue
  <1> HIDE DEF rest, row, tail
  <1>5. PICK r0 \in esRows : row = ReadEsc(r0)
    BY <1>3, <1>4
  <1>6. \A r \in esRows : r \in AllEsc /\ r \in EscRow
    BY <1>1, AllParts DEF EscTypes
  <1>7. ASSUME NEW r \in esRows
        PROVE  ReadEsc(r).id = r.id /\ ReadEsc(r).trigger = r.trigger /\ r.id \in Nat /\ r.trigger \in Nat
    <2>1. r \in EscRow
      BY <1>6
    <2>2. r.trigger \in Nat
      BY <2>1, EscAssumption DEF EscRow
    <2> QED
      BY <2>1, <2>2 DEF ReadEsc, EscRow
  <1>8. \A r \in esRows : r.id = row.id => r = r0
    BY <1>1, <1>5, <1>6, <1>7 DEF EscOrdered
  <1>9. (CHOOSE r \in esRows : r.id = row.id) = r0
    BY <1>5, <1>7, <1>8
  <1>10. row.status # "completed" => row = r0 /\ r0.rev = 0 /\ r0.ev # 0
    <2>1. r0 \in EscRow /\ EscFacts(r0)
      BY <1>1, <1>6
    <2>2. ReadEsc(r0).status # "completed" => r0.rev = 0 /\ ReadEsc(r0) = r0
      BY <2>1 DEF ReadEsc, EscRow
    <2> QED
      BY <1>5, <2>1, <2>2 DEF EscFacts
  <1>11. ASSUME NEW n \in DOMAIN tail
         PROVE  \E r \in esRows : r # r0 /\ tail[n] = ReadEsc(r)
    <2>1. n + 1 \in DOMAIN rest /\ 1 \in DOMAIN rest /\ 1 < n + 1
      BY <1>3
    <2>2. PICK r \in esRows : rest[n + 1] = ReadEsc(r)
      BY <1>4, <2>1
    <2>3. EscBefore(ReadEsc(r0), ReadEsc(r))
      BY <1>3, <1>4, <1>5, <2>1, <2>2
    <2>4. r.trigger # r0.trigger \/ r.id # r0.id
      BY <1>7, <2>3 DEF EscBefore
    <2> QED
      BY <1>3, <2>2, <2>4
  <1>12. ASSUME NEW m \in DOMAIN tail, NEW n \in DOMAIN tail, m < n
         PROVE  EscBefore(tail[m], tail[n])
    <2>1. m + 1 \in DOMAIN rest /\ n + 1 \in DOMAIN rest /\ m + 1 < n + 1
      BY <1>3, <1>12
    <2> QED
      BY <1>3, <1>4, <2>1
  <1>13. Len(rest) > 1 => \E r \in esRows : rest[2] = ReadEsc(r) /\ EscBefore(row, rest[2])
    BY <1>3, <1>4
  <1> QED
    BY <1>3, <1>5, <1>8, <1>9, <1>10, <1>11, <1>12, <1>13 DEF rest, row, tail

\* A record is passed without a change of its row.
LEMMA EscSkips ==
  ASSUME EscInv, esScan.rest # <<>>, NEW dels \in SUBSET Nat,
         esScan' = [esScan EXCEPT !.rest = Tail(@), !.dels = @ \cup dels],
         UNCHANGED <<esNow, esPeriod, esEvents, esOpen, esNextId, esRows, esMsgs>>
  PROVE  EscInv'
  <1>1. EscTypes /\ EscApart
    BY DEF EscInv
  <1>2. /\ Tail(esScan.rest) \in Seq(EscRecord)
        /\ \A n \in DOMAIN Tail(esScan.rest) : \E r \in esRows : Tail(esScan.rest)[n] = ReadEsc(r)
        /\ \A m \in DOMAIN Tail(esScan.rest), n \in DOMAIN Tail(esScan.rest) :
             m < n => EscBefore(Tail(esScan.rest)[m], Tail(esScan.rest)[n])
    BY ScanHead
  <1>3. /\ esScan' \in [on : BOOLEAN, now : Nat, rest : Seq(EscRecord), dels : SUBSET Nat]
        /\ esScan'.rest = Tail(esScan.rest)
    BY <1>1, <1>2 DEF EscTypes
  <1>4. EscTypes'
    BY <1>1, <1>3 DEF EscTypes
  <1>5. ScanTrue'
    BY <1>2, <1>3, ScanMoved
  <1>6. AllEsc' \subseteq AllEsc /\ EscApart'
    BY <1>1 DEF AllEsc, EscApart
  <1>7. EscOrdered' /\ (\A r \in AllEsc : EscFacts(r))' /\ ToldTrue' /\ MessagesSound'
    BY <1>6, FewerKept
  <1> QED
    BY <1>4, <1>5, <1>6, <1>7 DEF EscInv

\* The row of a record is replaced by a version of it, or is gone.
LEMMA EscReplaces ==
  ASSUME EscInv, esScan.rest # <<>>, NEW r0 \in esRows,
         \A n \in DOMAIN Tail(esScan.rest) : \E r \in esRows : r # r0 /\ Tail(esScan.rest)[n] = ReadEsc(r),
         NEW upd \in EscRow, SameEsc(r0, upd), NEW new \in SUBSET {upd}, upd \in new \/ upd = r0,
         esRows' = (esRows \ {r0}) \cup new, esScan' = [esScan EXCEPT !.rest = Tail(@)],
         UNCHANGED <<esNow, esPeriod, esEvents, esOpen, esNextId>>, esMsgs' \in Seq(EscMsg)
  PROVE  /\ EscTypes' /\ EscOrdered' /\ EscApart' /\ ScanTrue' /\ (\A r \in AllEsc : EscFacts(r))'
         /\ AllEsc' \subseteq (AllEsc \ {r0}) \cup {upd} /\ (upd \in AllEsc' => upd \in new)
  <1>1. EscTypes /\ EscApart /\ EscOrdered
    BY DEF EscInv
  <1>2. r0 \in AllEsc /\ \A t \in EscTriggers : r0 \notin esOpen[t].rows
    BY <1>1, AllParts DEF EscApart
  <1>3. AllEsc' \subseteq (AllEsc \ {r0}) \cup {upd}
    BY <1>2 DEF AllEsc
  <1>4. \A t \in EscTriggers : upd \notin esOpen[t].rows
    <2> SUFFICES ASSUME NEW t \in EscTriggers, upd \in esOpen[t].rows
                 PROVE  FALSE
      OBVIOUS
    <2>1. upd = r0
      BY <1>1, <1>2, AllParts DEF EscOrdered, SameEsc
    <2> QED
      BY <1>2, <2>1
  <1>5. upd \in AllEsc' => upd \in new
    BY <1>4 DEF AllEsc
  <1>6. EscOrdered' /\ (\A r \in AllEsc : EscFacts(r))'
    BY <1>2, <1>3, OrderedKept
  <1>7. EscApart'
    BY <1>1, <1>4 DEF EscApart
  <1>8. Tail(esScan.rest) \in Seq(EscRecord)
    BY <1>1 DEF EscTypes
  <1>9. /\ esScan' \in [on : BOOLEAN, now : Nat, rest : Seq(EscRecord), dels : SUBSET Nat]
        /\ esScan'.rest = Tail(esScan.rest)
    BY <1>1, <1>8 DEF EscTypes
  <1>10. IsFiniteSet(esRows') /\ esRows' \subseteq EscRow
    <2>1. IsFiniteSet((esRows \ {r0}) \cup {upd})
      BY <1>1, FS_RemoveElement, FS_AddElement DEF EscTypes
    <2>2. esRows' \in SUBSET ((esRows \ {r0}) \cup {upd})
      OBVIOUS
    <2>3. IsFiniteSet(esRows')
      BY <2>1, <2>2, FS_Subset
    <2> QED
      BY <1>1, <2>3 DEF EscTypes
  <1>11. EscTypes'
    BY <1>1, <1>9, <1>10 DEF EscTypes
  <1>12. ScanTrue'
    <2>1. \A n \in DOMAIN Tail(esScan.rest) : \E r \in esRows' : Tail(esScan.rest)[n] = ReadEsc(r)
      OBVIOUS
    <2>2. \A m \in DOMAIN Tail(esScan.rest), n \in DOMAIN Tail(esScan.rest) :
             m < n => EscBefore(Tail(esScan.rest)[m], Tail(esScan.rest)[n])
      BY ScanHead
    <2> QED
      BY <1>9, <2>1, <2>2, ScanMoved
  <1> QED
    BY <1>3, <1>5, <1>6, <1>7, <1>11, <1>12

\* What the transaction works with: the row, or the row with its recovery
Taken(r0, esc) ==
  /\ esc \in EscRecord /\ esc.ev = r0.ev /\ esc.step = r0.step
  /\ \/ esc = r0
     \/ esc.rev \in DOMAIN esEvents /\ esc.rev # 0 /\ Recovers(esc.ev, esc.rev)

LEMMA TakenLaw ==
  ASSUME EscInv, NEW r0 \in esRows, r0.rev = 0, r0.ev # 0, NEW last,
         last = NoEsc \/ \E r \in esRows : last = ReadEsc(r) /\ EscBefore(r0, last)
  PROVE  Taken(r0, TakeOver(r0, last).esc)
  <1>1. EscTypes /\ EscOrdered /\ \A r \in AllEsc : EscFacts(r)
    BY DEF EscInv
  <1>2. r0 \in AllEsc /\ r0 \in EscRow /\ EscFacts(r0)
    BY <1>1, AllParts DEF EscTypes
  <1>3. r0 \in EscRecord /\ r0.trigger \in Nat /\ r0.trigger # 0 /\ r0.ev \in Nat /\ r0.id \in Nat
    BY <1>2, EscAssumption DEF EscRow, EscRecord
  <1>4. Taken(r0, r0)
    BY <1>3 DEF Taken
  <1>5. CASE r0.trigger = last.trigger /\ last.rev # 0
    <2>1. last # NoEsc
      BY <1>5 DEF NoEsc
    <2>2. PICK r \in esRows : last = ReadEsc(r) /\ EscBefore(r0, last)
      BY <2>1
    <2>3. r \in AllEsc /\ r \in EscRow /\ EscFacts(r)
      BY <1>1, AllParts DEF EscTypes
    <2>4. /\ last.rev = r.rev /\ last.trigger = r.trigger /\ last.id = r.id
          /\ r.rev \in Nat /\ r.id \in Nat
      BY <2>2, <2>3 DEF ReadEsc, EscRow
    <2>5. r0.id < r.id
      BY <1>3, <1>5, <2>2, <2>4 DEF EscBefore
    <2>6. EventOf(r0) = r0.ev /\ EventOf(r) = r.rev
      BY <1>5, <2>4 DEF EventOf
    <2>7. r0.ev <= r.rev
      BY <1>1, <1>2, <2>3, <2>5, <2>6 DEF EscOrdered
    <2>8. r0.ev # r.rev /\ ~ esEvents[r.rev].problem /\ esEvents[r.rev].trigger = esEvents[r0.ev].trigger
      BY <1>2, <1>5, <2>3, <2>4, <2>6 DEF EscFacts
    <2>9. r.rev \in DOMAIN esEvents /\ Recovers(r0.ev, r.rev)
      BY <1>3, <2>3, <2>4, <2>6, <2>7, <2>8 DEF EscFacts, Recovers
    <2> DEFINE esc == [r0 EXCEPT !.rev = last.rev, !.status = "active"]
    <2>10. TakeOver(r0, last).esc = esc
      BY <1>5 DEF TakeOver
    <2>11. /\ esc \in EscRecord /\ esc.ev = r0.ev /\ esc.step = r0.step /\ esc.rev = r.rev
      BY <1>3, <2>4 DEF EscRecord
    <2> HIDE DEF esc
    <2>12. Taken(r0, esc)
      BY <1>5, <2>4, <2>9, <2>11 DEF Taken
    <2> QED
      BY <2>10, <2>12
  <1>6. CASE ~ (r0.trigger = last.trigger /\ last.rev # 0)
    <2>1. TakeOver(r0, last).esc = r0
      BY <1>6 DEF TakeOver
    <2> QED
      BY <1>4, <2>1
  <1> QED
    BY <1>5, <1>6

LEMMA MsgTypes ==
  ASSUME NEW M \in Seq(EscMsg), NEW n \in DOMAIN M
  PROVE  M[n] \in EscMsg /\ M[n].step \in Nat
  <1>1. M[n] \in EscMsg
    OBVIOUS
  <1> QED
    BY <1>1 DEF EscMsg

LEMMA AppendTwo ==
  ASSUME NEW S, NEW M \in Seq(S), NEW a \in S, NEW b \in S
  PROVE  /\ M \o <<>> = M /\ M \o <<a>> = Append(M, a) /\ M \o <<a, b>> = Append(Append(M, a), b)
         /\ Append(M, a) \in Seq(S) /\ Append(Append(M, a), b) \in Seq(S)
  <1>1. Append(M, a) \in Seq(S) /\ Append(Append(M, a), b) \in Seq(S) /\ M \o <<a, b>> \in Seq(S)
    OBVIOUS
  <1>2. M \o <<a>> = Append(M, a) /\ M \o <<>> = M
    OBVIOUS
  <1>3. Len(M \o <<a, b>>) = Len(M) + 2 /\ Len(Append(Append(M, a), b)) = Len(M) + 2 /\ Len(M) \in Nat
    OBVIOUS
  <1>4. ASSUME NEW i \in 1 .. Len(M) + 2
        PROVE  (M \o <<a, b>>)[i] = Append(Append(M, a), b)[i]
    <2>1. (M \o <<a, b>>)[i] = IF i <= Len(M) THEN M[i] ELSE <<a, b>>[i - Len(M)]
      BY <1>3
    <2>2. Append(Append(M, a), b)[i] = IF i = Len(M) + 2 THEN b ELSE Append(M, a)[i]
      BY <1>1, <1>3
    <2>3. i # Len(M) + 2 => Append(M, a)[i] = IF i = Len(M) + 1 THEN a ELSE M[i]
      BY <1>3
    <2> QED
      BY <1>3, <2>1, <2>2, <2>3
  <1> QED
    BY <1>1, <1>2, <1>3, <1>4, SeqEqual

\* The messages of a transaction are in order, and tell of the problem of its row.
LEMMA RunTold ==
  ASSUME EscInv, NEW r0 \in esRows, r0.rev = 0, r0.ev # 0, NEW esc, Taken(r0, esc), NEW run, Ran(esc, run)
  PROVE  /\ esMsgs \o run.msgs \in Seq(EscMsg)
         /\ Once(esMsgs \o run.msgs) /\ RecoversLast(esMsgs \o run.msgs)
         /\ \A n \in DOMAIN (esMsgs \o run.msgs) :
              \/ n \in DOMAIN esMsgs /\ (esMsgs \o run.msgs)[n] = esMsgs[n]
              \/ /\ (esMsgs \o run.msgs)[n].ev = r0.ev
                 /\ (esMsgs \o run.msgs)[n].rev \in {0} \cup DOMAIN esEvents
  <1> DEFINE P == StepMsg(esc)
             R == RecoveryOf(esc)
             M == esMsgs
  <1>1. EscTypes /\ ToldTrue /\ MessagesSound
    BY DEF EscInv
  <1>2. ToldOf(r0, M) /\ Once(M) /\ RecoversLast(M) /\ r0 \in EscRow
    BY <1>1, AllParts, SoundParts DEF ToldTrue, EscTypes
  <1>3. esPeriod \in Nat /\ M \in Seq(EscMsg)
    BY <1>1 DEF EscTypes
  <1>4. /\ esc.ev = r0.ev /\ esc.step = r0.step /\ esc.ev \in Nat /\ esc.rev \in Nat /\ esc.step \in Nat
        /\ esc.rev # 0 => Recovers(esc.ev, esc.rev) /\ esc.rev \in DOMAIN esEvents
    BY <1>2 DEF Taken, EscRow, EscRecord
  <1>5. /\ P \in EscMsg /\ P.ev = r0.ev /\ P.rev = 0 /\ (esPeriod # 0 => P.step = r0.step + 1)
        /\ R \in EscMsg /\ R.ev = r0.ev /\ R.rev = esc.rev
    BY <1>3, <1>4 DEF StepMsg, RecoveryOf, EscMsg
  <1> HIDE DEF P, R, M
  <1>6. /\ M \o <<>> = M /\ M \o <<P>> = Append(M, P) /\ M \o <<R>> = Append(M, R)
        /\ M \o <<P, R>> = Append(Append(M, P), R)
        /\ Append(M, P) \in Seq(EscMsg) /\ Append(M, R) \in Seq(EscMsg) /\ Append(Append(M, P), R) \in Seq(EscMsg)
    BY <1>3, <1>5, AppendTwo
  <1>7. \A n \in DOMAIN M : M[n] \in EscMsg /\ M[n].step \in Nat
    BY <1>3, MsgTypes
  <1>8. Once(Append(M, P)) /\ RecoversLast(Append(M, P))
    <2>1. esPeriod # 0 => \A n \in DOMAIN M : M[n].ev = P.ev => M[n].step < P.step
      <3>1. r0.step \in Nat
        BY <1>2 DEF EscRow
      <3> QED
        BY <1>2, <1>5, <1>7, <3>1 DEF ToldOf
    <2>2. esPeriod = 0 => \A m \in DOMAIN M, n \in DOMAIN M : M[m].ev = P.ev /\ M[n].ev = P.ev => m = n
      BY <1>2, <1>5 DEF ToldOf
    <2>3. \A n \in DOMAIN M : M[n].ev = P.ev => M[n].rev = 0
      BY <1>2, <1>5 DEF ToldOf
    <2> QED
      BY <1>2, <1>3, <1>5, <2>1, <2>2, <2>3, TellStep
  <1>9. esc.rev # 0 => R.rev # 0 /\ Recovers(R.ev, R.rev)
    BY <1>4, <1>5
  <1>10. \A n \in DOMAIN M : M[n].ev = R.ev => M[n].rev = 0
    BY <1>2, <1>5 DEF ToldOf
  <1>11. ASSUME esc.rev # 0, Told(esc, M)
         PROVE  Once(Append(M, R)) /\ RecoversLast(Append(M, R))
    <2>1. \E n \in DOMAIN M : M[n].ev = R.ev
      BY <1>4, <1>5, <1>11 DEF Told
    <2> QED
      BY <1>2, <1>3, <1>5, <1>9, <1>10, <1>11, <2>1, TellRecovery
  <1> DEFINE N == Append(M, P)
  <1>12. /\ Len(N) = Len(M) + 1 /\ Len(M) \in Nat /\ DOMAIN M = 1 .. Len(M) /\ DOMAIN N = 1 .. Len(M) + 1
         /\ N[Len(M) + 1] = P /\ \A n \in DOMAIN M : N[n] = M[n]
    BY <1>3, <1>5
  <1>13. N \in Seq(EscMsg)
    BY <1>6
  <1> HIDE DEF N
  <1>14. ASSUME esc.rev # 0
         PROVE  Once(Append(N, R)) /\ RecoversLast(Append(N, R))
    <2>1. \A n \in DOMAIN N : N[n].ev = R.ev => N[n].rev = 0
      BY <1>5, <1>10, <1>12
    <2>2. \E n \in DOMAIN N : N[n].ev = R.ev
      BY <1>5, <1>12
    <2>3. Once(N) /\ RecoversLast(N)
      BY <1>8 DEF N
    <2> QED
      BY <1>5, <1>9, <1>13, <1>14, <2>1, <2>2, <2>3, TellRecovery
  <1>15. /\ DOMAIN Append(N, R) = 1 .. Len(M) + 2 /\ Append(N, R)[Len(M) + 2] = R
         /\ \A n \in DOMAIN N : Append(N, R)[n] = N[n]
    BY <1>12, <1>13, <1>5
  <1>16. /\ DOMAIN Append(M, R) = 1 .. Len(M) + 1 /\ Append(M, R)[Len(M) + 1] = R
         /\ \A n \in DOMAIN M : Append(M, R)[n] = M[n]
    BY <1>3, <1>5, <1>12
  <1>17. R.rev \in {0} \cup DOMAIN esEvents
    BY <1>4, <1>5
  <1> DEFINE Goal(S) ==
        /\ S \in Seq(EscMsg) /\ Once(S) /\ RecoversLast(S)
        /\ \A n \in DOMAIN S : \/ n \in DOMAIN M /\ S[n] = M[n]
                               \/ S[n].ev = r0.ev /\ S[n].rev \in {0} \cup DOMAIN esEvents
  <1>18. Goal(M)
    BY <1>2, <1>3
  <1>19. Goal(N)
    BY <1>5, <1>8, <1>12, <1>13 DEF N
  <1>20. esc.rev # 0 /\ Told(esc, M) => Goal(Append(M, R))
    BY <1>5, <1>6, <1>11, <1>12, <1>16, <1>17
  <1>21. esc.rev # 0 => Goal(Append(N, R))
    <2>1. Append(N, R) \in Seq(EscMsg)
      BY <1>6 DEF N
    <2>2. \A n \in DOMAIN Append(N, R) :
            \/ n \in DOMAIN M /\ Append(N, R)[n] = M[n]
            \/ Append(N, R)[n].ev = r0.ev /\ Append(N, R)[n].rev \in {0} \cup DOMAIN esEvents
      BY <1>5, <1>12, <1>15, <1>17
    <2> QED
      BY <1>14, <2>1, <2>2
  <1> HIDE DEF Goal
  <1>22. Goal(M \o run.msgs)
    <2>1. CASE run.msgs = <<>>
      BY <1>6, <1>18, <2>1
    <2>2. CASE run.msgs = <<P>>
      BY <1>6, <1>19, <2>2 DEF N
    <2>3. CASE esc.rev # 0 /\ run.msgs = <<R>> /\ Told(esc, M)
      BY <1>6, <1>20, <2>3
    <2>4. CASE esc.rev # 0 /\ run.msgs = <<P, R>>
      BY <1>6, <1>21, <2>4 DEF N
    <2> QED
      BY <2>1, <2>2, <2>3, <2>4 DEF Ran, P, R, M
  <1> QED
    BY <1>22 DEF Goal, M

\* What UPDATE writes of it agrees with what was told.
LEMMA WrittenTold ==
  ASSUME EscInv, NEW r0 \in esRows, r0.rev = 0, r0.ev # 0, NEW esc, Taken(r0, esc), esc.status = "active",
         NEW run, Ran(esc, run), run.esc.status # "completed"
  PROVE  /\ EscWritten(r0, run.esc) \in EscRow /\ SameEsc(r0, EscWritten(r0, run.esc))
         /\ ToldOf(EscWritten(r0, run.esc), esMsgs \o run.msgs)
  <1> DEFINE upd == EscWritten(r0, run.esc)
             M == esMsgs
             P == StepMsg(esc)
  <1>1. EscTypes /\ ToldTrue
    BY DEF EscInv
  <1>2. ToldOf(r0, M) /\ r0 \in EscRow
    BY <1>1, AllParts DEF ToldTrue, EscTypes
  <1>3. esPeriod \in Nat /\ M \in Seq(EscMsg)
    BY <1>1 DEF EscTypes
  <1>4. esc = r0
    BY DEF Ran, Taken
  <1>5. run.esc \in EscRecord /\ run.esc.step \in Nat /\ run.esc.next \in Nat /\ r0.step \in Nat /\ r0.ev \in Nat
    BY <1>2 DEF Ran, EscRecord, EscRow
  <1>6. run.esc.status = "active" \/ run.esc.status = "sleep"
    BY <1>5 DEF EscRecord
  <1>7. P \in EscMsg /\ P.ev = r0.ev /\ P.rev = 0 /\ P.step = IF esPeriod = 0 THEN r0.step ELSE r0.step + 1
    BY <1>3, <1>4, <1>5 DEF StepMsg, EscMsg
  <1>8. CASE run.esc.status = "active"
    <2>1. upd = [r0 EXCEPT !.step = run.esc.step, !.next = run.esc.next]
      BY <1>8 DEF EscWritten
    <2>2. /\ upd \in EscRow /\ SameEsc(r0, upd) /\ upd.ev = r0.ev /\ upd.step = run.esc.step
          /\ upd.status = "active"
      BY <1>2, <1>4, <1>5, <2>1 DEF EscRow, SameEsc
    <2> HIDE DEF upd, P
    <2>3. CASE run.msgs = <<>>
      <3>1. M \o run.msgs = M /\ run.esc.step >= r0.step
        BY <1>3, <1>4, <1>8, <2>3 DEF Ran
      <3>2. \A n \in DOMAIN M : M[n].step \in Nat
        BY <1>3, MsgTypes
      <3>3. r0.status = "active"
        BY <1>4
      <3>4. ToldOf(upd, M)
        BY <1>2, <1>5, <2>2, <3>1, <3>2, <3>3 DEF ToldOf
      <3> QED
        BY <2>2, <3>1, <3>4 DEF upd, M
    <2>4. CASE run.msgs # <<>>
      <3>1. esPeriod # 0 /\ run.msgs = <<P>> /\ run.esc.step = P.step
        BY <1>4, <1>8, <2>4 DEF Ran, P
      <3>2. M \o run.msgs = Append(M, P)
        BY <1>3, <1>7, <3>1, AppendTwo
      <3>3. \A n \in DOMAIN Append(M, P) : (n \in DOMAIN M /\ Append(M, P)[n] = M[n]) \/ Append(M, P)[n] = P
        BY <1>3, <1>7
      <3>4. \A n \in DOMAIN M : M[n].step \in Nat
        BY <1>3, MsgTypes
      <3>5. ASSUME NEW n \in DOMAIN Append(M, P), Append(M, P)[n].ev = upd.ev
            PROVE  Append(M, P)[n].rev = 0 /\ Append(M, P)[n].step <= upd.step
        <4>1. CASE n \in DOMAIN M /\ Append(M, P)[n] = M[n]
          <5>1. M[n].rev = 0 /\ M[n].step <= r0.step
            BY <1>2, <2>2, <3>1, <3>5, <4>1 DEF ToldOf
          <5> QED
            BY <1>5, <1>7, <2>2, <3>1, <3>4, <4>1, <5>1
        <4>2. CASE Append(M, P)[n] = P
          BY <1>5, <1>7, <2>2, <3>1, <4>2
        <4> QED
          BY <3>3, <4>1, <4>2
      <3>6. ToldOf(upd, Append(M, P))
        BY <3>1, <3>5 DEF ToldOf
      <3> QED
        BY <2>2, <3>2, <3>6 DEF upd, M
    <2> QED
      BY <2>3, <2>4
  <1>9. CASE run.esc.status = "sleep"
    <2>1. upd = [r0 EXCEPT !.status = "sleep"]
      BY <1>9 DEF EscWritten
    <2>2. /\ upd \in EscRow /\ SameEsc(r0, upd) /\ upd.ev = r0.ev /\ upd.step = r0.step
          /\ upd.status = "sleep"
      BY <1>2, <2>1 DEF EscRow, SameEsc
    <2> HIDE DEF upd, P
    <2>3. CASE run.msgs = <<>>
      <3>1. M \o run.msgs = M
        BY <1>3, <2>3
      <3>2. ToldOf(upd, M)
        BY <1>2, <2>2 DEF ToldOf
      <3> QED
        BY <2>2, <3>1, <3>2 DEF upd, M
    <2>4. CASE run.msgs # <<>>
      <3>1. esPeriod = 0 /\ run.msgs = <<P>>
        BY <1>9, <2>4 DEF Ran, P
      <3>2. M \o run.msgs = Append(M, P)
        BY <1>3, <1>7, <3>1, AppendTwo
      <3>3. /\ DOMAIN Append(M, P) = 1 .. Len(M) + 1 /\ DOMAIN M = 1 .. Len(M) /\ Len(M) \in Nat
            /\ \A n \in DOMAIN M : Append(M, P)[n] = M[n]
            /\ Append(M, P)[Len(M) + 1] = P
        BY <1>3, <1>7
      <3>4. \A n \in DOMAIN M : M[n].ev # r0.ev
        BY <1>2, <1>4, <3>1 DEF ToldOf
      <3>5. \A n \in DOMAIN Append(M, P) : Append(M, P)[n].ev = upd.ev => n = Len(M) + 1
        BY <2>2, <3>3, <3>4
      <3>6. ToldOf(upd, Append(M, P))
        BY <1>7, <2>2, <3>1, <3>3, <3>5 DEF ToldOf
      <3> QED
        BY <2>2, <3>2, <3>6 DEF upd, M
    <2> QED
      BY <2>3, <2>4
  <1> QED
    BY <1>6, <1>8, <1>9

\* An active escalation is executed, recovered or superseded.
LEMMA EscRuns ==
  ASSUME EscInv, esScan.rest # <<>>, NEW r0 \in esRows, r0.rev = 0, r0.ev # 0,
         \A n \in DOMAIN Tail(esScan.rest) : \E r \in esRows : r # r0 /\ Tail(esScan.rest)[n] = ReadEsc(r),
         NEW esc, Taken(r0, esc), esc.status = "active", NEW run, Ran(esc, run),
         esRows' = (esRows \ {r0}) \cup (IF run.esc.status = "completed" THEN {} ELSE {EscWritten(r0, run.esc)}),
         esMsgs' = esMsgs \o run.msgs, esScan' = [esScan EXCEPT !.rest = Tail(@)],
         UNCHANGED <<esNow, esPeriod, esEvents, esOpen, esNextId>>
  PROVE  EscInv'
  <1> DEFINE upd == IF run.esc.status = "completed" THEN r0 ELSE EscWritten(r0, run.esc)
             new == IF run.esc.status = "completed" THEN {} ELSE {upd}
  <1>1. r0 \in AllEsc /\ r0 \in EscRow
    BY AllParts DEF EscInv, EscTypes
  <1>2. upd \in EscRow /\ SameEsc(r0, upd) /\ (upd \in new => ToldOf(upd, esMsgs'))
    <2>1. CASE run.esc.status = "completed"
      BY <1>1, <2>1 DEF SameEsc
    <2>2. CASE run.esc.status # "completed"
      BY <2>2, WrittenTold
    <2> QED
      BY <2>1, <2>2
  <1>3. new \in SUBSET {upd} /\ (upd \in new \/ upd = r0) /\ esRows' = (esRows \ {r0}) \cup new
    OBVIOUS
  <1> HIDE DEF upd, new
  <1>4. /\ esMsgs' \in Seq(EscMsg) /\ Once(esMsgs') /\ RecoversLast(esMsgs')
        /\ \A n \in DOMAIN esMsgs' :
             \/ n \in DOMAIN esMsgs /\ esMsgs'[n] = esMsgs[n]
             \/ esMsgs'[n].ev = r0.ev /\ esMsgs'[n].rev \in {0} \cup DOMAIN esEvents
    BY RunTold
  <1>5. /\ EscTypes' /\ EscOrdered' /\ EscApart' /\ ScanTrue' /\ (\A r \in AllEsc : EscFacts(r))'
        /\ AllEsc' \subseteq (AllEsc \ {r0}) \cup {upd} /\ (upd \in AllEsc' => upd \in new)
    BY <1>2, <1>3, <1>4, EscReplaces
  <1>6. upd \in AllEsc' => ToldOf(upd, esMsgs)'
    BY <1>2, <1>5 DEF ToldOf
  <1>7. ToldTrue'
    BY <1>1, <1>4, <1>5, <1>6, ToldKept
  <1>8. MessagesSound'
    <2>1. Once(esMsgs)' /\ RecoversLast(esMsgs)'
      BY <1>4 DEF Once, RecoversLast, Recovers
    <2>2. (Once(esMsgs) /\ RecoversLast(esMsgs) => MessagesSound)'
      BY SoundParts, PTL
    <2> QED
      BY <2>1, <2>2
  <1> QED
    BY <1>5, <1>7, <1>8 DEF EscInv

\* A sleeping escalation is put off or cancelled.
LEMMA EscSleeps ==
  ASSUME EscInv, esScan.rest # <<>>, NEW r0 \in esRows, r0.rev = 0, r0.ev # 0,
         \A n \in DOMAIN Tail(esScan.rest) : \E r \in esRows : r # r0 /\ Tail(esScan.rest)[n] = ReadEsc(r),
         esRows' = (esRows \ {r0}) \cup (IF esConfig = "on" THEN {[r0 EXCEPT !.next = esNow + SleepPeriod]} ELSE {}),
         esMsgs' = esMsgs \o <<>>, esScan' = [esScan EXCEPT !.rest = Tail(@)],
         UNCHANGED <<esNow, esPeriod, esEvents, esOpen, esNextId>>
  PROVE  EscInv'
  <1>1. EscTypes /\ ToldTrue /\ MessagesSound
    BY DEF EscInv
  <1>2. r0 \in AllEsc /\ r0 \in EscRow /\ ToldOf(r0, esMsgs) /\ esMsgs' = esMsgs /\ esMsgs \in Seq(EscMsg)
    <2>1. r0 \in AllEsc /\ r0 \in EscRow /\ esMsgs \in Seq(EscMsg)
      BY <1>1, AllParts DEF EscTypes
    <2>2. esMsgs' = esMsgs
      BY <2>1
    <2>3. ToldOf(r0, esMsgs)
      BY <1>1, <2>1 DEF ToldTrue
    <2> QED
      BY <2>1, <2>2, <2>3
  <1>3. esNow + SleepPeriod \in Nat
    <2>1. esNow \in Nat
      BY <1>1 DEF EscTypes
    <2>2. SleepPeriod \in Nat
      BY EscAssumption
    <2> QED
      BY <2>1, <2>2
  <1>4. PICK upd : upd = IF esConfig = "on" THEN [r0 EXCEPT !.next = esNow + SleepPeriod] ELSE r0
    OBVIOUS
  <1>5. PICK new : new = IF esConfig = "on" THEN {upd} ELSE {}
    OBVIOUS
  <1>6. upd \in EscRow /\ SameEsc(r0, upd) /\ upd.step = r0.step /\ upd.status = r0.status
    BY <1>2, <1>3, <1>4 DEF EscRow, SameEsc
  <1>7. new \in SUBSET {upd} /\ (upd \in new \/ upd = r0) /\ esRows' = (esRows \ {r0}) \cup new
    BY <1>4, <1>5
  <1>8. /\ EscTypes' /\ EscOrdered' /\ EscApart' /\ ScanTrue' /\ (\A r \in AllEsc : EscFacts(r))'
        /\ AllEsc' \subseteq (AllEsc \ {r0}) \cup {upd} /\ (upd \in AllEsc' => upd \in new)
    BY <1>2, <1>6, <1>7, EscReplaces
  <1>9. ToldOf(upd, esMsgs)'
    BY <1>2, <1>6 DEF ToldOf, SameEsc
  <1>10. ToldTrue'
    <2>1. \A n \in DOMAIN esMsgs' : n \in DOMAIN esMsgs /\ esMsgs'[n] = esMsgs[n]
      BY <1>2
    <2> QED
      BY <1>2, <1>8, <1>9, <2>1, ToldKept
  <1>11. MessagesSound'
    BY <1>1, <1>2 DEF MessagesSound, StepOnce, RecoveryLast
  <1> QED
    BY <1>8, <1>10, <1>11 DEF EscInv

LEMMA EscScans ==
  ASSUME EscInv, ScanRow
  PROVE  EscInv'
  <1> DEFINE row  == Head(esScan.rest)
             last == IF Len(esScan.rest) > 1 THEN esScan.rest[2] ELSE NoEsc
             t    == TakeOver(row, last)
             esc  == t.esc
             old  == CHOOSE r \in esRows : r.id = row.id
             run  == RunActive(esc, t.superseded)
             Skip(dels) == /\ esScan' = [esScan EXCEPT !.rest = Tail(@), !.dels = @ \cup dels]
                           /\ UNCHANGED <<esRows, esMsgs>>
  <1>1. esScan.rest # <<>> /\ UNCHANGED <<esNow, esPeriod, esEvents, esOpen, esNextId>>
    BY DEF ScanRow
  <1>2. \/ Skip({row.id}) \/ Skip({})
        \/ /\ row.status # "completed" /\ esc.status = "active"
           /\ esRows' = (esRows \ {old}) \cup (IF run.esc.status = "completed" THEN {} ELSE {EscWritten(old, run.esc)})
           /\ esMsgs' = esMsgs \o run.msgs /\ esScan' = [esScan EXCEPT !.rest = Tail(@)]
        \/ /\ row.status # "completed"
           /\ esRows' = (esRows \ {old}) \cup (IF esConfig = "on" THEN {[old EXCEPT !.next = esNow + SleepPeriod]} ELSE {})
           /\ esMsgs' = esMsgs \o <<>> /\ esScan' = [esScan EXCEPT !.rest = Tail(@)]
    BY DEF ScanRow
  <1>3. PICK r0 \in esRows :
           /\ row = ReadEsc(r0) /\ row \in EscRecord
           /\ old = r0
           /\ row.status # "completed" => row = r0 /\ r0.rev = 0 /\ r0.ev # 0
           /\ \A n \in DOMAIN Tail(esScan.rest) :
                \E r \in esRows : r # r0 /\ Tail(esScan.rest)[n] = ReadEsc(r)
           /\ Len(esScan.rest) > 1 =>
                \E r \in esRows : esScan.rest[2] = ReadEsc(r) /\ EscBefore(row, esScan.rest[2])
    BY <1>1, ScanHead
  <1>4. row.id \in Nat
    BY <1>3 DEF EscRecord
  <1> HIDE DEF row, old
  <1>5. row.status # "completed" => Taken(r0, esc)
    BY <1>3, TakenLaw
  <1>6. t.superseded \in BOOLEAN
    BY DEF TakeOver
  <1> HIDE DEF t, last
  <1>7. row.status # "completed" /\ esc.status = "active" => Ran(esc, run)
    <2>1. EscTypes
      BY DEF EscInv
    <2>2. Taken(r0, esc) => esc \in EscRecord
      BY DEF Taken
    <2> HIDE DEF esc
    <2> QED
      BY <1>5, <1>6, <2>1, <2>2, RunLaw
  <1> HIDE DEF esc, run
  <1>8. CASE Skip({row.id}) \/ Skip({})
    <2>1. ASSUME NEW dels \in SUBSET Nat, Skip(dels)
          PROVE  EscInv'
      BY <1>1, <2>1, EscSkips
    <2>2. {row.id} \in SUBSET Nat /\ {} \in SUBSET Nat
      BY <1>4
    <2> HIDE DEF Skip
    <2> QED
      BY <1>8, <2>1, <2>2
  <1>9. CASE /\ row.status # "completed" /\ esc.status = "active"
             /\ esRows' = (esRows \ {old}) \cup (IF run.esc.status = "completed" THEN {} ELSE {EscWritten(old, run.esc)})
             /\ esMsgs' = esMsgs \o run.msgs /\ esScan' = [esScan EXCEPT !.rest = Tail(@)]
    BY <1>1, <1>3, <1>5, <1>7, <1>9, EscRuns
  <1>10. CASE /\ row.status # "completed"
              /\ esRows' = (esRows \ {old}) \cup (IF esConfig = "on" THEN {[old EXCEPT !.next = esNow + SleepPeriod]} ELSE {})
              /\ esMsgs' = esMsgs \o <<>> /\ esScan' = [esScan EXCEPT !.rest = Tail(@)]
    BY <1>1, <1>3, <1>10, EscSleeps
  <1> QED
    BY <1>2, <1>8, <1>9, <1>10

LEMMA EscStable == EscInv /\ [EscNext]_esVars => EscInv'
  <1> SUFFICES ASSUME EscInv, [EscNext]_esVars
               PROVE  EscInv'
    OBVIOUS
  <1>1. esNow \in Nat
    BY DEF EscInv, EscTypes
  <1>2. CASE UNCHANGED esVars
    BY <1>1, <1>2, EscStill DEF esVars
  <1>3. CASE EscTick
    BY <1>1, <1>3, EscStill DEF EscTick
  <1>4. ASSUME NEW t \in EscTriggers, NEW problem \in BOOLEAN, process_actions(t, problem)
        PROVE  EscInv'
    BY <1>4, EscOpens
  <1>5. ASSUME NEW t \in EscTriggers, CommitEvent(t)
        PROVE  EscInv'
    BY <1>5, EscCommits
  <1>6. ASSUME NEW c \in {"off", "deleted"}, Reconfigure(c)
        PROVE  EscInv'
    BY <1>1, <1>6, EscStill DEF Reconfigure
  <1>7. CASE ScanBegin
    BY <1>7, EscReads
  <1>8. CASE ScanRow
    BY <1>8, EscScans
  <1>9. CASE ScanEnd
    <2>1. esRows' \subseteq esRows
      BY <1>9 DEF ScanEnd
    <2> QED
      BY <1>9, <2>1, EscScanOver DEF ScanEnd
  <1>10. CASE ScanCrash
    <2>1. esRows' \subseteq esRows
      BY <1>10 DEF ScanCrash
    <2> QED
      BY <1>10, <2>1, EscScanOver DEF ScanCrash
  <1> QED
    BY <1>2, <1>3, <1>4, <1>5, <1>6, <1>7, <1>8, <1>9, <1>10 DEF EscNext

\* process_escalations tells every step of a problem once and its recovery last,
\* whatever events come in between and wherever the escalator stops.
THEOREM MessagesInOrder == EscSpec => []MessagesSound
  <1>1. EscInv => MessagesSound
    BY DEF EscInv
  <1> QED
    BY <1>1, EscInitial, EscStable, PTL DEF EscSpec
=============================================================================
