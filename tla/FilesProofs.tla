---------------------------- MODULE FilesProofs ----------------------------
(***************************************************************************)
(* For any number of files and requests, and files of any size: the state  *)
(* of Files is well typed, concurrent deletions of a file succeed once,    *)
(* Content-Length is right, and the process ends by the errors of its read *)
(* streams only.                                                           *)
(***************************************************************************)
EXTENDS Files, FiniteSetTheorems, TLAPS

LEMMA GotoType ==
    ASSUME TypeOK, NEW p \in Reqs, NEW r \in Request, Goto(p, r)
    PROVE  req' \in [Reqs -> Request]
  BY DEF TypeOK, Goto

LEMMA IdleType == Idle \in Request
  BY DEF Request, Idle

(* The locals a request has at each of its waiting points. *)
LEMMA RequestShape ==
    ASSUME NEW r \in Request
    PROVE  /\ r.pc = "receive" => r.names \subseteq Names
           /\ r.pc \in {"access", "unlink", "send"} =>
                 r \in [pc : {"access", "unlink", "send"}, name : Names]
           /\ r.pc = "stat" =>
                 r \in [pc : {"stat"}, name : Names, ask : RangeHeader,
                        ranged : BOOLEAN]
           /\ r.pc \in {"open", "pipe"} =>
                 r \in [pc : {"open", "pipe"}, name : Names, start : Int,
                        stop : Int, length : Int, size : 0..MaxSize]
<1>1. r.pc = "receive" => r.names \subseteq Names
  BY DEF Request, Idle
<1>2. r.pc \in {"access", "unlink", "send"} =>
         r \in [pc : {"access", "unlink", "send"}, name : Names]
  BY DEF Request, Idle
<1>3. r.pc = "stat" =>
         r \in [pc : {"stat"}, name : Names, ask : RangeHeader, ranged : BOOLEAN]
  BY DEF Request, Idle
<1>4. r.pc \in {"open", "pipe"} =>
         r \in [pc : {"open", "pipe"}, name : Names, start : Int, stop : Int,
                length : Int, size : 0..MaxSize]
  BY DEF Request, Idle
<1> QED BY <1>1, <1>2, <1>3, <1>4

(* What a stream knows when it has looked at its file: a request without a *)
(* range asks for everything, and a length was computed from its bounds.   *)
Bounded(r) ==
    /\ r.pc = "stat" /\ ~r.ranged => r.ask = All
    /\ r.pc \in {"open", "pipe"} =>
          /\ 0 <= r.start /\ r.start <= r.stop + 1
          /\ r.length = r.stop - r.start + 1

AllBounded == \A p \in Reqs : Bounded(req[p])

(* The bounds of a stream are numbers when it passes statSync and          *)
(* createReadStream.                                                       *)
LEMMA StatBounds ==
    ASSUME TypeOK, AllBounded, NEW p \in Reqs, Stat(p)
    PROVE  /\ req' \in [Reqs -> Request]
           /\ Bounded(req'[p])
<1> DEFINE r == req[p]
           s == size[r.name]
           stop == Stop(r.ask, s)
           new == [pc |-> "open", name |-> r.name, start |-> r.ask.start,
                   stop |-> stop, length |-> ChunkSize(r.ask.start, stop),
                   size |-> s]
<1>1. r \in [pc : {"stat"}, name : Names, ask : RangeHeader, ranged : BOOLEAN]
  BY RequestShape DEF Stat, TypeOK
<1>2. s \in 0..MaxSize
  BY <1>1 DEF TypeOK
<1>3. /\ r.ask.start \in (0..MaxSize + 1) \cup {NaN}
      /\ r.ask.last \in (0..MaxSize + 1) \cup {NaN, Rest}
  <2> HIDE DEF r
  <2> QED BY <1>1 DEF RangeHeader
<1>4. r.ask.start \in Int /\ stop \in Int
        /\ 0 <= r.ask.start /\ r.ask.start <= stop + 1
  <2>1. CASE r.ranged
    <3>1. Readable(r.ask.start, stop)
      BY <2>1 DEF Stat
    <3>2. r.ask.start \in 0..MaxSize + 1
      BY <1>3, <3>1 DEF Readable
    <3>3. stop \in Int
      <4> HIDE DEF r, s
      <4> QED BY <1>3, <1>2, <3>1, SizesAreNumbers DEF Readable, Stop
    <3> HIDE DEF r, stop
    <3> QED BY <3>1, <3>2, <3>3, SizesAreNumbers DEF Readable
  <2>2. CASE ~r.ranged
    <3>1. r.ask = All
      BY <1>1, <2>2 DEF AllBounded, Bounded
    <3>2. r.ask.start = 0 /\ r.ask.last = Rest
      BY <3>1 DEF All
    <3>3. stop = s - 1
      BY <3>2 DEF Stop
    <3> HIDE DEF r, stop, s
    <3> QED BY <1>2, <3>2, <3>3, SizesAreNumbers
  <2> QED BY <2>1, <2>2
<1>5. ChunkSize(r.ask.start, stop) = stop - r.ask.start + 1
  BY DEF ChunkSize
<1>6. Goto(p, new)
  BY DEF Stat
<1>7. new \in Request /\ Bounded(new)
  <2> HIDE DEF r, s, stop
  <2> QED BY <1>1, <1>2, <1>4, <1>5 DEF Request, Bounded
<1>8. req'[p] = new
  BY <1>6 DEF Goto, TypeOK
<1> QED
  <2> HIDE DEF new
  <2> QED BY <1>6, <1>7, <1>8, GotoType

(* A request that goes on with well-typed locals leaves the others alone.  *)
LEMMA GotoBounded ==
    ASSUME TypeOK, AllBounded, NEW p \in Reqs,
           NEW r \in Request, Bounded(r), Goto(p, r)
    PROVE  req' \in [Reqs -> Request] /\ AllBounded'
<1>1. req' \in [Reqs -> Request]
  BY GotoType
<1>2. req'[p] = r /\ \A q \in Reqs \ {p} : req'[q] = req[q]
  BY DEF Goto, TypeOK
<1> QED BY <1>1, <1>2 DEF AllBounded

LEMMA GotoIdle ==
    ASSUME TypeOK, AllBounded, NEW p \in Reqs, Goto(p, Idle)
    PROVE  req' \in [Reqs -> Request] /\ AllBounded'
<1>1. Bounded(Idle)
  BY DEF Bounded, Idle
<1> QED BY <1>1, IdleType, GotoBounded

LEMMA TypeStep ==
    ASSUME TypeOK, AllBounded, [Next]_vars
    PROVE  TypeOK' /\ AllBounded'
<1>1. ASSUME NEW p \in Reqs, NEW S \in SUBSET Names, Receive(p, S)
      PROVE  TypeOK' /\ AllBounded'
  <2>1. [pc |-> "receive", names |-> S] \in Request
    BY <1>1 DEF Receive, Accepts, Request
  <2>2. Bounded([pc |-> "receive", names |-> S])
    BY DEF Bounded
  <2>3. req' \in [Reqs -> Request] /\ AllBounded'
    BY <1>1, <2>1, <2>2, GotoBounded DEF Receive
  <2> QED BY <1>1, <2>3 DEF Receive, TypeOK
<1>2. ASSUME NEW p \in Reqs, Upload(p) PROVE TypeOK' /\ AllBounded'
  <2>1. req[p].names \subseteq Names
    BY <1>2, RequestShape DEF Upload, TypeOK
  <2>2. size' \in [Names -> 0..MaxSize]
    <3>1. PICK s \in [req[p].names -> 0..MaxSize] :
             size' = [n \in Names |-> IF n \in req[p].names THEN s[n] ELSE size[n]]
      BY <1>2 DEF Upload
    <3> QED BY <2>1, <3>1 DEF TypeOK
  <2>3. file' \in [Names -> {"absent", "incoming", "present", "gone",
                           "directory"}]
    BY <1>2 DEF Upload, TypeOK
  <2>4. req' \in [Reqs -> Request] /\ AllBounded'
    BY <1>2, GotoIdle DEF Upload
  <2> QED BY <1>2, <2>2, <2>3, <2>4 DEF Upload, TypeOK
<1>3. ASSUME NEW p \in Reqs, ReceiveFails(p) PROVE TypeOK' /\ AllBounded'
  BY <1>3, GotoIdle DEF ReceiveFails, TypeOK
<1>4. ASSUME NEW p \in Reqs, NEW n \in Names,
             DeleteFile(p, n) \/ DownloadFile(p, n)
      PROVE  TypeOK' /\ AllBounded'
  <2>1. ASSUME NEW pc \in {"access", "send"}
        PROVE  /\ [pc |-> pc, name |-> n] \in Request
               /\ Bounded([pc |-> pc, name |-> n])
    BY DEF Request, Bounded
  <2>2. req' \in [Reqs -> Request] /\ AllBounded'
    BY <1>4, <2>1, GotoBounded DEF DeleteFile, DownloadFile
  <2> QED BY <1>4, <2>2 DEF DeleteFile, DownloadFile, TypeOK
<1>5. ASSUME NEW p \in Reqs, Access(p) PROVE TypeOK' /\ AllBounded'
  <2>1. req[p] \in [pc : {"access", "unlink", "send"}, name : Names]
    BY <1>5, RequestShape DEF Access, TypeOK
  <2>2. /\ [req[p] EXCEPT !.pc = "unlink"] \in Request
        /\ Bounded([req[p] EXCEPT !.pc = "unlink"])
    BY <2>1 DEF Request, Bounded
  <2>3. req' \in [Reqs -> Request] /\ AllBounded'
    BY <1>5, <2>2, GotoBounded, GotoIdle DEF Access
  <2> QED BY <1>5, <2>3 DEF Access, TypeOK
<1>6. ASSUME NEW p \in Reqs, Unlink(p) PROVE TypeOK' /\ AllBounded'
  <2>1. req[p].name \in Names
    BY <1>6, RequestShape DEF Unlink, TypeOK
  <2>2. req' \in [Reqs -> Request] /\ AllBounded'
    BY <1>6, GotoIdle DEF Unlink
  <2>3. /\ file' \in [Names -> {"absent", "incoming", "present", "gone",
                           "directory"}]
        /\ size' \in [Names -> 0..MaxSize]
        /\ deletions' \in [Names -> 0..2]
    BY <1>6, <2>1, SizesAreNumbers DEF Unlink, TypeOK
  <2> QED BY <1>6, <2>2, <2>3 DEF Unlink, TypeOK
<1>7. ASSUME NEW p \in Reqs,
             UnlinkRejects(p) \/ SendFile(p) \/ StatThrows(p) \/ PipeEnds(p)
      PROVE  TypeOK' /\ AllBounded'
  <2>1. /\ Goto(p, Idle)
        /\ UNCHANGED <<file, size, deletions, leaked, alive>>
    BY <1>7 DEF UnlinkRejects, SendFile, StatThrows, PipeEnds
  <2> QED BY <2>1, GotoIdle DEF TypeOK
<1>8. ASSUME NEW p \in Reqs, NEW n \in Names, StreamFile(p, n)
      PROVE  TypeOK' /\ AllBounded'
  <2> DEFINE r == [pc |-> "stat", name |-> n, ask |-> All, ranged |-> FALSE]
  <2>1. All \in RangeHeader
    BY SizesAreNumbers DEF All, RangeHeader
  <2>2. r \in Request /\ Bounded(r)
    BY <2>1 DEF Request, Bounded
  <2>3. req' \in [Reqs -> Request] /\ AllBounded'
    BY <1>8, <2>2, GotoBounded DEF StreamFile
  <2> QED BY <1>8, <2>3 DEF StreamFile, TypeOK
<1>9. ASSUME NEW p \in Reqs, NEW n \in Names, NEW ask \in RangeHeader,
             StreamVideo(p, n, ask)
      PROVE  TypeOK' /\ AllBounded'
  <2> DEFINE r == [pc |-> "stat", name |-> n, ask |-> ask, ranged |-> TRUE]
  <2>1. r \in Request /\ Bounded(r)
    BY DEF Request, Bounded
  <2>2. req' \in [Reqs -> Request] /\ AllBounded'
    BY <1>9, <2>1, GotoBounded DEF StreamVideo
  <2> QED BY <1>9, <2>2 DEF StreamVideo, TypeOK
<1>10. ASSUME NEW p \in Reqs, Stat(p) PROVE TypeOK' /\ AllBounded'
  <2>1. req' \in [Reqs -> Request] /\ Bounded(req'[p])
    BY <1>10, StatBounds
  <2>2. \A q \in Reqs \ {p} : req'[q] = req[q]
    BY <1>10 DEF Stat, Goto, TypeOK
  <2>3. AllBounded'
    BY <2>1, <2>2 DEF AllBounded
  <2> QED BY <1>10, <2>1, <2>3 DEF Stat, TypeOK
<1>11. ASSUME NEW p \in Reqs, Open(p) PROVE TypeOK' /\ AllBounded'
  <2> DEFINE r == [req[p] EXCEPT !.pc = "pipe"]
  <2>1. req[p] \in [pc : {"open", "pipe"}, name : Names, start : Int,
                    stop : Int, length : Int, size : 0..MaxSize]
    BY <1>11, RequestShape DEF Open, TypeOK
  <2>2. Bounded(req[p])
    BY DEF AllBounded
  <2>3. r \in Request /\ Bounded(r)
    BY <1>11, <2>1, <2>2 DEF Open, Request, Bounded
  <2>4. Goto(p, r)
    BY <1>11 DEF Open
  <2>5. req' \in [Reqs -> Request] /\ AllBounded'
    <3> HIDE DEF r
    <3> QED BY <2>3, <2>4, GotoBounded
  <2> QED BY <1>11, <2>5 DEF Open, TypeOK
<1>12. ASSUME NEW p \in Reqs, OpenFails(p) \/ ReadFails(p)
       PROVE  TypeOK' /\ AllBounded'
  <2>1. req' \in [Reqs -> Request] /\ AllBounded'
    <3>1. req' = [q \in Reqs |-> Idle]
      BY <1>12 DEF OpenFails, ReadFails, Die
    <3> QED BY <3>1, IdleType DEF AllBounded, Bounded, Idle
  <2>2. /\ file' \in [Names -> {"absent", "incoming", "present", "gone",
                           "directory"}]
        /\ size' \in [Names -> 0..MaxSize]
    BY <1>12 DEF OpenFails, ReadFails, Die, TypeOK
  <2>3. deletions' = deletions /\ leaked' = 0 /\ alive' = FALSE
    BY <1>12 DEF OpenFails, ReadFails, Die
  <2> QED BY <2>1, <2>2, <2>3 DEF TypeOK
<1>13. CASE Restart
  <2>1. /\ file' \in [Names -> {"absent", "incoming", "present", "gone",
                           "directory"}]
        /\ size' \in [Names -> 0..MaxSize]
    BY <1>13, SizesAreNumbers DEF Restart, TypeOK
  <2> QED BY <1>13, <2>1 DEF Restart, TypeOK, AllBounded
<1>14. CASE UNCHANGED vars
  BY <1>14 DEF vars, TypeOK, AllBounded
<1>15. ASSUME NEW p \in Reqs, PipeAbandoned(p) PROVE TypeOK' /\ AllBounded'
  BY <1>15, GotoIdle DEF PipeAbandoned, TypeOK
<1> QED
  BY <1>1, <1>2, <1>3, <1>4, <1>5, <1>6, <1>7, <1>8, <1>9, <1>10, <1>11,
     <1>12, <1>13, <1>14, <1>15
     DEF Next, Arrive, Serve

LEMMA TypedAndBounded == Spec => [](TypeOK /\ AllBounded)
<1>1. Init => TypeOK /\ AllBounded
  BY IdleType DEF Init, TypeOK, AllBounded, Bounded, Idle
<1>2. TypeOK /\ AllBounded /\ [Next]_vars => TypeOK' /\ AllBounded'
  BY TypeStep
<1> QED BY <1>1, <1>2, PTL DEF Spec

(* Type correctness of the directory, and of what requests know of it.     *)
THEOREM TypeCorrect == Spec => []TypeOK
BY TypedAndBounded, PTL

-----------------------------------------------------------------------------
(* Content-Length is the number of bytes sent, or the range ends past the  *)
(* end of the file.                                                        *)
THEOREM LengthsAreRight == Spec => []LengthIsWhatIsSent
<1>1. ASSUME TypeOK, AllBounded, NEW p \in Reqs,
             req[p].pc \in {"open", "pipe"}, req[p].stop < req[p].size
      PROVE  req[p].length = Cardinality(Delivered(req[p]))
  <2>1. PICK r : r = req[p]
    OBVIOUS
  <2>2. /\ r.start \in Int /\ r.stop \in Int /\ r.size \in Int
        /\ r.start <= r.stop + 1 /\ r.length = r.stop - r.start + 1
        /\ r.stop < r.size
    BY <1>1, <2>1, RequestShape, SizesAreNumbers DEF TypeOK, AllBounded, Bounded
  <2>3. Delivered(r) = r.start..r.stop
    BY <2>2 DEF Delivered
  <2>4. Cardinality(r.start..r.stop) =
          IF r.start > r.stop THEN 0 ELSE r.stop - r.start + 1
    BY <2>2, FS_Interval
  <2> QED BY <2>1, <2>2, <2>3, <2>4
<1>2. ASSUME TypeOK, AllBounded, NEW p \in Reqs, req[p].pc \in {"open", "pipe"}
      PROVE  req[p].stop < req[p].size \/ req[p].stop >= req[p].size
  BY <1>2, RequestShape, SizesAreNumbers DEF TypeOK
<1>3. TypeOK /\ AllBounded => LengthIsWhatIsSent
  BY <1>1, <1>2 DEF LengthIsWhatIsSent
<1> QED BY <1>3, TypedAndBounded, PTL

-----------------------------------------------------------------------------
(* What a name can be that somebody has looked at.                         *)
Seen == {"present", "gone", "directory"}

(* Why an upload takes no part in a deletion: what multer is writing, it   *)
(* writes for one request, under a name nobody else uses, and whoever      *)
(* looks at a file looks at one that was there.                            *)
Receiving(p) == req[p].pc = "receive"

Separate ==
    /\ \A p \in Reqs : Receiving(p) =>
          \A n \in req[p].names : file[n] = "incoming"
    /\ \A p, q \in Reqs : Receiving(p) /\ Receiving(q) /\ p # q =>
          req[p].names \cap req[q].names = {}
    /\ \A p \in Reqs : req[p].pc \in {"stat", "open"} =>
          file[req[p].name] \in Seen

LEMMA GotoOthers ==
    ASSUME TypeOK, NEW p \in Reqs, NEW r, Goto(p, r)
    PROVE  req'[p] = r /\ \A q \in Reqs \ {p} : req'[q] = req[q]
  BY DEF TypeOK, Goto

(* A request with these locals is not receiving, and any file it has       *)
(* looked at was there.                                                    *)
Looked(r) ==
    /\ r.pc # "receive"
    /\ r.pc \in {"stat", "open"} =>
          r.name \in Names /\ file[r.name] \in Seen

FilesOnlyGo ==
    \A n \in Names : \/ file'[n] = file[n]
                     \/ Exists(n) /\ file'[n] = "gone"

LEMMA SeparateGoto ==
    ASSUME TypeOK, Separate, NEW p \in Reqs, NEW r, Goto(p, r), Looked(r),
           FilesOnlyGo
    PROVE  Separate'
<1> USE DEF Looked, FilesOnlyGo, Exists, Seen
<1>1. req'[p] = r /\ \A q \in Reqs \ {p} : req'[q] = req[q]
  BY GotoOthers
<1>2. ASSUME NEW q \in Reqs, Receiving(q)'
      PROVE  q # p /\ Receiving(q) /\ req'[q] = req[q]
             /\ \A n \in req[q].names : n \in Names /\ file'[n] = "incoming"
  <2>1. q # p /\ Receiving(q) /\ req'[q] = req[q]
    BY <1>1, <1>2 DEF Receiving
  <2>2. req[q].names \subseteq Names
    BY <2>1, RequestShape DEF TypeOK, Receiving
  <2> QED BY <2>1, <2>2 DEF Separate
<1>3. ASSUME NEW q \in Reqs, req'[q].pc \in {"stat", "open"}
      PROVE  file'[req'[q].name] \in Seen
  <2>1. CASE q = p
    BY <1>1, <1>3, <2>1
  <2>2. CASE q # p
    <3>1. req[q].name \in Names /\ file[req[q].name] \in Seen
      BY <1>1, <1>3, <2>2, RequestShape DEF TypeOK, Separate
    <3> QED BY <1>1, <2>2, <3>1
  <2> QED BY <2>1, <2>2
<1>4. ASSUME NEW q1 \in Reqs, NEW q2 \in Reqs, q1 # q2,
             Receiving(q1)', Receiving(q2)'
      PROVE  req'[q1].names \cap req'[q2].names = {}
  BY <1>2, <1>4 DEF Separate
<1> QED BY <1>2, <1>3, <1>4 DEF Separate

(* The names of a request that ends receiving are its own.                 *)
LEMMA SeparateReceived ==
    ASSUME TypeOK, Separate, NEW p \in Reqs, Receiving(p), Goto(p, Idle),
           NEW to \in {"present", "gone"},
           file' = [n \in Names |-> IF n \in req[p].names THEN to ELSE file[n]]
    PROVE  Separate'
<1> USE DEF Seen
<1>1. req'[p] = Idle /\ \A q \in Reqs \ {p} : req'[q] = req[q]
  BY GotoOthers
<1>2. ASSUME NEW q \in Reqs, Receiving(q)'
      PROVE  q # p /\ Receiving(q) /\ req'[q] = req[q]
             /\ \A n \in req[q].names : file'[n] = "incoming"
  <2>1. q # p /\ Receiving(q) /\ req'[q] = req[q]
    BY <1>1, <1>2 DEF Receiving, Idle
  <2>2. req[q].names \subseteq Names /\ req[p].names \cap req[q].names = {}
    BY <2>1, RequestShape DEF TypeOK, Receiving, Separate
  <2> QED BY <2>1, <2>2 DEF Separate
<1>3. ASSUME NEW q \in Reqs, req'[q].pc \in {"stat", "open"}
      PROVE  file'[req'[q].name] \in Seen
  <2>1. q # p /\ req'[q] = req[q]
    BY <1>1, <1>3 DEF Idle
  <2>2. req[q].name \in Names /\ file[req[q].name] \in Seen
    BY <1>3, <2>1, RequestShape DEF TypeOK, Separate
  <2> QED BY <2>1, <2>2
<1>4. ASSUME NEW q1 \in Reqs, NEW q2 \in Reqs, q1 # q2,
             Receiving(q1)', Receiving(q2)'
      PROVE  req'[q1].names \cap req'[q2].names = {}
  BY <1>2, <1>4 DEF Separate
<1> QED BY <1>2, <1>3, <1>4 DEF Separate

LEMMA SeparateStep ==
    ASSUME TypeOK, Separate, [Next]_vars
    PROVE  Separate'
<1> USE DEF Seen
<1>1. ASSUME NEW p \in Reqs, NEW S \in SUBSET Names, Receive(p, S)
      PROVE  Separate'
  <2>1. /\ req'[p] = [pc |-> "receive", names |-> S]
        /\ \A q \in Reqs \ {p} : req'[q] = req[q]
    BY <1>1, GotoOthers DEF Receive
  <2>2. /\ \A n \in S : file[n] = "absent" /\ file'[n] = "incoming"
        /\ \A n \in Names \ S : file'[n] = file[n]
    BY <1>1 DEF Receive
  <2>3. ASSUME NEW q \in Reqs, q # p, Receiving(q)'
        PROVE  Receiving(q) /\ req[q].names \subseteq Names \ S
    <3>1. Receiving(q) /\ req[q].names \subseteq Names
      BY <2>1, <2>3, RequestShape DEF Receiving, TypeOK
    <3> QED BY <2>2, <3>1 DEF Separate
  <2>4. ASSUME NEW q \in Reqs, Receiving(q)', NEW n \in req'[q].names
        PROVE  file'[n] = "incoming"
    BY <2>1, <2>2, <2>3, <2>4 DEF Separate
  <2>5. ASSUME NEW q1 \in Reqs, NEW q2 \in Reqs, q1 # q2,
               Receiving(q1)', Receiving(q2)'
        PROVE  req'[q1].names \cap req'[q2].names = {}
    BY <2>1, <2>3, <2>5 DEF Separate
  <2>6. ASSUME NEW q \in Reqs, req'[q].pc \in {"stat", "open"}
        PROVE  file'[req'[q].name] \in Seen
    <3>1. q # p /\ req'[q] = req[q]
      BY <2>1, <2>6
    <3>2. req[q].name \in Names /\ file[req[q].name] \in Seen
      BY <2>6, <3>1, RequestShape DEF TypeOK, Separate
    <3> QED BY <2>2, <3>1, <3>2
  <2> QED BY <2>4, <2>5, <2>6 DEF Separate
<1>2. ASSUME NEW p \in Reqs, Upload(p) \/ ReceiveFails(p) PROVE Separate'
  BY <1>2, SeparateReceived DEF Upload, ReceiveFails, Receiving
<1>3. ASSUME NEW p \in Reqs, NEW n \in Names,
             DeleteFile(p, n) \/ DownloadFile(p, n)
      PROVE  Separate'
  <2>1. ASSUME NEW pc \in {"access", "send"}
        PROVE  Looked([pc |-> pc, name |-> n])
    BY DEF Looked
  <2>2. FilesOnlyGo
    BY <1>3 DEF DeleteFile, DownloadFile, FilesOnlyGo
  <2> QED BY <1>3, <2>1, <2>2, SeparateGoto DEF DeleteFile, DownloadFile
<1>4. ASSUME NEW p \in Reqs, NEW n \in Names, StreamFile(p, n) PROVE Separate'
  <2>1. Looked([pc |-> "stat", name |-> n, ask |-> All, ranged |-> FALSE])
    BY <1>4 DEF StreamFile, Exists, Looked
  <2>2. FilesOnlyGo
    BY <1>4 DEF StreamFile, FilesOnlyGo
  <2> QED BY <1>4, <2>1, <2>2, SeparateGoto DEF StreamFile
<1>5. ASSUME NEW p \in Reqs, NEW n \in Names, NEW ask \in RangeHeader,
             StreamVideo(p, n, ask)
      PROVE  Separate'
  <2>1. Looked([pc |-> "stat", name |-> n, ask |-> ask, ranged |-> TRUE])
    BY <1>5 DEF StreamVideo, Exists, Looked
  <2>2. FilesOnlyGo
    BY <1>5 DEF StreamVideo, FilesOnlyGo
  <2> QED BY <1>5, <2>1, <2>2, SeparateGoto DEF StreamVideo
<1>6. Looked(Idle)
  BY DEF Looked, Idle
<1>7. ASSUME NEW p \in Reqs, Access(p) PROVE Separate'
  <2>1. req[p] \in [pc : {"access", "unlink", "send"}, name : Names]
    BY <1>7, RequestShape DEF Access, TypeOK
  <2>2. Looked([req[p] EXCEPT !.pc = "unlink"])
    BY <2>1 DEF Looked
  <2>3. FilesOnlyGo
    BY <1>7 DEF Access, FilesOnlyGo
  <2> QED BY <1>6, <1>7, <2>2, <2>3, SeparateGoto DEF Access
<1>8. ASSUME NEW p \in Reqs,
             \/ Unlink(p) \/ UnlinkRejects(p) \/ SendFile(p) \/ StatThrows(p)
             \/ PipeEnds(p) \/ PipeAbandoned(p)
      PROVE  Separate'
  <2>1. Goto(p, Idle)
    BY <1>8 DEF Unlink, UnlinkRejects, SendFile, StatThrows, PipeEnds, PipeAbandoned
  <2>2. FilesOnlyGo
    BY <1>8 DEF Unlink, UnlinkRejects, SendFile, StatThrows, PipeEnds,
                PipeAbandoned, Exists, TypeOK, FilesOnlyGo
  <2> QED BY <1>6, <2>1, <2>2, SeparateGoto
<1>9. ASSUME NEW p \in Reqs, Stat(p) PROVE Separate'
  <2> DEFINE r == [pc |-> "open", name |-> req[p].name,
                   start |-> req[p].ask.start,
                   stop |-> Stop(req[p].ask, size[req[p].name]),
                   length |-> ChunkSize(req[p].ask.start,
                                        Stop(req[p].ask, size[req[p].name])),
                   size |-> size[req[p].name]]
  <2>1. req[p].name \in Names
    BY <1>9, RequestShape DEF Stat, TypeOK
  <2>2. Looked(r)
    BY <1>9, <2>1 DEF Stat, Exists, Looked
  <2>3. FilesOnlyGo /\ Goto(p, r)
    BY <1>9 DEF Stat, FilesOnlyGo
  <2> HIDE DEF r
  <2> QED BY <2>2, <2>3, SeparateGoto
<1>10. ASSUME NEW p \in Reqs, Open(p) PROVE Separate'
  <2>1. req[p] \in [pc : {"open", "pipe"}, name : Names, start : Int,
                    stop : Int, length : Int, size : 0..MaxSize]
    BY <1>10, RequestShape DEF Open, TypeOK
  <2>2. Looked([req[p] EXCEPT !.pc = "pipe"])
    BY <2>1 DEF Looked
  <2>3. FilesOnlyGo
    BY <1>10 DEF Open, FilesOnlyGo
  <2> QED BY <1>10, <2>2, <2>3, SeparateGoto DEF Open
<1>11. ASSUME NEW p \in Reqs, OpenFails(p) \/ ReadFails(p) PROVE Separate'
  BY <1>11 DEF OpenFails, ReadFails, Die, Separate, Receiving, Idle
<1>12. CASE Restart
  <2>1. req' = req
    BY <1>12 DEF Restart
  <2>2. \A n \in Names : \/ file'[n] = file[n]
                         \/ Exists(n) /\ file'[n] = "gone"
    BY <1>12 DEF Restart
  <2>3. \A p \in Reqs : /\ Receiving(p) => req[p].names \subseteq Names
                        /\ req[p].pc \in {"stat", "open"} => req[p].name \in Names
    BY RequestShape DEF TypeOK, Receiving
  <2> QED BY <2>1, <2>2, <2>3 DEF Separate, Receiving, Exists
<1>13. CASE UNCHANGED vars
  BY <1>13 DEF vars, Separate, Receiving
<1> QED
  BY <1>1, <1>2, <1>3, <1>4, <1>5, <1>6, <1>7, <1>8, <1>9, <1>10, <1>11,
     <1>12, <1>13
     DEF Next, Arrive, Serve

LEMMA SeparateAlways == Spec => []Separate
<1>1. Init => Separate
  BY DEF Init, Separate, Receiving, Idle
<1>2. TypeOK /\ Separate /\ [Next]_vars => Separate'
  BY SeparateStep
<1> QED BY <1>1, <1>2, TypeCorrect, PTL DEF Spec

(* One deletion of a file is answered with success, and no upload, crash   *)
(* or restart brings the file back.                                        *)
THEOREM SingleDeletion == Spec => []DeletedOnce
<1>1. Init => DeletedOnce
  BY DEF Init, DeletedOnce
<1>2. ASSUME TypeOK, Separate, DeletedOnce, [Next]_vars PROVE DeletedOnce'
  <2>1. ASSUME NEW p \in Reqs, Unlink(p) PROVE DeletedOnce'
    <3>1. req[p].name \in Names
      BY <1>2, <2>1, RequestShape DEF Unlink, TypeOK
    <3>2. deletions[req[p].name] = 0
      BY <1>2, <2>1, <3>1 DEF Unlink, Exists, DeletedOnce
    <3> QED BY <1>2, <2>1, <3>1, <3>2 DEF Unlink, DeletedOnce, TypeOK
  <2>2. CASE /\ deletions' = deletions
             /\ \A n \in Names : file[n] = "gone" => file'[n] = "gone"
    BY <1>2, <2>2 DEF DeletedOnce
  <2>3. ASSUME NEW p \in Reqs, Upload(p) \/ ReceiveFails(p)
        PROVE  /\ deletions' = deletions
               /\ \A n \in Names : file[n] = "gone" => file'[n] = "gone"
    BY <1>2, <2>3 DEF Upload, ReceiveFails, Separate, Receiving
  <2>4. ASSUME NEW p \in Reqs, NEW S \in SUBSET Names, Receive(p, S)
        PROVE  /\ deletions' = deletions
               /\ \A n \in Names : file[n] = "gone" => file'[n] = "gone"
    BY <2>4 DEF Receive
  <2>5. ASSUME NEW p \in Reqs, OpenFails(p) \/ ReadFails(p)
        PROVE  /\ deletions' = deletions
               /\ \A n \in Names : file[n] = "gone" => file'[n] = "gone"
    BY <2>5 DEF OpenFails, ReadFails, Die
  <2>6. ASSUME Restart
        PROVE  /\ deletions' = deletions
               /\ \A n \in Names : file[n] = "gone" => file'[n] = "gone"
    BY <2>6 DEF Restart
  <2>7. CASE UNCHANGED <<file, deletions>>
    BY <2>2, <2>7
  <2> QED
    BY <1>2, <2>1, <2>2, <2>3, <2>4, <2>5, <2>6, <2>7
       DEF Next, Arrive, Serve, vars, DeleteFile, DownloadFile, StreamFile,
           StreamVideo, Access, UnlinkRejects, SendFile, Stat, StatThrows, Open,
           PipeEnds, PipeAbandoned
<1> QED BY <1>1, <1>2, TypeCorrect, SeparateAlways, PTL DEF Spec

(* An end of the process is an error of a stream: it had looked at its     *)
(* file, which was there, so that only a removal can have made the opening *)
(* fail, unless descriptors have run out; and of those all but as many as  *)
(* there are other requests are held by streams that were abandoned.       *)
THEOREM DeathsAreStreamErrors == Spec => DiesOfItsStreams
<1>1. ASSUME TypeOK, Separate, NEW p \in Reqs, OpenFails(p) PROVE StreamError(p)
  <2>1. CASE ~Exists(req[p].name)
    BY <1>1, <2>1 DEF OpenFails, Exists, Separate, Seen, StreamError
  <2>2. CASE NoneLeft
    <3>1. req[p].pc = "open" /\ Piping \subseteq Reqs \ {p}
      BY <1>1 DEF OpenFails, Piping
    <3>2. IsFiniteSet(Reqs \ {p})
      BY Descriptors, FS_Subset
    <3>3. /\ Cardinality(Piping) <= Cardinality(Reqs \ {p})
          /\ Cardinality(Piping) \in Nat /\ Cardinality(Reqs \ {p}) \in Nat
      BY <3>1, <3>2, FS_Subset, FS_CardinalityType
    <3> QED BY <1>1, <2>2, <3>1, <3>3, Descriptors DEF NoneLeft, StreamError, TypeOK
  <2> QED BY <1>1, <2>1, <2>2 DEF OpenFails
<1>2. ASSUME NEW p \in Reqs, ReadFails(p) PROVE StreamError(p)
  BY <1>2 DEF ReadFails, StreamError
<1>3. ASSUME TypeOK, Separate, [Next]_vars, alive, ~alive'
      PROVE  \E p \in Reqs : StreamError(p)
  <2>1. PICK p \in Reqs : OpenFails(p) \/ ReadFails(p)
    BY <1>3
       DEF Next, Arrive, Serve, vars, DeleteFile, DownloadFile, StreamFile,
           StreamVideo, Receive, Upload, ReceiveFails, Access, Unlink,
           UnlinkRejects, SendFile, Stat, StatThrows, Open, PipeEnds,
           PipeAbandoned, Restart
  <2> QED BY <1>1, <1>2, <1>3, <2>1
<1>4. TypeOK /\ Separate /\ [Next]_vars =>
        [alive /\ ~alive' => \E p \in Reqs : StreamError(p)]_vars
  BY <1>3
<1> QED BY <1>4, TypeCorrect, SeparateAlways, PTL DEF Spec, DiesOfItsStreams

-----------------------------------------------------------------------------

(* What a request may go on to; from any point it may end.                 *)
Onwards == {<<"access", "unlink">>, <<"stat", "open">>, <<"open", "pipe">>}

(* The measure behind RequestsEnd: a request on a file goes on to a later  *)
(* point, with the same file, or ends; no deletion, upload or restart      *)
(* sends it back, and when the process dies every request ends with it.    *)
THEOREM RequestsGoForward ==
    Spec =>
        [][\A p \in Reqs : req[p] # Idle /\ req'[p] # req[p] =>
             \/ req'[p] = Idle
             \/ /\ <<req[p].pc, req'[p].pc>> \in Onwards
                /\ req'[p].name = req[p].name]_vars
<1> DEFINE Forward(p) ==
             req[p] # Idle /\ req'[p] # req[p] =>
               \/ req'[p] = Idle
               \/ /\ <<req[p].pc, req'[p].pc>> \in Onwards
                  /\ req'[p].name = req[p].name
<1>1. ASSUME TypeOK, [Next]_vars, NEW p \in Reqs PROVE Forward(p)
  <2> USE <1>1 DEF TypeOK
  <2>1. ASSUME NEW q \in Reqs, NEW r, Goto(q, r),
               \/ req[q] = Idle \/ r = Idle
               \/ <<req[q].pc, r.pc>> \in Onwards /\ r.name = req[q].name
        PROVE  Forward(p)
    BY <2>1 DEF Goto
  <2>2. ASSUME NEW q \in Reqs, Arrive(q) PROVE Forward(p)
    BY <2>1, <2>2
       DEF Arrive, Receive, DeleteFile, DownloadFile, StreamFile, StreamVideo
  <2>3. ASSUME NEW q \in Reqs, Access(q) PROVE Forward(p)
    <3>1. CASE Exists(req[q].name)
      <4>1. req[q] \in [pc : {"access"}, name : Names]
        BY <2>3, RequestShape DEF Access
      <4>2. Goto(q, [req[q] EXCEPT !.pc = "unlink"])
        BY <2>3, <3>1 DEF Access
      <4> QED BY <2>1, <4>1, <4>2 DEF Onwards
    <3>2. CASE ~Exists(req[q].name)
      BY <2>1, <2>3, <3>2 DEF Access
    <3> QED BY <3>1, <3>2
  <2>4. ASSUME NEW q \in Reqs, Stat(q) PROVE Forward(p)
    BY <2>1, <2>4 DEF Stat, Onwards
  <2>5. ASSUME NEW q \in Reqs, Open(q) PROVE Forward(p)
    <3>1. Goto(q, [req[q] EXCEPT !.pc = "pipe"]) /\ req[q].pc = "open"
      BY <2>5 DEF Open
    <3>2. req[q] \in [pc : {"open", "pipe"}, name : Names, start : Int,
                      stop : Int, length : Int, size : 0..MaxSize]
      BY <3>1, RequestShape
    <3> QED BY <2>1, <3>1, <3>2 DEF Onwards
  <2>6. ASSUME NEW q \in Reqs,
               \/ Upload(q) \/ ReceiveFails(q) \/ Unlink(q)
               \/ UnlinkRejects(q) \/ SendFile(q) \/ StatThrows(q)
               \/ PipeEnds(q) \/ PipeAbandoned(q)
        PROVE  Forward(p)
    BY <2>1, <2>6
       DEF Upload, ReceiveFails, Unlink, UnlinkRejects, SendFile, StatThrows,
           PipeEnds, PipeAbandoned
  <2>7. ASSUME NEW q \in Reqs, OpenFails(q) \/ ReadFails(q) PROVE Forward(p)
    BY <2>7 DEF OpenFails, ReadFails, Die
  <2>8. CASE Restart \/ UNCHANGED vars
    BY <2>8 DEF Restart, vars
  <2> QED
    BY <2>2, <2>3, <2>4, <2>5, <2>6, <2>7, <2>8 DEF Next, Serve
<1>2. TypeOK /\ [Next]_vars => [\A p \in Reqs : Forward(p)]_vars
  BY <1>1
<1> QED BY <1>2, TypeCorrect, PTL DEF Spec
=============================================================================
