------------------------------- MODULE Files -------------------------------
(***************************************************************************)
(* The upload directory of one instance: UploadController with             *)
(* UploadService and LocalStorageService, and the two file routes of       *)
(* StreamingController.  The file system works in parallel with the        *)
(* requests, so a deletion may take effect between any two calls of        *)
(* another request, synchronous ones included.                             *)
(*                                                                         *)
(* MulterModule is registered with dest, so the interceptors store what is *)
(* uploaded under random names of their own and leave file.buffer unset.   *)
(***************************************************************************)
EXTENDS Integers, FiniteSets

CONSTANTS
    Names,      \* file names
    Reqs,       \* slots for requests in progress
    MaxSize,    \* bound on the sizes of files
    MaxFiles,   \* files per upload: one, or the 10 of uploadMultiple
    MaxFds,     \* descriptors that the process has for read streams
    NaN,        \* what parseInt makes of text without a number
    Rest        \* the end of a range that is left open

ASSUME SizesAreNumbers == MaxSize \in Nat
ASSUME Descriptors == MaxFds \in Nat /\ IsFiniteSet(Reqs)
ASSUME SomeFiles == MaxFiles \in Nat \ {0}
ASSUME NotNumbers == NaN \notin Int /\ Rest \notin Int /\ Rest # NaN

VARIABLES
    file,       \* the state of each name in the directory
    size,       \* the size of each file, 0 where there is none
    req,        \* the requests in progress
    deletions,  \* history: answers "File deleted successfully", up to 2
    leaked,     \* descriptors of streams whose client went away
    alive       \* whether the process runs

vars == <<file, size, req, deletions, leaked, alive>>

(* What a Range header asks for; a request without one asks for All.       *)
All == [start |-> 0, last |-> Rest]

RangeHeader == [start : (0..MaxSize + 1) \cup {NaN},
          last : (0..MaxSize + 1) \cup {NaN, Rest}]

Idle == [pc |-> "idle"]

Request ==
         {Idle}
    \cup [pc : {"receive"},
          names : {S \in SUBSET Names : Cardinality(S) \in 1..MaxFiles}]
    \cup [pc : {"access", "unlink", "send"}, name : Names]
    \cup [pc : {"stat"}, name : Names, ask : RangeHeader, ranged : BOOLEAN]
    \cup [pc : {"open", "pipe"}, name : Names, start : Int, stop : Int,
          length : Int, size : 0..MaxSize]

TypeOK ==
    /\ file \in [Names -> {"absent", "incoming", "present", "gone", "directory"}]
    /\ size \in [Names -> 0..MaxSize]
    /\ req \in [Reqs -> Request]
    /\ deletions \in [Names -> 0..2]
    /\ leaked \in Nat
    /\ alive \in BOOLEAN

(* The directory may have been provisioned with files, and a name may be   *)
(* that of a directory (which stat gives some size).                       *)
Init ==
    /\ file \in [Names -> {"absent", "present", "directory"}]
    /\ size \in [Names -> 0..MaxSize]
    /\ \A n \in Names : /\ file[n] = "absent" => size[n] = 0
                       /\ file[n] = "directory" => size[n] = MaxSize
    /\ req = [p \in Reqs |-> Idle]
    /\ deletions = [n \in Names |-> 0]
    /\ leaked = 0
    /\ alive = TRUE

-----------------------------------------------------------------------------
Goto(p, r) == req' = [req EXCEPT ![p] = r]

Exists(n) == file[n] \in {"present", "directory"}

(* Variant to refute TypeOK: FilesInterceptor without its maximum.         *)
AcceptsAny(S) == S # {}

(* The number of files an interceptor accepts.                             *)
Accepts(S) == Cardinality(S) \in 1..MaxFiles

(* multer writes the files of a request under fresh names. *)
Receive(p, S) ==
    /\ alive
    /\ req[p] = Idle
    /\ Accepts(S)
    /\ \A n \in S : file[n] = "absent"
    /\ file' = [n \in Names |-> IF n \in S THEN "incoming" ELSE file[n]]
    /\ Goto(p, [pc |-> "receive", names |-> S])
    /\ UNCHANGED <<size, deletions, leaked, alive>>

(* All files are received.  upload calls writeFile with the buffer that    *)
(* multer did not set: it rejects before it touches the directory, the     *)
(* request is answered 500, and what multer wrote stays.                   *)
Upload(p) ==
    /\ alive
    /\ req[p].pc = "receive"
    /\ LET S == req[p].names
       IN  /\ file' = [n \in Names |-> IF n \in S THEN "present" ELSE file[n]]
           /\ \E s \in [S -> 0..MaxSize] :
                 size' = [n \in Names |-> IF n \in S THEN s[n] ELSE size[n]]
    /\ Goto(p, Idle)
    /\ UNCHANGED <<deletions, leaked, alive>>

(* The client goes away, or a file is too large or of the wrong type:      *)
(* multer removes what it wrote.                                           *)
ReceiveFails(p) ==
    /\ alive
    /\ req[p].pc = "receive"
    /\ file' = [n \in Names |->
                  IF n \in req[p].names THEN "gone" ELSE file[n]]
    /\ Goto(p, Idle)
    /\ UNCHANGED <<size, deletions, leaked, alive>>

-----------------------------------------------------------------------------
(* deleteFile by an administrator; a name that multer is still writing is  *)
(* known to nobody, for this request and the following ones.               *)
DeleteFile(p, n) ==
    /\ alive
    /\ req[p] = Idle
    /\ file[n] # "incoming"
    /\ Goto(p, [pc |-> "access", name |-> n])
    /\ UNCHANGED <<file, size, deletions, leaked, alive>>

(* exists: 400 when it does not. *)
Access(p) ==
    /\ alive
    /\ req[p].pc = "access"
    /\ Goto(p, IF Exists(req[p].name) THEN [req[p] EXCEPT !.pc = "unlink"]
                                      ELSE Idle)
    /\ UNCHANGED <<file, size, deletions, leaked, alive>>

Unlink(p) ==
    LET n == req[p].name
    IN  /\ alive
        /\ req[p].pc = "unlink"
        /\ file[n] = "present"
        /\ file' = [file EXCEPT ![n] = "gone"]
        /\ size' = [size EXCEPT ![n] = 0]
        /\ deletions' = [deletions EXCEPT ![n] = IF @ < 2 THEN @ + 1 ELSE @]
        /\ Goto(p, Idle)
        /\ UNCHANGED <<leaked, alive>>

(* Variant to refute DeletedOnce: rm with force ignores what is missing.   *)
UnlinkForced(p) ==
    LET n == req[p].name
    IN  /\ alive
        /\ req[p].pc = "unlink"
        /\ file[n] # "present"
        /\ deletions' = [deletions EXCEPT ![n] =
                            IF ~Exists(n) /\ @ < 2 THEN @ + 1 ELSE @]
        /\ Goto(p, Idle)
        /\ UNCHANGED <<file, size, leaked, alive>>

(* unlink rejects when another deletion was first, or the name is that of  *)
(* a directory: 500.                                                       *)
UnlinkRejects(p) ==
    /\ alive
    /\ req[p].pc = "unlink"
    /\ file[req[p].name] # "present"
    /\ Goto(p, Idle)
    /\ UNCHANGED <<file, size, deletions, leaked, alive>>

-----------------------------------------------------------------------------
(* downloadFile: 400 at once when there is no such file. *)
DownloadFile(p, n) ==
    /\ alive
    /\ req[p] = Idle
    /\ Exists(n)
    /\ Goto(p, [pc |-> "send", name |-> n])
    /\ UNCHANGED <<file, size, deletions, leaked, alive>>

(* sendFile opens the file itself, and passes an error on to the filter.   *)
SendFile(p) ==
    /\ alive
    /\ req[p].pc = "send"
    /\ Goto(p, Idle)
    /\ UNCHANGED <<file, size, deletions, leaked, alive>>

(* streamFile, or streamVideo without a Range header, up to existsSync.    *)
StreamFile(p, n) ==
    /\ alive
    /\ req[p] = Idle
    /\ Exists(n)
    /\ Goto(p, [pc |-> "stat", name |-> n, ask |-> All, ranged |-> FALSE])
    /\ UNCHANGED <<file, size, deletions, leaked, alive>>

(* streamVideo with a Range header. *)
StreamVideo(p, n, ask) ==
    /\ alive
    /\ req[p] = Idle
    /\ Exists(n)
    /\ Goto(p, [pc |-> "stat", name |-> n, ask |-> ask, ranged |-> TRUE])
    /\ UNCHANGED <<file, size, deletions, leaked, alive>>

(* The last byte asked for of a file of s bytes. *)
Stop(ask, s) == IF ask.last = Rest THEN s - 1 ELSE ask.last

(* Variant to refute LengthIsWhatIsSent: an interval that excludes its end. *)
ChunkSizeExclusive(start, stop) == stop - start

(* The Content-Length of a response. *)
ChunkSize(start, stop) == stop - start + 1

(* createReadStream throws a RangeError for any other start and end.       *)
Readable(start, stop) ==
    start # NaN /\ stop # NaN /\ 0 <= start /\ start <= stop

(* Variant to refute DiesOfItsStreams: statSync with throwIfNoEntry off,  *)
(* and a look at a name that was never there.                              *)
StatMissing(p) ==
    /\ alive
    /\ req[p] = Idle
    /\ \E n \in Names : /\ file[n] = "absent"
                        /\ Goto(p, [pc |-> "open", name |-> n, start |-> 0,
                                    stop |-> 0, length |-> 0, size |-> 0])
    /\ UNCHANGED <<file, size, deletions, leaked, alive>>

(* statSync throws when the file has gone since existsSync, createReadStream *)
(* when it cannot read the range: 500.                                     *)
StatThrows(p) ==
    LET r == req[p]
    IN  /\ alive
        /\ r.pc = "stat"
        /\ \/ ~Exists(r.name)
           \/ r.ranged /\ ~Readable(r.ask.start, Stop(r.ask, size[r.name]))
        /\ Goto(p, Idle)
        /\ UNCHANGED <<file, size, deletions, leaked, alive>>

(* statSync, the headers, and createReadStream, which opens the file later. *)
Stat(p) ==
    LET r == req[p]
        s == size[r.name]
        stop == Stop(r.ask, s)
    IN  /\ alive
        /\ r.pc = "stat"
        /\ Exists(r.name)
        /\ r.ranged => Readable(r.ask.start, stop)
        /\ Goto(p, [pc |-> "open", name |-> r.name, start |-> r.ask.start,
                    stop |-> stop, length |-> ChunkSize(r.ask.start, stop),
                    size |-> s])
        /\ UNCHANGED <<file, size, deletions, leaked, alive>>

Piping == {p \in Reqs : req[p].pc = "pipe"}

(* Every read stream holds a descriptor until it has been read to its end, *)
(* and those that were abandoned hold theirs.                              *)
NoneLeft == Cardinality(Piping) + leaked >= MaxFds

(* The read stream opens the file, or the directory, and is piped to the   *)
(* response.                                                               *)
Open(p) ==
    /\ alive
    /\ req[p].pc = "open"
    /\ Exists(req[p].name) /\ ~NoneLeft
    /\ Goto(p, [req[p] EXCEPT !.pc = "pipe"])
    /\ UNCHANGED <<file, size, deletions, leaked, alive>>

(* An exception that nobody catches ends the process with all its requests. *)
Die ==
    /\ alive' = FALSE
    /\ leaked' = 0
    /\ req' = [q \in Reqs |-> Idle]
    /\ \E s \in [Names -> 0..MaxSize] :
          size' = [n \in Names |-> IF file[n] = "incoming" THEN s[n] ELSE size[n]]
    /\ file' = [n \in Names |->
                  IF file[n] = "incoming" THEN "present" ELSE file[n]]
    /\ UNCHANGED deletions

(* Variant to refute RequestsEnd: an error listener that only logs.        *)
OpenErrorLogged(p) ==
    /\ alive
    /\ req[p].pc = "open"
    /\ ~Exists(req[p].name) \/ NoneLeft
    /\ UNCHANGED vars

(* The file has gone, or there is no descriptor for it: 'error' is emitted *)
(* when the handler has long returned.  streamFile's listener throws, and  *)
(* streamVideo has none.                                                   *)
OpenFails(p) ==
    /\ alive
    /\ req[p].pc = "open"
    /\ ~Exists(req[p].name) \/ NoneLeft
    /\ Die

(* An error while reading is an 'error' as well; reading a directory is    *)
(* one, and any read may fail.                                             *)
ReadFails(p) ==
    /\ alive
    /\ req[p].pc = "pipe"
    /\ Die

(* The file has been read to its end, which it is even when its name is    *)
(* removed meanwhile, and closes.                                          *)
PipeEnds(p) ==
    /\ alive
    /\ req[p].pc = "pipe"
    /\ file[req[p].name] # "directory"
    /\ Goto(p, Idle)
    /\ UNCHANGED <<file, size, deletions, leaked, alive>>

(* The client goes away, and the stream, which pipe does not destroy, is   *)
(* not read any more, and not closed.                                      *)
PipeAbandoned(p) ==
    /\ alive
    /\ req[p].pc = "pipe"
    /\ file[req[p].name] # "directory"
    /\ leaked' = leaked + 1
    /\ Goto(p, Idle)
    /\ UNCHANGED <<file, size, deletions, alive>>

(* The process is started again, over the same directory, or in a new      *)
(* container with an empty one: the deployment mounts no volume.           *)
Restart ==
    /\ ~alive
    /\ alive' = TRUE
    /\ \/ UNCHANGED <<file, size>>
       \/ /\ file' = [n \in Names |-> IF Exists(n) THEN "gone" ELSE file[n]]
          /\ size' = [n \in Names |-> 0]
    /\ UNCHANGED <<req, deletions, leaked>>

Serve(p) ==
    \/ Upload(p) \/ ReceiveFails(p)
    \/ Access(p) \/ Unlink(p) \/ UnlinkRejects(p)
    \/ SendFile(p)
    \/ Stat(p) \/ StatThrows(p) \/ Open(p) \/ OpenFails(p)
    \/ ReadFails(p) \/ PipeEnds(p) \/ PipeAbandoned(p)

Arrive(p) ==
    \/ \E S \in SUBSET Names : Receive(p, S)
    \/ \E n \in Names :
          \/ DeleteFile(p, n) \/ DownloadFile(p, n) \/ StreamFile(p, n)
          \/ \E ask \in RangeHeader : StreamVideo(p, n, ask)

Next ==
    \/ \E p \in Reqs : Arrive(p) \/ Serve(p)
    \/ Restart

Spec == Init /\ [][Next]_vars

(* The file system answers or rejects, and clients read or go away.        *)
FairSpec == Spec /\ \A p \in Reqs : WF_vars(Serve(p))

-----------------------------------------------------------------------------
(* Of concurrent deletions of one file one succeeds, and the file is gone  *)
(* for good.                                                               *)
DeletedOnce ==
    \A n \in Names : deletions[n] # 0 => deletions[n] = 1 /\ file[n] = "gone"

(* The bytes a read stream delivers, from a file as large as it was. *)
Delivered(r) == {i \in r.start..r.stop : i < r.size}

(* Content-Length announces what is sent, unless the client asked for      *)
(* bytes past the end of the file; streamVideo does not cut those off, and *)
(* the response is then too short.  (Of a directory nothing is sent.)      *)
LengthIsWhatIsSent ==
    \A p \in Reqs :
        req[p].pc \in {"open", "pipe"} /\ file[req[p].name] # "directory" =>
            \/ req[p].length = Cardinality(Delivered(req[p]))
            \/ req[p].stop >= req[p].size

(* What makes a read stream emit 'error': the removal of its file between  *)
(* the look at it and the opening; descriptors that have run out, for which *)
(* streams abandoned earlier must hold those that the requests in progress *)
(* do not; or a read, once the stream is open.                             *)
StreamError(p) ==
    \/ req[p].pc = "open" /\ file[req[p].name] = "gone"
    \/ req[p].pc = "open" /\ leaked + Cardinality(Reqs \ {p}) >= MaxFds
    \/ req[p].pc = "pipe"

(* A request on a name that never was a file, or is not yet one, and a     *)
(* range that cannot be read, do not take the process down: only the       *)
(* errors of a stream do.                                                  *)
DiesOfItsStreams == [][alive /\ ~alive' => \E p \in Reqs : StreamError(p)]_vars

(* Every request on a file ends, whatever is removed under it. *)
RequestsEnd == \A p \in Reqs : req[p] # Idle ~> req[p] = Idle
=============================================================================
