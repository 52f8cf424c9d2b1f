------------------------------ MODULE Pipeline ------------------------------
(***************************************************************************)
(* The data flow of a vehicle: main() constructs the parts, and then       *)
(* Vehicle::update_parts hands the data of each topic from part to part    *)
(* through Memory, while the threads of the threaded parts call update().  *)
(*                                                                         *)
(* Parts are 1..N in the order of m_parts.  What a shared_ptr points to is *)
(* Null; Blank, the Image a reader's constructor makes; Message, the output*)
(* of a publisher; or c, the Image that is the output of camera c from its *)
(* construction on.  Nobody writes to a Blank or a Message, and only the   *)
(* part itself owns its Blank.  A camera never makes a new Image: it       *)
(* replaces the frame() of that one, which its readers share.  Of a frame  *)
(* we keep which picture it holds, 0 for none.                             *)
(*                                                                         *)
(* The parts, their topics, which of them are threaded, the directory of   *)
(* the pictures and the model file are conf, one of Configs.  The methods  *)
(* of Memory are atomic: module LockedMap shows that.                      *)
(***************************************************************************)
EXTENDS Integers, Sequences

CONSTANTS N,        \* the number of parts
          Topics,
          Configs,  \* what main() may be compiled to and find
          Scenes,   \* bound: pictures a web camera can tell apart
          MaxFiles  \* bound: entries of the directory

Part    == 1..N
Null    == 0
Blank   == N + 1
Message == N + 2
Ref     == 0..(N + 2)

Kinds == {"list_camera", "web_camera", "line_follower", "consumer", "pilot",
          "publisher"}

(***************************************************************************)
(* dir: the value of DK_TUB_IMAGE_PATH is set, the path exists, and the    *)
(* entries in the order of the iteration (a name that is no number before  *)
(* its "_" has token -1).  model: which steps of loading it succeed,       *)
(* whether its input tensor is of floats.                                  *)
(***************************************************************************)
Entry == [jpg : BOOLEAN, token : Int, readable : BOOLEAN]
Config ==
    [kind : [Part -> Kinds], in : [Part -> Topics], out : [Part -> Topics],
     threaded : SUBSET Part,
     dir : [set : BOOLEAN, exists : BOOLEAN, entries : Seq(Entry)],
     model : [file : BOOLEAN, built : BOOLEAN, allocated : BOOLEAN,
              float : BOOLEAN]]

ASSUME PipelineAssumption ==
    /\ N \in Nat \ {0}
    /\ \A cf \in Configs : cf \in Config
    /\ Scenes \in Nat \ {0}
    /\ MaxFiles \in Nat
    /\ \A cf \in Configs : Len(cf.dir.entries) <= MaxFiles

VARIABLES conf,
          m_image_filenames,  \* of the list camera, sorted
          m_data,             \* topic -> what its shared_ptr points to
          at, part, input,    \* where main() is, its part, its local input
          m_input,            \* of each part
          frame,              \* frame[c]: the picture in the output of c
          m_frame_i,          \* of each list camera
          m_frame,            \* of each web camera: the picture captured last
          shares,             \* shares[c]: m_frame and the output of c have
                              \* the same pixel buffer
          step, held,         \* where update() of p is, with which Image
          seen,               \* the picture p has worked on last
          ended               \* how the process ended, or "no"

camVars  == <<frame, m_frame_i, m_frame, shares>>
mainVars == <<at, part, input, m_data>>
vars == <<conf, m_image_filenames, mainVars, m_input, camVars, step, held,
          seen, ended>>

ListCamera(p) == conf.kind[p] = "list_camera"
WebCamera(p)  == conf.kind[p] = "web_camera"
Camera(p)     == ListCamera(p) \/ WebCamera(p)
Publisher(p)  == conf.kind[p] = "publisher"
Reader(p)     == conf.kind[p] \in {"line_follower", "consumer", "pilot"}
Pilot(p)      == conf.kind[p] = "pilot"
Threaded(p)   == p \in conf.threaded

Absent == N + 3     \* no entry in the map

Endings == {"no", "exit(1)", "exception", "null", "freed", "empty", "torn",
            "tensor"}

(***************************************************************************)
(* Type correctness: in particular, topics hold no other pointers than     *)
(* outputs of parts.                                                       *)
(***************************************************************************)
TypeOK ==
    /\ conf \in Configs
    /\ m_image_filenames \in Seq(Entry)
    /\ m_data \in [Topics -> Ref \cup {Absent}]
    /\ at \in {"getenv", "construct", "get", "run", "update", "put"}
    /\ part \in Part
    /\ input \in Ref
    /\ m_input \in [Part -> Ref]
    /\ frame \in [Part -> Nat]
    /\ m_frame_i \in [Part -> Nat]
    /\ m_frame \in [Part -> 0..Scenes]
    /\ shares \in [Part -> BOOLEAN]
    /\ step \in [Part -> {"idle", "check", "use", "capture", "assign"}]
    /\ held \in [Part -> Ref]
    /\ seen \in [Part -> Nat]
    /\ ended \in Endings

Init ==
    /\ conf \in Configs
    /\ m_image_filenames = <<>>
    /\ m_data = [t \in Topics |-> Absent]
    /\ at = "getenv" /\ part = 1 /\ input = Null
    /\ m_input = [p \in Part |-> Null]
    /\ frame = [p \in Part |-> 0]
    /\ m_frame_i = [p \in Part |-> 0]
    /\ m_frame = [p \in Part |-> 0]
    /\ shares = [p \in Part |-> FALSE]
    /\ step = [p \in Part |-> "idle"]
    /\ held = [p \in Part |-> Null]
    /\ seen = [p \in Part |-> 0]
    /\ ended = "no"

End(how) ==
    /\ ended' = how
    /\ UNCHANGED <<conf, m_image_filenames, mainVars, m_input, camVars, step,
                   held, seen>>

-----------------------------------------------------------------------------
(***************************************************************************)
(* main(): the environment variable, then the constructors.                *)
(***************************************************************************)
get_env_var ==
    /\ ended = "no" /\ at = "getenv"
    /\ \/ /\ conf.dir.set
          /\ at' = "construct"
          /\ UNCHANGED <<conf, m_image_filenames, part, input, m_data,
                         m_input, camVars, step, held, seen, ended>>
       \/ /\ ~conf.dir.set
          /\ End("exit(1)")

\* The entries of the directory with the extension, by their positions.
jpgs == {i \in DOMAIN conf.dir.entries : conf.dir.entries[i].jpg}

Token(i) == conf.dir.entries[i].token

\* order lists every picture once.
Lists(order) ==
    /\ {order[i] : i \in DOMAIN order} = jpgs
    /\ \A i, j \in DOMAIN order : i # j => order[i] # order[j]

\* Mutant: the order of the directory iteration.
InDirectoryOrder(order) ==
    Lists(order) /\ \A i, j \in DOMAIN order : i < j => order[i] < order[j]

\* std::sort by token; it may leave files with equal tokens in any order.
IsSorted(order) ==
    /\ Lists(order)
    /\ \A i, j \in DOMAIN order : i < j => Token(order[i]) <= Token(order[j])

\* std::stoi throws for a name without a number, if sort compares at all.
Sortable == (\E i, j \in jpgs : i # j) => \A i \in jpgs : Token(i) >= 0

\* ImageListCamera: fs::canonical throws when the path does not exist.
list_camera_fails == ~conf.dir.exists \/ ~Sortable

\* TfLiteInterpreter::load, called by the constructor of KerasPilot.
load_fails ==
    ~(conf.model.file /\ conf.model.built /\ conf.model.allocated)

construct ==
    LET p == part IN
    /\ ended = "no" /\ at = "construct"
    /\ \/ /\ ListCamera(p) /\ list_camera_fails
          /\ End("exception")
       \/ /\ Pilot(p) /\ load_fails
          /\ End("exit(1)")
       \/ /\ ListCamera(p) => ~list_camera_fails
          /\ Pilot(p) => ~load_fails
          /\ IF ListCamera(p)
             THEN \E k \in 0..Len(conf.dir.entries) :
                  \E order \in [1..k -> jpgs] :
                    /\ IsSorted(order)
                    /\ m_image_filenames' =
                        [i \in 1..k |-> conf.dir.entries[order[i]]]
             ELSE UNCHANGED m_image_filenames
          /\ m_input' = [m_input EXCEPT ![p] = Blank]
          /\ part' = IF p = N THEN 1 ELSE p + 1
          /\ at' = IF p = N THEN "get" ELSE "construct"
          /\ UNCHANGED <<conf, input, m_data, camVars, step, held, seen,
                         ended>>

-----------------------------------------------------------------------------
(***************************************************************************)
(* Vehicle::update_parts.                                                  *)
(***************************************************************************)

\* Mutant: the exception of at() is not caught.
get_unchecked(topic) == m_data[topic]

\* Memory::get: nullptr when the map has no such key.
get(topic) == IF m_data[topic] = Absent THEN Null ELSE m_data[topic]

\* Mutant: a camera without a picture returns an Image of its own.
m_output_blank(p) ==
    IF Camera(p) /\ frame[p] # 0 THEN p
    ELSE IF Camera(p) THEN Blank ELSE IF Publisher(p) THEN Message ELSE Null

\* A camera and a publisher have an output from their construction on, the
\* other parts never.
m_output(p) ==
    IF Camera(p) THEN p ELSE IF Publisher(p) THEN Message ELSE Null

get_input ==
    /\ ended = "no" /\ at = "get"
    /\ input' = get(conf.in[part])
    /\ at' = "run"
    /\ UNCHANGED <<conf, m_image_filenames, part, m_data, m_input, camVars,
                   step, held, seen, ended>>

\* Mutant: only cameras call update().
run_cached ==
    /\ ended = "no" /\ at = "run"
    /\ m_input' = IF Camera(part) THEN m_input
                  ELSE [m_input EXCEPT ![part] = input]
    /\ at' = IF Threaded(part) \/ ~Camera(part) THEN "put" ELSE "update"
    /\ UNCHANGED <<conf, m_image_filenames, part, input, m_data, camVars, step,
                   held, seen, ended>>

\* Part::run: a camera ignores its input; an unthreaded part now calls
\* update(), which for a publisher is empty.
run ==
    /\ ended = "no" /\ at = "run"
    /\ m_input' = IF Camera(part) THEN m_input
                  ELSE [m_input EXCEPT ![part] = input]
    /\ at' = IF Threaded(part) \/ Publisher(part) THEN "put" ELSE "update"
    /\ UNCHANGED <<conf, m_image_filenames, part, input, m_data, camVars, step,
                   held, seen, ended>>

\* Mutant: the input topic is written.
put_in_topic ==
    /\ ended = "no" /\ at = "put"
    /\ m_data' = [m_data EXCEPT ![conf.in[part]] = m_output(part)]
    /\ part' = IF part = N THEN 1 ELSE part + 1
    /\ at' = "get"
    /\ input' = Null
    /\ UNCHANGED <<conf, m_image_filenames, m_input, camVars, step, held,
                   seen, ended>>

\* Memory::put, also of nullptr and also for the topic "".
put ==
    /\ ended = "no" /\ at = "put"
    /\ m_data' = [m_data EXCEPT ![conf.out[part]] = m_output(part)]
    /\ part' = IF part = N THEN 1 ELSE part + 1
    /\ at' = "get"
    /\ input' = Null
    /\ UNCHANGED <<conf, m_image_filenames, m_input, camVars, step, held,
                   seen, ended>>

-----------------------------------------------------------------------------
(***************************************************************************)
(* update(), on the part's own thread or in run().                         *)
(***************************************************************************)
Looping == at \in {"get", "run", "update", "put"}

\* update() of p is at this step: on its thread, or in run().
At(p, where) ==
    /\ ended = "no"
    /\ step[p] = where
    /\ IF Threaded(p) THEN Looping ELSE at = "update" /\ part = p

Goto(p, from, to) ==
    /\ At(p, from)
    /\ step' = [step EXCEPT ![p] = to]
    /\ at' = IF to = "idle" /\ ~Threaded(p) THEN "put" ELSE at
    /\ UNCHANGED <<conf, m_image_filenames, part, input, m_data, m_input>>

\* Mutant: the index is not wrapped where the list ends.
next_file_no_wrap(p) ==
    IF m_frame_i[p] + 1 = Len(m_image_filenames) THEN m_frame_i[p]
    ELSE m_frame_i[p] + 1

next_file(p) == (m_frame_i[p] + 1) % Len(m_image_filenames)

\* ImageListCamera::update: without files it does nothing.
list_camera_read(p) ==
    /\ ListCamera(p)
    /\ \/ /\ m_image_filenames = <<>>
          /\ Goto(p, "idle", "idle")
          /\ UNCHANGED m_frame_i
       \/ /\ m_image_filenames # <<>>
          /\ Goto(p, "idle", "assign")
          /\ m_frame_i' = [m_frame_i EXCEPT ![p] = next_file(p)]
    /\ UNCHANGED <<frame, m_frame, shares, held, seen, ended>>

\* cv::imread returns an empty cv::Mat for a file it cannot read.
imread(i) == IF m_image_filenames[i + 1].readable THEN i + 1 ELSE 0

list_camera_assign(p) ==
    /\ ListCamera(p)
    /\ Goto(p, "assign", "idle")
    /\ frame' = [frame EXCEPT ![p] = imread(m_frame_i[p])]
    /\ UNCHANGED <<m_frame_i, m_frame, shares, held, seen, ended>>

\* WebCamera::update: m_cap >> m_frame begins ...
web_camera_capture(p) ==
    /\ WebCamera(p)
    /\ Goto(p, "idle", "capture")
    /\ UNCHANGED <<camVars, held, seen, ended>>

\* Mutant: the test that the captured frame is not empty is missing.
Publishable_any(p, picture, late) == late

\* The first frame is late in any case: m_last_frame is the clock's epoch.
Publishable(p, picture, late) ==
    picture # 0 /\ (late \/ frame[p] = 0)

\* ... and ends: VideoCapture writes into the buffer m_frame has, which the
\* published frame may share, or, without a picture, lets go of it.
web_camera_captured(p) ==
    \E picture \in {0, (m_frame[p] % Scenes) + 1}, late \in BOOLEAN :
        /\ WebCamera(p)
        /\ Goto(p, "capture",
                IF Publishable(p, picture, late) THEN "assign" ELSE "idle")
        /\ m_frame' = [m_frame EXCEPT ![p] = picture]
        /\ frame' = IF shares[p] /\ picture # 0
                    THEN [frame EXCEPT ![p] = picture] ELSE frame
        /\ shares' = [shares EXCEPT ![p] = @ /\ picture # 0]
        /\ UNCHANGED <<m_frame_i, held, seen, ended>>

\* m_output->frame() = m_frame: the header is copied, the pixels are shared.
web_camera_assign(p) ==
    /\ WebCamera(p)
    /\ Goto(p, "assign", "idle")
    /\ frame' = [frame EXCEPT ![p] = m_frame[p]]
    /\ shares' = [shares EXCEPT ![p] = m_frame[p] # 0]
    /\ UNCHANGED <<m_frame_i, m_frame, held, seen, ended>>

\* The frame of camera c is being overwritten.
Writing(ref) ==
    /\ ref \in Part
    /\ step[ref] = "assign" \/ (step[ref] = "capture" /\ shares[ref])

Picture(ref) == IF ref \in Part THEN frame[ref] ELSE 0

\* update() of the line follower, the consumer and the pilot: the pointer
\* is followed,
reader_deref(p) ==
    /\ Reader(p)
    /\ \/ /\ m_input[p] # Null
          /\ Goto(p, "idle", "check")
          /\ held' = [held EXCEPT ![p] = m_input[p]]
          /\ UNCHANGED <<camVars, seen, ended>>
       \/ /\ At(p, "idle")
          /\ m_input[p] = Null
          /\ End("null")

\* Mutant: empty frames are not skipped.
reader_check_none(p) ==
    /\ Reader(p)
    /\ Goto(p, "check", "use")
    /\ UNCHANGED <<camVars, held, seen, ended>>

\* an empty frame is skipped (while it is overwritten the test may go either
\* way; an Image that run() has just released is gone),
reader_check(p) ==
    /\ Reader(p)
    /\ \/ /\ Goto(p, "check", "idle")
          /\ Picture(held[p]) = 0 \/ Writing(held[p])
          /\ held' = [held EXCEPT ![p] = Null]
          /\ UNCHANGED <<camVars, seen, ended>>
       \/ /\ Goto(p, "check", "use")
          /\ Picture(held[p]) # 0 \/ Writing(held[p])
          /\ UNCHANGED <<camVars, held, seen, ended>>
       \/ /\ At(p, "check")
          /\ held[p] = Blank /\ m_input[p] # Blank
          /\ End("freed")

\* and then the frame is worked on; an empty one makes OpenCV throw.
work_on(p, image, able) ==
    \/ /\ Goto(p, "use", "idle")
       /\ Picture(image) # 0
       /\ able
       /\ seen' = [seen EXCEPT ![p] = Picture(image)]
       /\ held' = [held EXCEPT ![p] = Null]
       /\ UNCHANGED <<camVars, ended>>
    \/ /\ At(p, "use")
       /\ Writing(image)
       /\ End("torn")
    \/ /\ At(p, "use")
       /\ Picture(image) = 0 /\ ~Writing(image)
       /\ End(IF image = Null THEN "null" ELSE "empty")

\* The line follower and the consumer follow m_input again.
reader_use(p) ==
    /\ Reader(p) /\ ~Pilot(p)
    /\ work_on(p, m_input[p], TRUE)

\* predict has a reference to the frame it has tested.  It copies it to the
\* address of the input tensor, null unless that is of floats.
predict(p) ==
    /\ Pilot(p)
    /\ \/ work_on(p, held[p], conf.model.float)
       \/ /\ At(p, "use")
          /\ Picture(held[p]) # 0 /\ ~conf.model.float
          /\ End("tensor")

-----------------------------------------------------------------------------
Update(p) ==
    \/ list_camera_read(p) \/ list_camera_assign(p)
    \/ web_camera_capture(p) \/ web_camera_captured(p) \/ web_camera_assign(p)
    \/ reader_deref(p) \/ reader_check(p) \/ reader_use(p) \/ predict(p)

Terminated == ended # "no" /\ UNCHANGED vars

Next ==
    \/ get_env_var \/ construct \/ get_input \/ run \/ put
    \/ \E p \in Part : Update(p)
    \/ Terminated

Spec == Init /\ [][Next]_vars

MainStep ==
    \/ get_env_var \/ construct \/ get_input \/ run \/ put
    \/ \E p \in Part : ~Threaded(p) /\ Update(p)

ThreadStep(p) == Threaded(p) /\ Update(p)

\* Each thread that can go on does.
FairSpec ==
    Spec /\ WF_vars(MainStep) /\ \A p \in Part : WF_vars(ThreadStep(p))

-----------------------------------------------------------------------------
(***************************************************************************)
(* Properties.                                                             *)
(***************************************************************************)

\* The parts that write the topic part p reads.
Producers(p) == {q \in Part : conf.out[q] = conf.in[p]}

\* p comes after a producer of its topic, and all producers have an output.
WellPlaced(p) ==
    /\ \E q \in Producers(p) : q < p
    /\ \A q \in Producers(p) : Camera(q) \/ Publisher(q)

(***************************************************************************)
(* When each reader is added after a producer of its topic, no update()    *)
(* ever follows a null pointer, threaded or not: the constructor, get, run *)
(* and put leave no moment without an input.                               *)
(***************************************************************************)
NoNullInput ==
    ended = "null" => \E p \in Part : Reader(p) /\ ~WellPlaced(p)

(***************************************************************************)
(* Frames are torn, emptied between the test and the use, or freed only    *)
(* when there is a threaded part: without threads, the guard of update()   *)
(* suffices, whatever files cannot be read and however the parts are wired.*)
(***************************************************************************)
RacesNeedThreads ==
    ended \in {"torn", "empty", "freed"} => conf.threaded # {}

(***************************************************************************)
(* Between the test for an empty frame and its use, the frame of one camera*)
(* can only become empty when a list camera meets a file it cannot read: a *)
(* web camera replaces a picture by a picture only, on its thread or not.  *)
(***************************************************************************)
EmptyNeedsBadFile ==
    ended = "empty" =>
        \E p \in Part :
            /\ Reader(p)
            /\ \/ \E q, r \in Producers(p) : q # r
               \/ /\ \E c \in Producers(p) : ListCamera(c)
                  /\ \E i \in DOMAIN m_image_filenames :
                        ~m_image_filenames[i].readable

\* Reader p has one producer, the unthreaded camera c before it.
Follows(p, c) ==
    /\ Reader(p) /\ Camera(c) /\ c < p
    /\ Producers(p) = {c}
    /\ ~Threaded(c) /\ ~Threaded(p)

\* Part p has had its turn in the current round of the loop.
HadTurn(p) == Looping /\ (part > p \/ (part = p /\ at = "put"))

(***************************************************************************)
(* A reader that has had its turn after an unthreaded list camera has      *)
(* worked on the file the camera went on to in this round, unless that     *)
(* cannot be read.  After a web camera whose output has the pixels of the  *)
(* capture of this round, because it was published or because its buffer is*)
(* still shared, it has worked on that capture; otherwise an older picture *)
(* is all there is.                                                        *)
(***************************************************************************)
ReadersAreCurrent ==
    \A p, c \in Part : Follows(p, c) /\ HadTurn(p) /\ ended = "no" =>
        /\ ListCamera(c) /\ m_image_filenames # <<>>
           /\ imread(m_frame_i[c]) # 0 => seen[p] = imread(m_frame_i[c])
        /\ WebCamera(c) /\ shares[c] => seen[p] = m_frame[c]

(***************************************************************************)
(* Once a well placed reader has an Image from its topic, its m_input, that*)
(* run() assigns again and again while update() reads it, never changes    *)
(* when the topic has one producer.                                        *)
(***************************************************************************)
InputSettles ==
    [][\A p \in Part :
         Reader(p) /\ WellPlaced(p) /\ m_input[p] \in Part
         /\ (\A q, r \in Producers(p) : q = r)
         => m_input'[p] = m_input[p]]_vars

\* The file of camera c after this step is one with the next larger number,
\* or after the largest the smallest.
GoesInOrder(c) ==
    LET token(i) == m_image_filenames[i + 1].token
        Tokens   == {token(i) : i \in 0..(Len(m_image_filenames) - 1)}
        old == token(m_frame_i[c])
        new == token(m_frame_i'[c])
    IN  \/ new >= old /\ \A k \in Tokens : ~(old < k /\ k < new)
        \/ \A k \in Tokens : new <= k /\ k <= old

(***************************************************************************)
(* A list camera goes through the pictures in the order of their numbers,  *)
(* whatever the order of the directory.                                    *)
(***************************************************************************)
NumericOrder ==
    [][\A c \in Part : m_frame_i'[c] # m_frame_i[c] => GoesInOrder(c)]_vars

(***************************************************************************)
(* Nothing is passed over: without threads, every reader works on every    *)
(* readable picture of a list camera again and again, or the process ends. *)
(***************************************************************************)
EveryPictureIsShown ==
    \A p \in Part, i \in 1..MaxFiles :
        []<>(/\ \E c \in Part : Follows(p, c) /\ ListCamera(c)
             /\ i <= Len(m_image_filenames)
             /\ m_image_filenames[i].readable
             /\ ended = "no"
             => seen[p] = i)

(***************************************************************************)
(* "if period_ms have not elapsed since the last update downstream         *)
(* consumers will consume the previous (valid) m_frame": a capture that is *)
(* not published leaves the frame consumers see as it was.                 *)
(***************************************************************************)
ThrottledFramesAreHidden ==
    [][\A c \in Part : step[c] = "capture" /\ step'[c] = "idle" =>
                            frame'[c] = frame[c]]_vars

(***************************************************************************)
(* "Part ... is also a ManagedThread thus completely hiding concurrency    *)
(* semantics": parts in a proper order, threaded or not, do not end the    *)
(* process by the way they share frames.                                   *)
(***************************************************************************)
SharingIsSafe == ended \notin {"null", "torn", "empty", "freed"}
=============================================================================
