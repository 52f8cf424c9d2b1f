--------------------------- MODULE PipelineProofs ---------------------------
(***************************************************************************)
(* Proofs about Pipeline, for any number of parts, any topics, any choice  *)
(* of threads and any directory.                                           *)
(***************************************************************************)
EXTENDS Pipeline, TLAPS

(***************************************************************************)
(* The inductive invariant.                                                *)
(***************************************************************************)
\* Until the loop begins nothing has been updated.  (For the wires below:
\* the constructors leave every part with an input.)
StartInv ==
    /\ at = "getenv" => part = 1
    /\ ~Looping =>
        /\ m_data = [t \in Topics |-> Absent]
        /\ \A p \in Part : /\ step[p] = "idle" /\ ~shares[p]
                           /\ frame[p] = 0 /\ m_frame_i[p] = 0
                           /\ m_input[p] \in {Null, Blank}
                           /\ p < part => m_input[p] = Blank

\* The files are in the order of their numbers, and the index of a list
\* camera is one of theirs.
FilesInv ==
    /\ \A i, j \in 1..Len(m_image_filenames) :
        i <= j => m_image_filenames[i].token <= m_image_filenames[j].token
    /\ m_image_filenames # <<>> =>
        \A c \in Part : m_frame_i[c] < Len(m_image_filenames)

\* A topic holds the output of one that writes it, from the first turn on.
DataInv ==
    /\ \A t \in Topics : m_data[t] # Absent =>
        \E q \in Part : conf.out[q] = t /\ m_data[t] = m_output(q)
    /\ Looping => \A q \in Part : q < part => m_data[conf.out[q]] # Absent

\* The local input of update_parts is what the topic holds, and a reader's
\* m_input, once it is an Image of a camera, is one its topic may hold.
InputInv ==
    /\ at \in {"run", "update", "put"} => input = get(conf.in[part])
    /\ \A p \in Part :
        m_input[p] \in Part => /\ m_input[p] \in Producers(p)
                               /\ Camera(m_input[p])
                               /\ m_data[conf.in[p]] # Absent
    /\ Looping => \A p \in Part : WellPlaced(p) => m_input[p] # Null
    /\ at = "update" => /\ ~Threaded(part) /\ ~Publisher(part)
                        /\ Reader(part) => m_input[part] = input

\* Where update() can be: a part without a thread only in run().
StepInv ==
    \A p \in Part :
        /\ step[p] \in {"check", "use"} => Reader(p) /\ held[p] # Null
        /\ step[p] = "capture" => WebCamera(p)
        /\ step[p] = "assign" => Camera(p)
        /\ step[p] = "assign" /\ WebCamera(p) => m_frame[p] # 0
        /\ step[p] = "assign" /\ ListCamera(p) => m_image_filenames # <<>>
        /\ step[p] # "idle" /\ ~Threaded(p) => at = "update" /\ part = p
        /\ shares[p] => WebCamera(p) /\ frame[p] # 0

Single(p) == \A q, r \in Producers(p) : q = r

\* What update() of a reader holds is its m_input, unless run() has given the
\* part another one since.
HeldInv ==
    \A p \in Part : step[p] \in {"check", "use"} =>
        /\ step[p] = "use" => held[p] \in Part
        /\ held[p] \in Part => /\ held[p] \in Producers(p) /\ Camera(held[p])
                               /\ Single(p) => m_input[p] = held[p]
        /\ ~Threaded(p) => held[p] = m_input[p]

\* Between the test and the use a frame stays, or is replaced by another.
Lasting(p) ==
    /\ Single(p)
    /\ (\E c \in Producers(p) : ListCamera(c)) =>
        \A i \in DOMAIN m_image_filenames : m_image_filenames[i].readable

FrameInv ==
    \A p \in Part : step[p] = "use" =>
        /\ Lasting(p) => frame[held[p]] # 0 \/ step[held[p]] = "assign"
        /\ ~Threaded(p) /\ ~Threaded(held[p]) => frame[held[p]] # 0

\* A reader that has had its turn has worked on what its camera's output holds.
SeenInv ==
    \A p, c \in Part :
        Follows(p, c) /\ HadTurn(p) /\ ended = "no" /\ frame[c] # 0 =>
            seen[p] = frame[c]

\* A list camera that has had its turn holds the file its index points to.
TurnInv ==
    \A c \in Part :
        ListCamera(c) /\ ~Threaded(c) /\ HadTurn(c)
        /\ m_image_filenames # <<>> => frame[c] = imread(m_frame_i[c])

\* One buffer, one picture.
ShareInv == \A c \in Part : shares[c] => frame[c] = m_frame[c]

PipelineInv ==
    /\ TypeOK /\ StartInv /\ FilesInv /\ DataInv /\ InputInv /\ StepInv
    /\ HeldInv /\ FrameInv
    /\ NoNullInput /\ RacesNeedThreads /\ EmptyNeedsBadFile
    /\ SeenInv /\ TurnInv /\ ShareInv

-----------------------------------------------------------------------------
\* The constants, and what main() is compiled to.
LEMMA ConfFacts ==
    ASSUME conf \in Configs
    PROVE  /\ conf.kind \in [Part -> Kinds]
           /\ conf.in \in [Part -> Topics] /\ conf.out \in [Part -> Topics]
           /\ conf.threaded \subseteq Part
           /\ conf.dir.entries \in Seq(Entry)
<1>1. conf \in Config
    BY PipelineAssumption
<1> QED
    BY <1>1 DEF Config

\* Parts, pointers and the absent entry are different numbers.
LEMMA RefFacts ==
    /\ N \in Nat /\ N >= 1 /\ 1 \in Part
    /\ Part \subseteq Ref /\ Null \in Ref /\ Blank \in Ref /\ Absent \notin Ref
    /\ Null \notin Part /\ Blank \notin Part /\ Null # Blank
    /\ Message \in Ref /\ Message \notin Part /\ Message # Null
    /\ \A p \in Part : p \in Nat /\ 1 <= p /\ p <= N
    /\ Scenes \in Nat /\ Scenes >= 1
  BY PipelineAssumption DEF Part, Ref, Null, Blank, Message, Absent

\* A part is a camera, a reader or a publisher, and only one of them.
LEMMA KindFacts ==
    ASSUME conf \in Configs, NEW p \in Part
    PROVE  /\ Camera(p) <=> ListCamera(p) \/ WebCamera(p)
           /\ ~(ListCamera(p) /\ WebCamera(p))
           /\ ~(Camera(p) /\ Reader(p)) /\ ~(Camera(p) /\ Publisher(p))
           /\ ~(Reader(p) /\ Publisher(p))
           /\ Pilot(p) => Reader(p)
           /\ Camera(p) \/ Reader(p) \/ Publisher(p)
<1>1. conf.kind[p] \in Kinds
    BY ConfFacts
<1> QED
    BY <1>1 DEF Kinds, Camera, ListCamera, WebCamera, Reader, Publisher, Pilot

\* The outputs: only a camera's is an Image that is written to.
LEMMA OutputFacts ==
    ASSUME conf \in Configs, NEW p \in Part
    PROVE  /\ m_output(p) \in Ref /\ m_output(p) # Absent
           /\ Camera(p) => m_output(p) = p
           /\ m_output(p) \in Part => Camera(p) /\ m_output(p) = p
           /\ Camera(p) \/ Publisher(p) => m_output(p) # Null
  BY RefFacts, KindFacts DEF m_output

\* What depends on conf alone stays.
LEMMA SameConf ==
    ASSUME UNCHANGED conf
    PROVE  /\ \A p \in Part :
                /\ ListCamera(p)' <=> ListCamera(p)
                /\ WebCamera(p)' <=> WebCamera(p)
                /\ Camera(p)' <=> Camera(p)
                /\ Publisher(p)' <=> Publisher(p)
                /\ Reader(p)' <=> Reader(p)
                /\ Threaded(p)' <=> Threaded(p)
                /\ m_output(p)' = m_output(p)
                /\ Producers(p)' = Producers(p)
           /\ \A p \in Part : /\ Single(p)' <=> Single(p)
                              /\ WellPlaced(p)' <=> WellPlaced(p)
           /\ \A p, c \in Part : Follows(p, c)' <=> Follows(p, c)
<1>1. \A p \in Part : /\ ListCamera(p)' <=> ListCamera(p)
                      /\ WebCamera(p)' <=> WebCamera(p)
                      /\ Publisher(p)' <=> Publisher(p)
                      /\ Reader(p)' <=> Reader(p)
                      /\ Threaded(p)' <=> Threaded(p)
    BY DEF ListCamera, WebCamera, Publisher, Reader, Threaded
<1>2. \A p \in Part : Camera(p)' <=> Camera(p)
    BY <1>1 DEF Camera
<1>3. \A p \in Part : m_output(p)' = m_output(p)
    BY <1>1, <1>2 DEF m_output
<1>4. \A p \in Part : Producers(p)' = Producers(p)
    BY DEF Producers
<1>5. \A p \in Part : Single(p)' <=> Single(p)
    BY <1>4 DEF Single
<1>6. ASSUME NEW p \in Part PROVE WellPlaced(p)' <=> WellPlaced(p)
  <2>1. \A q \in Producers(p) : q \in Part
      BY DEF Producers
  <2> QED
      BY <1>1, <1>2, <1>4, <2>1 DEF WellPlaced
<1>7. \A p, c \in Part : Follows(p, c)' <=> Follows(p, c)
    BY <1>1, <1>2, <1>4 DEF Follows
<1> QED
    BY <1>1, <1>2, <1>3, <1>4, <1>5, <1>6, <1>7

-----------------------------------------------------------------------------
(***************************************************************************)
(* The steps of update(), pointwise.                                       *)
(***************************************************************************)
Steps == {"idle", "check", "use", "capture", "assign"}

\* A step of update() of p, in run() or on its thread, and what it leaves.
LEMMA GotoFacts ==
    ASSUME TypeOK, NEW p \in Part, NEW from, NEW to \in Steps,
           Goto(p, from, to)
    PROVE  /\ ended = "no" /\ step[p] = from /\ step'[p] = to
           /\ step' \in [Part -> Steps]
           /\ \A q \in Part \ {p} : step'[q] = step[q]
           /\ Looping /\ (~Threaded(p) => at = "update" /\ part = p)
           /\ ~Threaded(p) /\ to = "idle" => at' = "put"
           /\ Threaded(p) \/ to # "idle" => at' = at
           /\ UNCHANGED <<conf, m_image_filenames, part, input, m_data,
                          m_input>>
<1>1. /\ ended = "no" /\ step[p] = from
      /\ IF Threaded(p) THEN Looping ELSE at = "update" /\ part = p
    BY DEF Goto, At
<1>2. step' = [step EXCEPT ![p] = to] /\ step \in [Part -> Steps]
    BY DEF Goto, TypeOK, Steps
<1>3. Looping /\ (~Threaded(p) => at = "update" /\ part = p)
    BY <1>1 DEF Looping
<1>4. /\ at' = IF to = "idle" /\ ~Threaded(p) THEN "put" ELSE at
      /\ UNCHANGED <<conf, m_image_filenames, part, input, m_data, m_input>>
    BY DEF Goto
<1> QED
    BY <1>1, <1>2, <1>3, <1>4

\* Whose frame a reader works on, and how that can end the process.
LEMMA WorkCases ==
    ASSUME NEW p \in Part, reader_use(p) \/ predict(p)
    PROVE  \E image \in {m_input[p], held[p]} :
             /\ Pilot(p) => image = held[p]
             /\ ~Pilot(p) => image = m_input[p]
             /\ Reader(p)
             /\ \/ /\ Goto(p, "use", "idle") /\ Picture(image) # 0
                   /\ seen' = [seen EXCEPT ![p] = Picture(image)]
                   /\ held' = [held EXCEPT ![p] = Null]
                   /\ UNCHANGED <<camVars, ended>>
                \/ At(p, "use") /\ Writing(image) /\ End("torn")
                \/ /\ At(p, "use") /\ Picture(image) = 0 /\ ~Writing(image)
                   /\ image = Null /\ End("null")
                \/ /\ At(p, "use") /\ Picture(image) = 0 /\ ~Writing(image)
                   /\ image # Null /\ End("empty")
                \/ At(p, "use") /\ End("tensor")
<1>1. CASE reader_use(p)
    BY <1>1 DEF reader_use, work_on
<1>2. CASE predict(p)
    BY <1>2 DEF predict, work_on, Pilot, Reader
<1> QED
    BY <1>1, <1>2

\* The actions of Next one by one; those that only end the process apart.
LEMMA StepCases ==
    ASSUME [Next]_vars
    PROVE  \/ get_env_var \/ construct \/ get_input \/ run \/ put
           \/ \E p \in Part :
                \/ list_camera_read(p) \/ list_camera_assign(p)
                \/ web_camera_capture(p) \/ web_camera_captured(p)
                \/ web_camera_assign(p)
                \/ reader_deref(p) \/ reader_check(p)
                \/ reader_use(p) \/ predict(p)
           \/ UNCHANGED vars
  BY DEF Next, Update, Terminated

-----------------------------------------------------------------------------
(***************************************************************************)
(* Types.                                                                  *)
(***************************************************************************)
CamType ==
    /\ frame \in [Part -> Nat] /\ m_frame_i \in [Part -> Nat]
    /\ m_frame \in [Part -> 0..Scenes] /\ shares \in [Part -> BOOLEAN]

\* What a step of update() has to do for the types.
LEMMA GotoType ==
    ASSUME TypeOK, NEW p \in Part, NEW from, NEW to \in Steps,
           Goto(p, from, to), CamType', held' \in [Part -> Ref],
           seen' \in [Part -> Nat], UNCHANGED ended
    PROVE  TypeOK'
<1>1. /\ step' \in [Part -> {"idle", "check", "use", "capture", "assign"}]
      /\ UNCHANGED <<conf, m_image_filenames, part, input, m_data, m_input>>
    BY GotoFacts DEF Steps
<1>2. at' \in {"getenv", "construct", "get", "run", "update", "put"}
    BY GotoFacts DEF TypeOK
<1> QED
    BY <1>1, <1>2 DEF TypeOK, CamType

\* Ending the process changes no other type.
LEMMA EndType ==
    ASSUME TypeOK, NEW how \in Endings, End(how)
    PROVE  TypeOK'
<1>1. /\ UNCHANGED <<conf, m_image_filenames, at, part, input, m_data, m_input>>
      /\ UNCHANGED <<frame, m_frame_i, m_frame, shares, step, held, seen>>
      /\ ended' = how
    BY DEF End, mainVars, camVars
<1> QED
    BY <1>1 DEF TypeOK

\* A picture is a number.
LEMMA PictureType ==
    ASSUME TypeOK, NEW ref
    PROVE  Picture(ref) \in Nat
  BY DEF Picture, TypeOK

\* The sorted list is a sequence of entries, in the order of their numbers.
LEMMA SortedFiles ==
    ASSUME conf \in Configs, NEW k \in 0..Len(conf.dir.entries),
           NEW order \in [1..k -> jpgs], IsSorted(order), NEW s,
           s = [i \in 1..k |-> conf.dir.entries[order[i]]]
    PROVE  /\ s \in Seq(Entry) /\ Len(s) = k
           /\ \A i, j \in 1..Len(s) : i <= j => s[i].token <= s[j].token
<1>1. k \in Nat
    BY ConfFacts
<1>2. \A i \in 1..k : /\ order[i] \in DOMAIN conf.dir.entries
                      /\ conf.dir.entries[order[i]] \in Entry
    BY ConfFacts DEF jpgs
<1>3. s \in Seq(Entry) /\ Len(s) = k
    BY <1>1, <1>2
<1>4. ASSUME NEW i \in 1..k, NEW j \in 1..k, i <= j
      PROVE  s[i].token <= s[j].token
  <2>1. s[i].token = Token(order[i]) /\ s[j].token = Token(order[j])
      BY DEF Token
  <2>2. CASE i < j
      BY <2>1, <2>2 DEF IsSorted
  <2>3. CASE i = j
    <3>1. s[i].token \in Int
        BY <1>2 DEF Entry
    <3> QED
        BY <2>3, <3>1
  <2> QED
      BY <1>1, <1>4, <2>2, <2>3
<1> QED
    BY <1>3, <1>4

\* Every step keeps the types.
LEMMA TypeStep ==
    ASSUME TypeOK, [Next]_vars
    PROVE  TypeOK'
<1> USE RefFacts
<1>0. CamType /\ held \in [Part -> Ref] /\ seen \in [Part -> Nat]
    BY DEF TypeOK, CamType
<1>1. CASE get_env_var
  <2>1. CASE End("exit(1)")
      BY <2>1, EndType DEF Endings
  <2>2. CASE ~End("exit(1)")
      BY <1>1, <2>2 DEF get_env_var, TypeOK, camVars
  <2> QED
      BY <2>1, <2>2
<1>2. CASE construct
  <2>1. CASE End("exit(1)") \/ End("exception")
      BY <2>1, EndType DEF Endings
  <2>2. CASE ~(End("exit(1)") \/ End("exception"))
    <3>1. /\ m_input' = [m_input EXCEPT ![part] = Blank]
          /\ part' = IF part = N THEN 1 ELSE part + 1
          /\ at' = IF part = N THEN "get" ELSE "construct"
          /\ UNCHANGED <<conf, input, m_data, camVars, step, held, seen, ended>>
        BY <1>2, <2>2 DEF construct
    <3>2. m_image_filenames' \in Seq(Entry)
      <4>1. CASE UNCHANGED m_image_filenames
          BY <4>1 DEF TypeOK
      <4>2. CASE ~UNCHANGED m_image_filenames
        <5>1. PICK k \in 0..Len(conf.dir.entries) :
              \E order \in [1..k -> jpgs] :
                /\ IsSorted(order)
                /\ m_image_filenames' =
                    [i \in 1..k |-> conf.dir.entries[order[i]]]
            BY <1>2, <2>2, <4>2 DEF construct
        <5> QED
            BY <5>1, SortedFiles DEF TypeOK
      <4> QED
          BY <4>1, <4>2
    <3>3. part' \in Part
        BY <3>1 DEF TypeOK, Part
    <3> QED
        BY <3>1, <3>2, <3>3 DEF TypeOK, camVars
  <2> QED
      BY <2>1, <2>2
<1>3. CASE get_input
  <2>1. get(conf.in[part]) \in Ref
      BY ConfFacts DEF TypeOK, get
  <2> QED
      BY <1>3, <2>1 DEF get_input, TypeOK, camVars
<1>4. CASE run
    BY <1>4 DEF run, TypeOK, camVars
<1>5. CASE put
  <2>1. m_output(part) \in Ref
      BY OutputFacts DEF TypeOK
  <2>2. part' \in Part
      BY <1>5 DEF put, TypeOK, Part
  <2>3. m_data' \in [Topics -> Ref \cup {Absent}]
      BY <1>5, <2>1 DEF put, TypeOK
  <2> QED
      BY <1>5, <2>2, <2>3 DEF put, TypeOK, camVars
<1>6. ASSUME NEW p \in Part, list_camera_read(p) PROVE TypeOK'
  <2>1. CASE Goto(p, "idle", "idle") /\ UNCHANGED m_frame_i
    <3>1. CamType' /\ UNCHANGED <<held, seen, ended>>
        BY <1>0, <1>6, <2>1 DEF list_camera_read, CamType
    <3> QED
        BY <1>0, <2>1, <3>1, GotoType DEF Steps
  <2>2. CASE /\ m_image_filenames # <<>> /\ Goto(p, "idle", "assign")
             /\ m_frame_i' = [m_frame_i EXCEPT ![p] = next_file(p)]
    <3>1. Len(m_image_filenames) \in Nat /\ Len(m_image_filenames) > 0
        BY <2>2 DEF TypeOK
    <3>2. m_frame_i[p] \in Nat
        BY <1>0 DEF CamType
    <3>3. next_file(p) \in Nat
        BY <3>1, <3>2 DEF next_file
    <3>4. CamType' /\ UNCHANGED <<held, seen, ended>>
        BY <1>0, <1>6, <2>2, <3>3 DEF list_camera_read, CamType
    <3> QED
        BY <1>0, <2>2, <3>4, GotoType DEF Steps
  <2> QED
      BY <1>6, <2>1, <2>2 DEF list_camera_read
<1>7. ASSUME NEW p \in Part, list_camera_assign(p) PROVE TypeOK'
  <2>1. imread(m_frame_i[p]) \in Nat
      BY <1>0 DEF imread, CamType
  <2>2. CamType' /\ UNCHANGED <<held, seen, ended>>
      BY <1>0, <1>7, <2>1 DEF list_camera_assign, CamType
  <2>3. Goto(p, "assign", "idle")
      BY <1>7 DEF list_camera_assign
  <2> QED
      BY <1>0, <2>2, <2>3, GotoType DEF Steps
<1>8. ASSUME NEW p \in Part, web_camera_capture(p) PROVE TypeOK'
  <2>1. Goto(p, "idle", "capture") /\ CamType' /\ UNCHANGED <<held, seen, ended>>
      BY <1>0, <1>8 DEF web_camera_capture, CamType, camVars
  <2> QED
      BY <1>0, <2>1, GotoType DEF Steps
<1>9. ASSUME NEW p \in Part, web_camera_captured(p) PROVE TypeOK'
  <2>1. PICK picture \in {0, (m_frame[p] % Scenes) + 1}, late \in BOOLEAN :
          /\ Goto(p, "capture",
                  IF Publishable(p, picture, late) THEN "assign" ELSE "idle")
          /\ m_frame' = [m_frame EXCEPT ![p] = picture]
          /\ frame' = IF shares[p] /\ picture # 0
                      THEN [frame EXCEPT ![p] = picture] ELSE frame
          /\ shares' = [shares EXCEPT ![p] = @ /\ picture # 0]
          /\ UNCHANGED <<m_frame_i, held, seen, ended>>
      BY <1>9 DEF web_camera_captured
  <2>2. picture \in 0..Scenes
    <3>1. m_frame[p] \in Nat
        BY <1>0 DEF CamType
    <3>2. m_frame[p] % Scenes \in 0..(Scenes - 1)
        BY <3>1
    <3> QED
        BY <3>2
  <2>3. shares' \in [Part -> BOOLEAN]
      BY <1>0, <2>1 DEF CamType
  <2>4. frame' \in [Part -> Nat] /\ m_frame' \in [Part -> 0..Scenes]
      BY <1>0, <2>1, <2>2 DEF CamType
  <2>5. CamType' /\ UNCHANGED <<held, seen, ended>>
      BY <1>0, <2>1, <2>3, <2>4 DEF CamType
  <2> QED
      BY <1>0, <2>1, <2>5, GotoType DEF Steps
<1>10. ASSUME NEW p \in Part, web_camera_assign(p) PROVE TypeOK'
  <2>1. m_frame[p] \in Nat
      BY <1>0 DEF CamType
  <2>2. CamType' /\ UNCHANGED <<held, seen, ended>>
      BY <1>0, <1>10, <2>1 DEF web_camera_assign, CamType
  <2>3. Goto(p, "assign", "idle")
      BY <1>10 DEF web_camera_assign
  <2> QED
      BY <1>0, <2>2, <2>3, GotoType DEF Steps
<1>11. ASSUME NEW p \in Part, reader_deref(p) PROVE TypeOK'
  <2>1. CASE End("null")
      BY <2>1, EndType DEF Endings
  <2>2. CASE ~End("null")
    <3>1. /\ Goto(p, "idle", "check") /\ UNCHANGED <<camVars, seen, ended>>
          /\ held' = [held EXCEPT ![p] = m_input[p]]
        BY <1>11, <2>2 DEF reader_deref
    <3>2. m_input[p] \in Ref
        BY DEF TypeOK
    <3>3. CamType' /\ held' \in [Part -> Ref]
        BY <1>0, <3>1, <3>2 DEF CamType, camVars
    <3> QED
        BY <1>0, <3>1, <3>3, GotoType DEF Steps
  <2> QED
      BY <2>1, <2>2
<1>12. ASSUME NEW p \in Part, reader_check(p) PROVE TypeOK'
  <2>1. CASE End("freed")
      BY <2>1, EndType DEF Endings
  <2>2. CASE ~End("freed")
    <3>1. /\ Goto(p, "check", "idle") \/ Goto(p, "check", "use")
          /\ UNCHANGED <<camVars, seen, ended>>
          /\ UNCHANGED held \/ held' = [held EXCEPT ![p] = Null]
        BY <1>12, <2>2 DEF reader_check
    <3>2. CamType' /\ held' \in [Part -> Ref]
        BY <1>0, <3>1 DEF CamType, camVars
    <3> QED
        BY <1>0, <3>1, <3>2, GotoType DEF Steps
  <2> QED
      BY <2>1, <2>2
<1>13. ASSUME NEW p \in Part, reader_use(p) \/ predict(p) PROVE TypeOK'
  <2>1. CASE End("torn") \/ End("null") \/ End("empty") \/ End("tensor")
      BY <2>1, EndType DEF Endings
  <2>2. CASE ~(End("torn") \/ End("null") \/ End("empty") \/ End("tensor"))
    <3>1. PICK image : /\ Goto(p, "use", "idle")
                       /\ seen' = [seen EXCEPT ![p] = Picture(image)]
                       /\ held' = [held EXCEPT ![p] = Null]
                       /\ UNCHANGED <<camVars, ended>>
        BY <1>13, <2>2, WorkCases
    <3>2. CamType' /\ held' \in [Part -> Ref] /\ seen' \in [Part -> Nat]
        BY <1>0, <3>1, PictureType DEF CamType, camVars
    <3> QED
        BY <3>1, <3>2, GotoType DEF Steps
  <2> QED
      BY <2>1, <2>2
<1>14. CASE UNCHANGED vars
    BY <1>14 DEF vars, mainVars, camVars, TypeOK
<1> QED
    BY <1>1, <1>2, <1>3, <1>4, <1>5, <1>6, <1>7, <1>8, <1>9, <1>10, <1>11,
       <1>12, <1>13, <1>14, StepCases

-----------------------------------------------------------------------------
(***************************************************************************)
(* main() and Memory.                                                      *)
(***************************************************************************)
\* What ends the process changes nothing else.
LEMMA EndFacts ==
    ASSUME NEW how, End(how)
    PROVE  /\ UNCHANGED <<conf, m_image_filenames, at, part, input, m_data,
                          m_input, frame, m_frame_i, m_frame, shares, step,
                          held, seen>>
           /\ ended' = how
  BY DEF End, mainVars, camVars

\* update() leaves alone what belongs to main().
LEMMA UpdateMain ==
    ASSUME TypeOK, NEW p \in Part, Update(p)
    PROVE  /\ UNCHANGED <<conf, m_image_filenames, part, input, m_data, m_input>>
           /\ at' = at \/ (at = "update" /\ at' = "put" /\ part = p)
           /\ ended = "no" /\ Looping /\ Looping'
<1>1. ASSUME NEW from, NEW to \in Steps, Goto(p, from, to)
      PROVE  /\ UNCHANGED <<conf, m_image_filenames, part, input, m_data, m_input>>
             /\ at' = at \/ (at = "update" /\ at' = "put" /\ part = p)
             /\ ended = "no" /\ Looping
    BY <1>1, GotoFacts
<1>2. ASSUME NEW where, NEW how, At(p, where), End(how)
      PROVE  /\ UNCHANGED <<conf, m_image_filenames, part, input, m_data, m_input>>
             /\ at' = at /\ ended = "no" /\ Looping
    BY <1>2, EndFacts DEF At, Looping
<1>3. \/ \E from : \E to \in Steps : Goto(p, from, to)
      \/ \E where : \E how : At(p, where) /\ End(how)
  <2>1. CASE list_camera_read(p) \/ list_camera_assign(p)
             \/ web_camera_capture(p) \/ web_camera_assign(p)
      BY <2>1 DEF list_camera_read, list_camera_assign, web_camera_capture,
                  web_camera_assign, Steps
  <2>2. CASE web_camera_captured(p)
      BY <2>2 DEF web_camera_captured, Steps
  <2>3. CASE reader_deref(p) \/ reader_check(p)
      BY <2>3 DEF reader_deref, reader_check, Steps
  <2>4. CASE reader_use(p) \/ predict(p)
      BY <2>4, WorkCases DEF Steps
  <2> QED
      BY <2>1, <2>2, <2>3, <2>4 DEF Update
<1>4. /\ UNCHANGED <<conf, m_image_filenames, part, input, m_data, m_input>>
      /\ at' = at \/ (at = "update" /\ at' = "put" /\ part = p)
      /\ ended = "no" /\ Looping
    BY <1>1, <1>2, <1>3
<1> QED
    BY <1>4 DEF Looping

\* The constructor of a part, when it does not end the process.
LEMMA ConstructFacts ==
    ASSUME TypeOK, construct
    PROVE  \/ \E how : End(how)
           \/ /\ at = "construct"
              /\ m_input'[part] = Blank
              /\ \A p \in Part : p # part => m_input'[p] = m_input[p]
              /\ \/ part = N /\ at' = "get" /\ part' = 1
                 \/ part # N /\ at' = "construct" /\ part' = part + 1
              /\ UNCHANGED <<conf, input, m_data, frame, m_frame_i, m_frame,
                             shares, step, held, seen, ended>>
  BY DEF construct, TypeOK, camVars

\* The steps of Next by who takes them.
LEMMA StepActors ==
    ASSUME TypeOK, [Next]_vars
    PROVE  \/ get_env_var /\ ~\E how : End(how)
           \/ construct /\ ~\E how : End(how)
           \/ get_input \/ run \/ put
           \/ \E p \in Part : Update(p)
           \/ UNCHANGED <<conf, m_image_filenames, at, part, input, m_data,
                          m_input, frame, m_frame_i, m_frame, shares, step,
                          held, seen>>
  BY EndFacts DEF Next, Terminated, vars, mainVars, camVars

\* Every step keeps that nothing is updated before the loop begins.
LEMMA StartStep ==
    ASSUME TypeOK, StartInv, [Next]_vars
    PROVE  StartInv'
<1> USE RefFacts
<1>1. CASE get_env_var /\ ~\E how : End(how)
  <2>1. /\ at = "getenv" /\ at' = "construct"
        /\ UNCHANGED <<part, m_data, m_input, frame, m_frame_i, shares, step>>
      BY <1>1 DEF get_env_var, camVars
  <2> QED
      BY <2>1 DEF StartInv, Looping
<1>2. CASE construct /\ ~\E how : End(how)
  <2>1. /\ at = "construct"
        /\ m_input'[part] = Blank
        /\ \A p \in Part : p # part => m_input'[p] = m_input[p]
        /\ \/ at' = "get" /\ part' = 1
           \/ at' = "construct" /\ part' = part + 1
        /\ UNCHANGED <<m_data, frame, m_frame_i, shares, step>>
      BY <1>2, ConstructFacts
  <2>2. CASE at' = "get"
      BY <2>1, <2>2 DEF StartInv, Looping
  <2>3. CASE at' = "construct" /\ part' = part + 1
    <3>1. /\ m_data = [t \in Topics |-> Absent]
          /\ \A p \in Part : /\ step[p] = "idle" /\ ~shares[p]
                             /\ frame[p] = 0 /\ m_frame_i[p] = 0
                             /\ m_input[p] \in {Null, Blank}
                             /\ p < part => m_input[p] = Blank
        BY <2>1 DEF StartInv, Looping
    <3>2. ASSUME NEW p \in Part
          PROVE  /\ m_input'[p] \in {Null, Blank}
                 /\ p < part + 1 => m_input'[p] = Blank
      <4>1. part \in Nat /\ p \in Nat
          BY DEF TypeOK
      <4>2. p < part + 1 => p < part \/ p = part
          BY <4>1
      <4>3. CASE p = part
          BY <2>1, <4>3
      <4>4. CASE p # part
          BY <2>1, <3>1, <4>2, <4>4
      <4> QED
          BY <4>3, <4>4
    <3> QED
        BY <2>1, <2>3, <3>1, <3>2 DEF StartInv
  <2> QED
      BY <2>1, <2>2, <2>3
<1>3. CASE get_input \/ run \/ put
  <2>1. Looping'
      BY <1>3 DEF get_input, run, put, Looping
  <2> QED
      BY <2>1 DEF StartInv, Looping
<1>4. ASSUME NEW p \in Part, Update(p) PROVE StartInv'
    BY <1>4, UpdateMain DEF StartInv, Looping
<1>5. CASE UNCHANGED <<conf, m_image_filenames, at, part, input, m_data,
                       m_input, frame, m_frame_i, m_frame, shares, step,
                       held, seen>>
    BY <1>5 DEF StartInv, Looping
<1> QED
    BY <1>1, <1>2, <1>3, <1>4, <1>5, StepActors

\* Every step keeps the files sorted and the indices among them.
LEMMA FilesStep ==
    ASSUME TypeOK, StartInv, FilesInv, [Next]_vars
    PROVE  FilesInv'
<1> USE RefFacts
<1>1. ASSUME UNCHANGED <<m_image_filenames, m_frame_i>> PROVE FilesInv'
    BY <1>1 DEF FilesInv
<1>2. CASE construct /\ ~\E how : End(how)
  <2>1. at = "construct" /\ UNCHANGED <<conf, m_frame_i>>
      BY <1>2, ConstructFacts
  <2>2. CASE UNCHANGED m_image_filenames
      BY <1>1, <2>1, <2>2
  <2>3. CASE ~UNCHANGED m_image_filenames
    <3>0. conf \in Configs
        BY DEF TypeOK
    <3>a. PICK k \in 0..Len(conf.dir.entries) :
            \E order \in [1..k -> jpgs] :
                /\ IsSorted(order)
                /\ m_image_filenames' =
                    [i \in 1..k |-> conf.dir.entries[order[i]]]
        BY <1>2, <2>3 DEF construct
    <3>1. PICK order \in [1..k -> jpgs] :
                /\ IsSorted(order)
                /\ m_image_filenames' =
                    [i \in 1..k |-> conf.dir.entries[order[i]]]
        BY <3>a
    <3>2. /\ m_image_filenames' \in Seq(Entry)
          /\ \A i, j \in 1..Len(m_image_filenames') : i <= j =>
                m_image_filenames'[i].token <= m_image_filenames'[j].token
        BY <3>0, <3>1, SortedFiles
    <3>3. \A c \in Part : m_frame_i'[c] = 0
        BY <2>1 DEF StartInv, Looping
    <3>4. m_image_filenames' # <<>> => Len(m_image_filenames') > 0
        BY <3>2
    <3> QED
        BY <3>2, <3>3, <3>4 DEF FilesInv
  <2> QED
      BY <2>2, <2>3
<1>3. CASE get_env_var \/ get_input \/ run \/ put
    BY <1>1, <1>3, EndFacts DEF get_env_var, get_input, run, put, camVars
<1>4. ASSUME NEW p \in Part, list_camera_read(p) PROVE FilesInv'
  <2>1. UNCHANGED m_image_filenames
      BY <1>4, UpdateMain DEF Update
  <2>2. CASE UNCHANGED m_frame_i
      BY <1>1, <2>1, <2>2
  <2>3. CASE /\ m_image_filenames # <<>>
             /\ m_frame_i' = [m_frame_i EXCEPT ![p] = next_file(p)]
    <3>1. Len(m_image_filenames) \in Nat /\ Len(m_image_filenames) > 0
        BY <2>3 DEF TypeOK
    <3>2. m_frame_i[p] \in Nat
        BY DEF TypeOK
    <3>3. next_file(p) < Len(m_image_filenames)
        BY <3>1, <3>2 DEF next_file
    <3>4. \A c \in Part : m_frame_i'[c] < Len(m_image_filenames)
        BY <2>3, <3>3 DEF FilesInv, TypeOK
    <3> QED
        BY <2>1, <3>4 DEF FilesInv
  <2> QED
      BY <1>4, <2>2, <2>3 DEF list_camera_read
<1>5. ASSUME NEW p \in Part, Update(p), ~list_camera_read(p) PROVE FilesInv'
  <2>1. UNCHANGED m_image_filenames
      BY <1>5, UpdateMain
  <2>2. UNCHANGED m_frame_i
      BY <1>5, EndFacts, WorkCases
      DEF Update, list_camera_assign, web_camera_capture, web_camera_captured,
          web_camera_assign, reader_deref, reader_check, camVars
  <2> QED
      BY <1>1, <2>1, <2>2
<1>6. CASE UNCHANGED <<conf, m_image_filenames, at, part, input, m_data,
                       m_input, frame, m_frame_i, m_frame, shares, step,
                       held, seen>>
    BY <1>1, <1>6
<1> QED
    BY <1>2, <1>3, <1>4, <1>5, <1>6, StepActors

\* get, run and put, pointwise.
LEMMA LoopFacts ==
    ASSUME TypeOK, get_input \/ run \/ put
    PROVE  /\ ended = "no" /\ Looping /\ Looping' /\ at # "update"
           /\ UNCHANGED <<conf, m_image_filenames, frame, m_frame_i, m_frame,
                          shares, step, held, seen, ended>>
           /\ \/ /\ at = "get" /\ at' = "run" /\ input' = get(conf.in[part])
                 /\ UNCHANGED <<part, m_data, m_input>>
              \/ /\ at = "run" /\ UNCHANGED <<part, input, m_data>>
                 /\ Camera(part) => UNCHANGED m_input
                 /\ ~Camera(part) => m_input'[part] = input
                 /\ \A p \in Part : p # part => m_input'[p] = m_input[p]
                 /\ \/ /\ at' = "put"
                       /\ Threaded(part) \/ Publisher(part)
                    \/ /\ at' = "update"
                       /\ ~Threaded(part) /\ ~Publisher(part)
              \/ /\ at = "put" /\ at' = "get" /\ UNCHANGED m_input
                 /\ m_data'[conf.out[part]] = m_output(part)
                 /\ \A t \in Topics : t # conf.out[part] => m_data'[t] = m_data[t]
                 /\ \/ part = N /\ part' = 1
                    \/ part # N /\ part' = part + 1
<1>1. conf.out[part] \in Topics /\ part \in Part
    BY ConfFacts DEF TypeOK
<1>2. m_data \in [Topics -> Ref \cup {Absent}] /\ m_input \in [Part -> Ref]
    BY DEF TypeOK
<1>3. CASE get_input
    BY <1>3 DEF get_input, Looping, camVars
<1>4. CASE run
    BY <1>1, <1>2, <1>4 DEF run, Looping, camVars
<1>5. CASE put
    BY <1>1, <1>2, <1>5 DEF put, Looping, camVars
<1> QED
    BY <1>3, <1>4, <1>5

\* Every step keeps that topics hold outputs of those that write them.
LEMMA DataStep ==
    ASSUME TypeOK, StartInv, DataInv, [Next]_vars
    PROVE  DataInv'
<1> USE RefFacts
<1>0. conf \in Configs /\ part \in Part /\ part \in Nat
    BY DEF TypeOK
<1>1. ASSUME UNCHANGED <<conf, m_data, part>>, Looping' => Looping
      PROVE  DataInv'
  <2>1. \A q \in Part : m_output(q)' = m_output(q)
      BY <1>1, SameConf
  <2> QED
      BY <1>1, <2>1 DEF DataInv
<1>2. CASE get_env_var /\ ~\E how : End(how)
  <2>1. UNCHANGED <<conf, m_data, part>> /\ at' = "construct"
      BY <1>2 DEF get_env_var
  <2> QED
      BY <1>1, <2>1 DEF Looping
<1>3. CASE construct /\ ~\E how : End(how)
  <2>1. /\ UNCHANGED <<conf, m_data>>
        /\ (at' = "get" /\ part' = 1) \/ at' = "construct"
      BY <1>3, ConstructFacts
  <2>2. \A q \in Part : m_output(q)' = m_output(q)
      BY <2>1, SameConf
  <2>3. Looping' => \A q \in Part : ~(q < part')
      BY <2>1 DEF Looping
  <2> QED
      BY <2>1, <2>2, <2>3 DEF DataInv
<1>4. CASE get_input \/ run \/ put
  <2>1. CASE UNCHANGED <<conf, m_data, part>>
      BY <1>1, <1>4, <2>1, LoopFacts
  <2>2. CASE ~UNCHANGED <<conf, m_data, part>>
    <3>1. /\ UNCHANGED conf /\ Looping
          /\ m_data'[conf.out[part]] = m_output(part)
          /\ \A t \in Topics : t # conf.out[part] => m_data'[t] = m_data[t]
          /\ part' = 1 \/ part' = part + 1
        BY <1>4, <2>2, LoopFacts
    <3>2. \A q \in Part : m_output(q)' = m_output(q)
        BY <3>1, SameConf
    <3>3. ASSUME NEW t \in Topics, m_data'[t] # Absent
          PROVE  \E q \in Part : conf.out[q] = t /\ m_data'[t] = m_output(q)
        BY <1>0, <3>1, <3>3 DEF DataInv
    <3>4. ASSUME NEW q \in Part, q < part'
          PROVE  m_data'[conf.out[q]] # Absent
      <4>1. conf.out[q] \in Topics /\ m_output(part) # Absent
          BY <1>0, ConfFacts, OutputFacts
      <4>2. q < part \/ q = part
          BY <1>0, <3>1, <3>4
      <4>3. CASE conf.out[q] = conf.out[part]
          BY <3>1, <4>1, <4>3
      <4>4. CASE conf.out[q] # conf.out[part]
          BY <3>1, <4>1, <4>2, <4>4 DEF DataInv
      <4> QED
          BY <4>3, <4>4
    <3> QED
        BY <3>1, <3>2, <3>3, <3>4 DEF DataInv
  <2> QED
      BY <2>1, <2>2
<1>5. ASSUME NEW p \in Part, Update(p) PROVE DataInv'
    BY <1>1, <1>5, UpdateMain
<1>6. CASE UNCHANGED <<conf, m_image_filenames, at, part, input, m_data,
                       m_input, frame, m_frame_i, m_frame, shares, step,
                       held, seen>>
    BY <1>1, <1>6 DEF Looping
<1> QED
    BY <1>2, <1>3, <1>4, <1>5, <1>6, StepActors

\* What a part's topic holds when it is not absent: the output of one of
\* its producers; and it is not absent when one of them comes before main().
LEMMA TopicFacts ==
    ASSUME TypeOK, DataInv, NEW p \in Part
    PROVE  /\ conf.in[p] \in Topics
           /\ m_data[conf.in[p]] # Absent =>
                /\ get(conf.in[p]) = m_data[conf.in[p]]
                /\ \E q \in Producers(p) : /\ q \in Part
                                           /\ get(conf.in[p]) = m_output(q)
           /\ m_data[conf.in[p]] = Absent => get(conf.in[p]) = Null
           /\ Looping => \A q \in Producers(p) :
                q < part => m_data[conf.in[p]] # Absent
<1>1. conf.in[p] \in Topics
    BY ConfFacts DEF TypeOK
<1>2. m_data[conf.in[p]] # Absent => get(conf.in[p]) = m_data[conf.in[p]]
    BY DEF get
<1>3. m_data[conf.in[p]] = Absent => get(conf.in[p]) = Null
    BY DEF get
<1>4. ASSUME m_data[conf.in[p]] # Absent
      PROVE  \E q \in Producers(p) : q \in Part /\ get(conf.in[p]) = m_output(q)
    BY <1>1, <1>2, <1>4 DEF DataInv, Producers
<1>5. Looping => \A q \in Producers(p) :
                    q < part => m_data[conf.in[p]] # Absent
    BY DEF DataInv, Producers
<1> QED
    BY <1>1, <1>2, <1>3, <1>4, <1>5

\* Every step keeps what is known of the inputs.
LEMMA InputStep ==
    ASSUME TypeOK, StartInv, DataInv, InputInv, [Next]_vars
    PROVE  InputInv'
<1> USE RefFacts
<1>0. conf \in Configs /\ part \in Part /\ part \in Nat
    BY DEF TypeOK
<1>1. ASSUME UNCHANGED <<conf, m_data, part, m_input, input>>,
             Looping' => Looping,
             at' = at \/ at' \notin {"run", "update", "put"}
                \/ (at = "update" /\ at' = "put")
      PROVE  InputInv'
  <2>1. \A p \in Part : /\ Producers(p)' = Producers(p)
                        /\ WellPlaced(p)' <=> WellPlaced(p)
                        /\ Camera(p)' <=> Camera(p)
                        /\ Threaded(p)' <=> Threaded(p)
                        /\ Publisher(p)' <=> Publisher(p)
                        /\ Reader(p)' <=> Reader(p)
      BY <1>1, SameConf
  <2>2. get(conf.in[part])' = get(conf.in[part])
      BY <1>1 DEF get
  <2> QED
      BY <1>0, <1>1, <2>1, <2>2 DEF InputInv
<1>2. CASE get_env_var /\ ~\E how : End(how)
  <2>1. UNCHANGED <<conf, m_data, part, m_input, input>> /\ at' = "construct"
      BY <1>2 DEF get_env_var
  <2> QED
      BY <1>1, <2>1 DEF Looping
<1>3. CASE construct /\ ~\E how : End(how)
  <2>1. /\ at = "construct" /\ m_input'[part] = Blank
        /\ \A p \in Part : p # part => m_input'[p] = m_input[p]
        /\ (part = N /\ at' = "get") \/ at' = "construct"
      BY <1>3, ConstructFacts
  <2>2. \A p \in Part : /\ m_input[p] \in {Null, Blank}
                        /\ p < part => m_input[p] = Blank
      BY <2>1 DEF StartInv, Looping
  <2>3. \A p \in Part : m_input'[p] \notin Part
      BY <2>1, <2>2
  <2>4. Looping' => \A p \in Part : m_input'[p] # Null
    <3>1. SUFFICES ASSUME Looping', NEW p \in Part PROVE m_input'[p] # Null
        OBVIOUS
    <3>2. part = N
        BY <2>1, <3>1 DEF Looping
    <3>3. p < part \/ p = part
        BY <3>2
    <3> QED
        BY <2>1, <2>2, <3>3
  <2> QED
      BY <2>1, <2>3, <2>4 DEF InputInv
<1>4. CASE get_input \/ run \/ put
  <2>0. UNCHANGED conf /\ Looping
      BY <1>4, LoopFacts
  <2>1. \A p \in Part : /\ Producers(p)' = Producers(p)
                        /\ WellPlaced(p)' <=> WellPlaced(p)
                        /\ Camera(p)' <=> Camera(p)
                        /\ Threaded(p)' <=> Threaded(p)
                        /\ Publisher(p)' <=> Publisher(p)
                        /\ Reader(p)' <=> Reader(p)
      BY <2>0, SameConf
  <2>2. CASE /\ at = "get" /\ at' = "run" /\ input' = get(conf.in[part])
             /\ UNCHANGED <<part, m_data, m_input>>
    <3>1. get(conf.in[part])' = get(conf.in[part])
        BY <2>0, <2>2 DEF get
    <3> QED
        BY <2>0, <2>1, <2>2, <3>1 DEF InputInv
  <2>3. CASE /\ at = "run" /\ UNCHANGED <<part, input, m_data>>
             /\ Camera(part) => UNCHANGED m_input
             /\ ~Camera(part) => m_input'[part] = input
             /\ \A p \in Part : p # part => m_input'[p] = m_input[p]
             /\ \/ /\ at' = "put"
                   /\ Threaded(part) \/ Publisher(part)
                \/ /\ at' = "update"
                   /\ ~Threaded(part) /\ ~Publisher(part)
    <3>1. get(conf.in[part])' = get(conf.in[part])
        BY <2>0, <2>3 DEF get
    <3>2. input = get(conf.in[part]) /\ input' = input
        BY <2>3 DEF InputInv
    <3>3. input \in Part => /\ input \in Producers(part) /\ Camera(input)
                            /\ m_data[conf.in[part]] # Absent
      <4>1. SUFFICES ASSUME input \in Part
                     PROVE  /\ input \in Producers(part) /\ Camera(input)
                            /\ m_data[conf.in[part]] # Absent
          OBVIOUS
      <4>2. m_data[conf.in[part]] # Absent
          BY <1>0, <3>2, <4>1, TopicFacts
      <4>3. PICK q \in Producers(part) : q \in Part /\ input = m_output(q)
          BY <1>0, <3>2, <4>2, TopicFacts
      <4>4. Camera(q) /\ input = q
          BY <1>0, <4>1, <4>3, OutputFacts
      <4> QED
          BY <4>2, <4>3, <4>4
    <3>4. WellPlaced(part) => input # Null
      <4>1. SUFFICES ASSUME WellPlaced(part) PROVE input # Null
          OBVIOUS
      <4>2. m_data[conf.in[part]] # Absent
          BY <1>0, <2>0, <4>1, TopicFacts DEF WellPlaced
      <4>3. PICK q \in Producers(part) : q \in Part /\ input = m_output(q)
          BY <1>0, <3>2, <4>2, TopicFacts
      <4> QED
          BY <1>0, <4>1, <4>3, OutputFacts DEF WellPlaced
    <3>5. ASSUME NEW p \in Part
          PROVE  /\ m_input'[p] \in Part => /\ m_input'[p] \in Producers(p)
                                            /\ Camera(m_input'[p])
                                            /\ m_data[conf.in[p]] # Absent
                 /\ WellPlaced(p) => m_input'[p] # Null
      <4>1. CASE m_input'[p] = m_input[p]
          BY <2>0, <4>1 DEF InputInv
      <4>2. CASE m_input'[p] # m_input[p]
        <5>1. p = part /\ m_input'[p] = input
            BY <2>3, <4>2
        <5> QED
            BY <3>3, <3>4, <5>1
      <4> QED
          BY <4>1, <4>2
    <3>6. at' = "update" => /\ ~Threaded(part) /\ ~Publisher(part)
                            /\ Reader(part) => m_input'[part] = input
        BY <1>0, <2>3, KindFacts
    <3>7. ASSUME NEW p \in Part
          PROVE  (m_input[p] \in Part => /\ m_input[p] \in Producers(p)
                                         /\ Camera(m_input[p])
                                         /\ m_data[conf.in[p]] # Absent)'
        BY <2>0, <2>1, <2>3, <3>5
    <3>8. \A p \in Part : (WellPlaced(p) => m_input[p] # Null)'
        BY <2>1, <3>5
    <3>9. (at = "update" => /\ ~Threaded(part) /\ ~Publisher(part)
                            /\ Reader(part) => m_input[part] = input)'
        BY <1>0, <2>1, <2>3, <3>6
    <3> QED
        BY <3>1, <3>2, <2>3, <3>7, <3>8, <3>9 DEF InputInv
  <2>4. CASE /\ at = "put" /\ at' = "get" /\ UNCHANGED m_input
             /\ m_data'[conf.out[part]] = m_output(part)
             /\ \A t \in Topics : t # conf.out[part] => m_data'[t] = m_data[t]
    <3>1. \A p \in Part : m_data[conf.in[p]] # Absent
                            => m_data'[conf.in[p]] # Absent
        BY <1>0, <2>4, ConfFacts, OutputFacts
    <3> QED
        BY <2>0, <2>1, <2>4, <3>1 DEF InputInv
  <2> QED
      BY <1>4, <2>2, <2>3, <2>4, LoopFacts
<1>5. ASSUME NEW p \in Part, Update(p) PROVE InputInv'
    BY <1>1, <1>5, UpdateMain
<1>6. CASE UNCHANGED <<conf, m_image_filenames, at, part, input, m_data,
                       m_input, frame, m_frame_i, m_frame, shares, step,
                       held, seen>>
    BY <1>1, <1>6 DEF Looping
<1> QED
    BY <1>2, <1>3, <1>4, <1>5, <1>6, StepActors

-----------------------------------------------------------------------------
(***************************************************************************)
(* update().                                                               *)
(***************************************************************************)
\* A step of update() of p concerns p alone.
OthersKept(p) ==
    \A q \in Part \ {p} : /\ UNCHANGED <<step[q], held[q], seen[q], frame[q],
                                         m_frame[q]>>
                          /\ shares'[q] <=> shares[q]

\* Its own frame is kept as well.
FrameKept(p) ==
    UNCHANGED <<frame[p], m_frame[p]>> /\ (shares'[p] <=> shares[p])

\* The steps of a camera.
CameraMove(p) ==
    \/ /\ ListCamera(p) /\ step[p] = "idle" /\ step'[p] = "idle"
       /\ FrameKept(p)
    \/ /\ ListCamera(p) /\ step[p] = "idle" /\ step'[p] = "assign"
       /\ m_image_filenames # <<>> /\ FrameKept(p)
    \/ /\ ListCamera(p) /\ step[p] = "assign" /\ step'[p] = "idle"
       /\ frame'[p] = imread(m_frame_i[p]) /\ (shares'[p] <=> shares[p])
    \/ /\ WebCamera(p) /\ step[p] = "idle" /\ step'[p] = "capture"
       /\ FrameKept(p)
    \/ /\ WebCamera(p) /\ step[p] = "capture"
       /\ step'[p] = "idle" \/ (step'[p] = "assign" /\ m_frame'[p] # 0)
       /\ frame'[p] = frame[p] \/ frame'[p] # 0
       /\ shares'[p] => shares[p]
    \/ /\ WebCamera(p) /\ step[p] = "assign" /\ step'[p] = "idle"
       /\ frame'[p] = m_frame[p] /\ (shares'[p] => m_frame[p] # 0)

\* The steps of a reader.
ReaderMove(p) ==
    \/ /\ step[p] = "idle" /\ step'[p] = "check"
       /\ held'[p] = m_input[p] /\ m_input[p] # Null
    \/ /\ step[p] = "check" /\ step'[p] = "idle"
       /\ Picture(held[p]) = 0 \/ Writing(held[p])
    \/ /\ step[p] = "check" /\ step'[p] = "use" /\ held'[p] = held[p]
       /\ Picture(held[p]) # 0 \/ Writing(held[p])
    \/ /\ step[p] = "use" /\ step'[p] = "idle"
       /\ \/ seen'[p] = Picture(held[p])
          \/ seen'[p] = Picture(m_input[p])

\* A step of update() that does not end the process.
Move(p) ==
    /\ ended' = "no" /\ OthersKept(p)
    /\ Threaded(p) \/ step'[p] # "idle" => at' = at
    /\ ~Threaded(p) => at = "update" /\ part = p
    /\ \/ Camera(p) /\ CameraMove(p)
       \/ Reader(p) /\ FrameKept(p) /\ ReaderMove(p)

\* A step of update() that ends it.
Death(p) ==
    /\ UNCHANGED <<at, frame, m_frame, shares, step, held, seen>>
    /\ Reader(p) /\ (~Threaded(p) => at = "update" /\ part = p)
    /\ \/ ended' = "null" /\ m_input[p] = Null
       \/ /\ ended' = "freed" /\ step[p] = "check"
          /\ held[p] = Blank /\ m_input[p] # Blank
       \/ /\ step[p] = "use"
          /\ \E image \in {m_input[p], held[p]} :
                \/ ended' = "null" /\ image = Null
                \/ ended' = "torn" /\ Writing(image)
                \/ ended' = "empty" /\ Picture(image) = 0 /\ ~Writing(image)
                \/ ended' = "tensor"

\* update() takes such steps only.
LEMMA UpdateCases ==
    ASSUME TypeOK, NEW p \in Part, Update(p)
    PROVE  Move(p) \/ Death(p)
<1> USE RefFacts
<1>0. /\ CamType /\ held \in [Part -> Ref] /\ seen \in [Part -> Nat]
      /\ conf \in Configs
    BY DEF TypeOK, CamType
<1>k. Camera(p) <=> ListCamera(p) \/ WebCamera(p)
    BY DEF Camera
<1>g. ASSUME NEW from, NEW to \in Steps, Goto(p, from, to), UNCHANGED ended
      PROVE  /\ ended' = "no" /\ step[p] = from /\ step'[p] = to
             /\ \A q \in Part \ {p} : step'[q] = step[q]
             /\ Threaded(p) \/ step'[p] # "idle" => at' = at
             /\ ~Threaded(p) => at = "update" /\ part = p
    BY <1>g, GotoFacts
<1>1. CASE list_camera_read(p)
  <2>2. CASE Goto(p, "idle", "idle")
      BY <1>1, <1>g, <1>k, <2>2
      DEF list_camera_read, Steps, Move, OthersKept, FrameKept, CameraMove
  <2>3. CASE Goto(p, "idle", "assign") /\ m_image_filenames # <<>>
      BY <1>1, <1>g, <1>k, <2>3
      DEF list_camera_read, Steps, Move, OthersKept, FrameKept, CameraMove
  <2> QED
      BY <1>1, <2>2, <2>3 DEF list_camera_read
<1>2. CASE list_camera_assign(p)
    BY <1>0, <1>2, <1>g, <1>k
    DEF list_camera_assign, Steps, Move, OthersKept, CameraMove, CamType
<1>3. CASE web_camera_capture(p)
    BY <1>3, <1>g, <1>k
    DEF web_camera_capture, Steps, Move, OthersKept, FrameKept, CameraMove,
        camVars
<1>4. CASE web_camera_captured(p)
  <2>1. PICK picture \in {0, (m_frame[p] % Scenes) + 1}, late \in BOOLEAN :
          /\ WebCamera(p)
          /\ Goto(p, "capture",
                  IF Publishable(p, picture, late) THEN "assign" ELSE "idle")
          /\ m_frame' = [m_frame EXCEPT ![p] = picture]
          /\ frame' = IF shares[p] /\ picture # 0
                      THEN [frame EXCEPT ![p] = picture] ELSE frame
          /\ shares' = [shares EXCEPT ![p] = @ /\ picture # 0]
          /\ UNCHANGED <<m_frame_i, held, seen, ended>>
      BY <1>4 DEF web_camera_captured
  <2>2. (IF Publishable(p, picture, late) THEN "assign" ELSE "idle") \in Steps
      BY DEF Steps
  <2>3. /\ ended' = "no" /\ step[p] = "capture"
        /\ step'[p] = "idle" \/ (step'[p] = "assign" /\ picture # 0)
        /\ \A q \in Part \ {p} : step'[q] = step[q]
        /\ Threaded(p) \/ step'[p] # "idle" => at' = at
        /\ ~Threaded(p) => at = "update" /\ part = p
      BY <2>1, <2>2, <1>g DEF Publishable
  <2>4. /\ m_frame'[p] = picture /\ (frame'[p] = frame[p] \/ frame'[p] # 0)
        /\ \A q \in Part \ {p} : UNCHANGED <<frame[q], m_frame[q]>>
      BY <1>0, <2>1 DEF CamType
  <2>5. /\ shares'[p] => shares[p]
        /\ \A q \in Part \ {p} : shares'[q] <=> shares[q]
      BY <1>0, <2>1 DEF CamType
  <2>6. OthersKept(p)
      BY <2>1, <2>3, <2>4, <2>5 DEF OthersKept
  <2>7. CameraMove(p)
      BY <2>1, <2>3, <2>4, <2>5 DEF CameraMove
  <2> QED
      BY <1>k, <2>1, <2>3, <2>6, <2>7 DEF Move
<1>5. CASE web_camera_assign(p)
  <2>1. /\ ended' = "no" /\ step[p] = "assign" /\ step'[p] = "idle"
        /\ \A q \in Part \ {p} : step'[q] = step[q]
        /\ Threaded(p) \/ step'[p] # "idle" => at' = at
        /\ ~Threaded(p) => at = "update" /\ part = p
      BY <1>5, <1>g DEF web_camera_assign, Steps
  <2>2. /\ frame'[p] = m_frame[p] /\ (shares'[p] => m_frame[p] # 0)
        /\ \A q \in Part \ {p} : /\ UNCHANGED <<frame[q], m_frame[q]>>
                                 /\ shares'[q] <=> shares[q]
      BY <1>0, <1>5 DEF web_camera_assign, CamType
  <2>3. OthersKept(p)
      BY <1>5, <2>1, <2>2 DEF OthersKept, web_camera_assign
  <2>4. WebCamera(p) /\ CameraMove(p)
      BY <1>5, <2>1, <2>2 DEF CameraMove, web_camera_assign
  <2> QED
      BY <1>k, <2>1, <2>3, <2>4 DEF Move
<1>6. CASE reader_deref(p)
  <2>1. CASE At(p, "idle") /\ m_input[p] = Null /\ End("null")
      BY <1>6, <2>1, EndFacts DEF reader_deref, At, Death
  <2>2. CASE /\ m_input[p] # Null /\ Goto(p, "idle", "check")
             /\ held' = [held EXCEPT ![p] = m_input[p]]
             /\ UNCHANGED <<camVars, seen, ended>>
    <3>1. /\ ended' = "no" /\ step[p] = "idle" /\ step'[p] = "check"
          /\ \A q \in Part \ {p} : step'[q] = step[q]
          /\ Threaded(p) \/ step'[p] # "idle" => at' = at
          /\ ~Threaded(p) => at = "update" /\ part = p
        BY <2>2, <1>g DEF Steps
    <3>2. OthersKept(p) /\ FrameKept(p) /\ held'[p] = m_input[p]
        BY <1>0, <2>2, <3>1 DEF OthersKept, FrameKept, camVars
    <3> QED
        BY <1>6, <2>2, <3>1, <3>2 DEF Move, ReaderMove, reader_deref
  <2> QED
      BY <1>6, <2>1, <2>2 DEF reader_deref
<1>7. CASE reader_check(p)
  <2>1. CASE /\ At(p, "check") /\ held[p] = Blank /\ m_input[p] # Blank
             /\ End("freed")
      BY <1>7, <2>1, EndFacts DEF reader_check, At, Death
  <2>2. CASE /\ Goto(p, "check", "idle")
             /\ Picture(held[p]) = 0 \/ Writing(held[p])
             /\ held' = [held EXCEPT ![p] = Null]
             /\ UNCHANGED <<camVars, seen, ended>>
    <3>1. /\ ended' = "no" /\ step[p] = "check" /\ step'[p] = "idle"
          /\ \A q \in Part \ {p} : step'[q] = step[q]
          /\ Threaded(p) \/ step'[p] # "idle" => at' = at
          /\ ~Threaded(p) => at = "update" /\ part = p
        BY <2>2, <1>g DEF Steps
    <3>2. OthersKept(p) /\ FrameKept(p)
        BY <1>0, <2>2, <3>1 DEF OthersKept, FrameKept, camVars
    <3> QED
        BY <1>7, <2>2, <3>1, <3>2 DEF Move, ReaderMove, reader_check
  <2>3. CASE /\ Goto(p, "check", "use")
             /\ Picture(held[p]) # 0 \/ Writing(held[p])
             /\ UNCHANGED <<camVars, held, seen, ended>>
    <3>1. /\ ended' = "no" /\ step[p] = "check" /\ step'[p] = "use"
          /\ \A q \in Part \ {p} : step'[q] = step[q]
          /\ Threaded(p) \/ step'[p] # "idle" => at' = at
          /\ ~Threaded(p) => at = "update" /\ part = p
        BY <2>3, <1>g DEF Steps
    <3>2. OthersKept(p) /\ FrameKept(p)
        BY <1>0, <2>3, <3>1 DEF OthersKept, FrameKept, camVars
    <3> QED
        BY <1>7, <2>3, <3>1, <3>2 DEF Move, ReaderMove, reader_check
  <2> QED
      BY <1>7, <2>1, <2>2, <2>3 DEF reader_check
<1>8. CASE reader_use(p) \/ predict(p)
  <2>0. PICK image \in {m_input[p], held[p]} :
             /\ Reader(p)
             /\ \/ /\ Goto(p, "use", "idle") /\ Picture(image) # 0
                   /\ seen' = [seen EXCEPT ![p] = Picture(image)]
                   /\ held' = [held EXCEPT ![p] = Null]
                   /\ UNCHANGED <<camVars, ended>>
                \/ At(p, "use") /\ Writing(image) /\ End("torn")
                \/ /\ At(p, "use") /\ Picture(image) = 0 /\ ~Writing(image)
                   /\ image = Null /\ End("null")
                \/ /\ At(p, "use") /\ Picture(image) = 0 /\ ~Writing(image)
                   /\ image # Null /\ End("empty")
                \/ At(p, "use") /\ End("tensor")
      BY <1>8, WorkCases
  <2>1. CASE /\ Goto(p, "use", "idle")
             /\ seen' = [seen EXCEPT ![p] = Picture(image)]
             /\ held' = [held EXCEPT ![p] = Null]
             /\ UNCHANGED <<camVars, ended>>
    <3>1. /\ ended' = "no" /\ step[p] = "use" /\ step'[p] = "idle"
          /\ \A q \in Part \ {p} : step'[q] = step[q]
          /\ Threaded(p) \/ step'[p] # "idle" => at' = at
          /\ ~Threaded(p) => at = "update" /\ part = p
        BY <2>1, <1>g DEF Steps
    <3>2. OthersKept(p) /\ FrameKept(p) /\ seen'[p] = Picture(image)
        BY <1>0, <2>1, <3>1 DEF OthersKept, FrameKept, camVars
    <3> QED
        BY <2>0, <3>1, <3>2 DEF Move, ReaderMove
  <2>2. CASE At(p, "use") /\ Writing(image) /\ End("torn")
      BY <2>0, <2>2, EndFacts DEF At, Death
  <2>3. CASE At(p, "use") /\ image = Null /\ End("null")
      BY <2>0, <2>3, EndFacts DEF At, Death
  <2>4. CASE /\ At(p, "use") /\ Picture(image) = 0 /\ ~Writing(image)
             /\ End("empty")
      BY <2>0, <2>4, EndFacts DEF At, Death
  <2>5. CASE At(p, "use") /\ End("tensor")
      BY <2>0, <2>5, EndFacts DEF At, Death
  <2> QED
      BY <2>0, <2>1, <2>2, <2>3, <2>4, <2>5
<1> QED
    BY <1>1, <1>2, <1>3, <1>4, <1>5, <1>6, <1>7, <1>8 DEF Update

\* What main() leaves to update(): it waits for that of a part without a
\* thread, and constructs before any.
LEMMA MainFacts ==
    ASSUME TypeOK, StartInv, [Next]_vars, ~\E p \in Part : Update(p)
    PROVE  /\ UNCHANGED <<conf, frame, m_frame, shares, step, held, seen>>
           /\ UNCHANGED <<at, part>> \/ at # "update"
           /\ UNCHANGED m_image_filenames \/ ~Looping
           /\ UNCHANGED m_input \/ ~Looping \/ run
           /\ ~Looping => \A p \in Part : step[p] = "idle"
<1>1. ~Looping => \A p \in Part : step[p] = "idle"
    BY DEF StartInv
<1>2. CASE get_env_var /\ ~\E how : End(how)
    BY <1>1, <1>2 DEF get_env_var, camVars
<1>3. CASE construct /\ ~\E how : End(how)
  <2>1. at = "construct" /\ ~Looping
      BY <1>3, ConstructFacts DEF Looping
  <2> QED
      BY <1>1, <1>3, <2>1, ConstructFacts
<1>4. CASE get_input \/ run \/ put
    BY <1>1, <1>4, LoopFacts DEF get_input, put
<1>5. CASE UNCHANGED <<conf, m_image_filenames, at, part, input, m_data,
                       m_input, frame, m_frame_i, m_frame, shares, step,
                       held, seen>>
    BY <1>1, <1>5
<1> QED
    BY <1>2, <1>3, <1>4, <1>5, StepActors

\* Every step keeps where update() can be.
LEMMA StepStep ==
    ASSUME TypeOK, StartInv, StepInv, [Next]_vars
    PROVE  StepInv'
<1> USE RefFacts
<1>1. CASE ~\E p \in Part : Update(p)
  <2>1. UNCHANGED <<conf, frame, m_frame, shares, step, held>>
      BY <1>1, MainFacts
  <2>2. ASSUME NEW q \in Part, step[q] # "idle"
        PROVE  /\ m_image_filenames' = m_image_filenames
               /\ ~Threaded(q) => UNCHANGED <<at, part>>
      BY <1>1, <2>2, MainFacts DEF StepInv
  <2>3. \A q \in Part : /\ Reader(q)' <=> Reader(q)
                        /\ Camera(q)' <=> Camera(q)
                        /\ WebCamera(q)' <=> WebCamera(q)
                        /\ ListCamera(q)' <=> ListCamera(q)
                        /\ Threaded(q)' <=> Threaded(q)
      BY <2>1, SameConf
  <2> QED
      BY <2>1, <2>2, <2>3 DEF StepInv
<1>2. ASSUME NEW p \in Part, Update(p) PROVE StepInv'
  <2>0. conf \in Configs /\ step \in [Part -> Steps]
      BY DEF TypeOK, Steps
  <2>1. /\ UNCHANGED <<conf, m_image_filenames, part>>
        /\ at' = at \/ (at = "update" /\ at' = "put" /\ part = p)
      BY <1>2, UpdateMain
  <2>2. \A q \in Part : /\ Reader(q)' <=> Reader(q)
                        /\ Camera(q)' <=> Camera(q)
                        /\ WebCamera(q)' <=> WebCamera(q)
                        /\ ListCamera(q)' <=> ListCamera(q)
                        /\ Threaded(q)' <=> Threaded(q)
      BY <2>1, SameConf
  <2>3. CASE Death(p)
      BY <2>1, <2>2, <2>3 DEF Death, StepInv
  <2>4. CASE Move(p)
    <3>1. ASSUME NEW q \in Part, q # p
          PROVE  /\ UNCHANGED <<step[q], held[q], frame[q], m_frame[q]>>
                 /\ shares'[q] <=> shares[q]
                 /\ step[q] # "idle" /\ ~Threaded(q) => at' = at
        BY <2>1, <2>4, <3>1 DEF Move, OthersKept, StepInv
    <3>2. /\ step'[p] \in {"check", "use"} => Reader(p) /\ held'[p] # Null
          /\ step'[p] = "capture" => WebCamera(p)
          /\ step'[p] = "assign" => Camera(p)
          /\ step'[p] = "assign" /\ WebCamera(p) => m_frame'[p] # 0
          /\ step'[p] = "assign" /\ ListCamera(p) => m_image_filenames # <<>>
          /\ step'[p] # "idle" /\ ~Threaded(p) => at' = "update" /\ part = p
          /\ shares'[p] => WebCamera(p) /\ frame'[p] # 0
      <4>1. step'[p] # "idle" /\ ~Threaded(p) => at' = "update" /\ part = p
          BY <2>4 DEF Move
      <4>2. CASE Camera(p) /\ CameraMove(p)
        <5>1. ListCamera(p) => ~WebCamera(p)
            BY <2>0, KindFacts
        <5>2. ListCamera(p) => ~shares'[p]
            BY <4>2, <5>1 DEF CameraMove, FrameKept, StepInv
        <5>3. WebCamera(p) /\ shares'[p] => frame'[p] # 0
            BY <4>2, <5>1 DEF CameraMove, FrameKept, StepInv
        <5> QED
            BY <2>0, <4>1, <4>2, <5>1, <5>2, <5>3, KindFacts DEF CameraMove
      <4>3. CASE Reader(p) /\ FrameKept(p) /\ ReaderMove(p)
          BY <2>0, <4>1, <4>3, KindFacts DEF ReaderMove, FrameKept, StepInv
      <4> QED
          BY <2>4, <4>2, <4>3 DEF Move
    <3> QED
        BY <2>1, <2>2, <3>1, <3>2 DEF StepInv
  <2> QED
      BY <1>2, <2>3, <2>4, UpdateCases
<1> QED
    BY <1>1, <1>2

\* When its topic has one producer, a part that has an Image of a camera gets
\* the same one from run() again.
LEMMA InputKept ==
    ASSUME TypeOK, StartInv, DataInv, InputInv, [Next]_vars, NEW p \in Part,
           m_input[p] \in Part, Single(p)
    PROVE  m_input'[p] = m_input[p]
<1> USE RefFacts
<1>0. conf \in Configs /\ part \in Part
    BY DEF TypeOK
<1>1. CASE \E q \in Part : Update(q)
    BY <1>1, UpdateMain
<1>2. CASE ~\E q \in Part : Update(q)
  <2>1. Looping
      BY DEF StartInv
  <2>2. CASE UNCHANGED m_input
      BY <2>2
  <2>3. CASE run
    <3>1. at = "run"
        BY <2>3 DEF run
    <3>2. m_input'[p] = m_input[p] \/ (part = p /\ m_input'[p] = input)
        BY <1>0, <2>3, <3>1, LoopFacts
    <3>3. part = p => input = get(conf.in[p])
        BY <3>1 DEF InputInv
    <3>4. /\ m_input[p] \in Producers(p) /\ Camera(m_input[p])
          /\ m_data[conf.in[p]] # Absent
        BY DEF InputInv
    <3>5. PICK q \in Producers(p) : q \in Part /\ get(conf.in[p]) = m_output(q)
        BY <3>4, TopicFacts
    <3>6. q = m_input[p]
        BY <3>4, <3>5 DEF Single
    <3>7. m_output(q) = q
        BY <1>0, <3>4, <3>5, <3>6, OutputFacts
    <3> QED
        BY <3>2, <3>3, <3>5, <3>6, <3>7
  <2> QED
      BY <1>2, <2>1, <2>2, <2>3, MainFacts
<1> QED
    BY <1>1, <1>2

\* Every step keeps what update() of a reader holds.
LEMMA HeldStep ==
    ASSUME TypeOK, StartInv, DataInv, InputInv, StepInv, HeldInv, [Next]_vars
    PROVE  HeldInv'
<1> USE RefFacts
<1>0. conf \in Configs /\ UNCHANGED conf
  <2>1. CASE \E p \in Part : Update(p)
      BY <2>1, UpdateMain DEF TypeOK
  <2>2. CASE ~\E p \in Part : Update(p)
      BY <2>2, MainFacts DEF TypeOK
  <2> QED
      BY <2>1, <2>2
<1>1. \A q \in Part : /\ Producers(q)' = Producers(q)
                      /\ Camera(q)' <=> Camera(q)
                      /\ Single(q)' <=> Single(q)
                      /\ Threaded(q)' <=> Threaded(q)
    BY <1>0, SameConf
<1>2. \A p \in Part : m_input[p] \in Part /\ Single(p)
                        => m_input'[p] = m_input[p]
    BY InputKept
<1>3. SUFFICES ASSUME NEW p \in Part, step'[p] \in {"check", "use"}
               PROVE  /\ step'[p] = "use" => held'[p] \in Part
                      /\ held'[p] \in Part =>
                            /\ held'[p] \in Producers(p) /\ Camera(held'[p])
                            /\ Single(p) => m_input'[p] = held'[p]
                      /\ ~Threaded(p) => held'[p] = m_input'[p]
  <2>1. ASSUME NEW p \in Part, held'[p] \in Part
        PROVE  Camera(held[p])' <=> Camera(held'[p])
      BY <1>1, <2>1
  <2> QED
      BY <1>1, <2>1 DEF HeldInv
<1>4. ASSUME UNCHANGED <<step[p], held[p]>>, ~Threaded(p) => UNCHANGED m_input
      PROVE  /\ step'[p] = "use" => held'[p] \in Part
             /\ held'[p] \in Part =>
                    /\ held'[p] \in Producers(p) /\ Camera(held'[p])
                    /\ Single(p) => m_input'[p] = held'[p]
             /\ ~Threaded(p) => held'[p] = m_input'[p]
    BY <1>2, <1>3, <1>4 DEF HeldInv
<1>5. CASE ~\E q \in Part : Update(q)
  <2>1. UNCHANGED <<step, held>> /\ step[p] # "idle"
      BY <1>3, <1>5, MainFacts
  <2>2. ~Threaded(p) => at = "update"
      BY <2>1 DEF StepInv
  <2>3. Looping
      BY <1>5, <2>1, MainFacts
  <2>4. ~Threaded(p) => UNCHANGED m_input
      BY <1>5, <2>2, <2>3, MainFacts DEF run
  <2> QED
      BY <1>4, <2>1, <2>4
<1>6. ASSUME NEW q \in Part, Update(q), q # p \/ Death(q)
      PROVE  /\ step'[p] = "use" => held'[p] \in Part
             /\ held'[p] \in Part =>
                    /\ held'[p] \in Producers(p) /\ Camera(held'[p])
                    /\ Single(p) => m_input'[p] = held'[p]
             /\ ~Threaded(p) => held'[p] = m_input'[p]
  <2>1. UNCHANGED <<step[p], held[p], m_input>>
      BY <1>6, UpdateCases, UpdateMain DEF Move, Death, OthersKept
  <2> QED
      BY <1>4, <2>1
<1>7. CASE Update(p) /\ Move(p)
  <2>1. Reader(p) /\ ReaderMove(p) /\ UNCHANGED m_input
    <3>1. ~(Camera(p) /\ CameraMove(p))
        BY <1>3 DEF CameraMove
    <3> QED
        BY <1>7, <3>1, UpdateMain DEF Move
  <2>2. CASE held'[p] = m_input[p] /\ step'[p] = "check"
      BY <2>1, <2>2 DEF InputInv
  <2>3. CASE /\ step[p] = "check" /\ step'[p] = "use" /\ held'[p] = held[p]
             /\ Picture(held[p]) # 0 \/ Writing(held[p])
    <3>1. held[p] \in Part
        BY <2>3 DEF Picture, Writing
    <3> QED
        BY <2>1, <2>3, <3>1 DEF HeldInv
  <2> QED
      BY <1>3, <2>1, <2>2, <2>3 DEF ReaderMove
<1> QED
    BY <1>5, <1>6, <1>7, UpdateCases

\* A list camera all of whose files can be read reads one.
LEMMA ReadsPicture ==
    ASSUME TypeOK, FilesInv, NEW c \in Part, m_image_filenames # <<>>,
           \A i \in DOMAIN m_image_filenames : m_image_filenames[i].readable
    PROVE  imread(m_frame_i[c]) # 0
<1>1. Len(m_image_filenames) \in Nat /\ m_frame_i[c] \in Nat
    BY DEF TypeOK
<1>2. m_frame_i[c] + 1 \in 1..Len(m_image_filenames)
    BY <1>1 DEF FilesInv
<1>3. m_frame_i[c] + 1 \in DOMAIN m_image_filenames
    BY <1>2 DEF TypeOK
<1> QED
    BY <1>1, <1>3 DEF imread

\* Every step keeps that a frame in use lasts.
LEMMA FrameStep ==
    ASSUME TypeOK, StartInv, FilesInv, StepInv, HeldInv, FrameInv, [Next]_vars
    PROVE  FrameInv'
<1> USE RefFacts
<1>0. conf \in Configs /\ UNCHANGED conf
  <2>1. CASE \E p \in Part : Update(p)
      BY <2>1, UpdateMain DEF TypeOK
  <2>2. CASE ~\E p \in Part : Update(p)
      BY <2>2, MainFacts DEF TypeOK
  <2> QED
      BY <2>1, <2>2
<1>a. \A q \in Part : /\ Producers(q)' = Producers(q)
                      /\ ListCamera(q)' <=> ListCamera(q)
                      /\ Single(q)' <=> Single(q)
                      /\ Threaded(q)' <=> Threaded(q)
    BY <1>0, SameConf
<1>b. \A q \in Part : \A c \in Producers(q) : c \in Part
    BY DEF Producers
<1>1. CASE ~\E q \in Part : Update(q)
  <2>1. UNCHANGED <<step, held, frame>>
      BY <1>1, MainFacts
  <2>2. ASSUME NEW p \in Part, step[p] = "use"
        PROVE  Lasting(p)' <=> Lasting(p)
    <3>1. UNCHANGED m_image_filenames
        BY <1>1, <2>2, MainFacts
    <3> QED
        BY <1>a, <1>b, <3>1 DEF Lasting
  <2>3. \A p \in Part : step[p] = "use" => held[p] \in Part
      BY DEF HeldInv
  <2> QED
      BY <1>a, <2>1, <2>2, <2>3 DEF FrameInv
<1>2. ASSUME NEW q \in Part, Update(q) PROVE FrameInv'
  <2>0. UNCHANGED m_image_filenames
      BY <1>2, UpdateMain
  <2>1. \A p \in Part : Lasting(p)' <=> Lasting(p)
      BY <1>a, <1>b, <2>0 DEF Lasting
  <2>2. CASE Death(q)
    <3>1. \A p \in Part : step[p] = "use" => held[p] \in Part
        BY DEF HeldInv
    <3>2. UNCHANGED <<step, held, frame>>
        BY <2>2 DEF Death
    <3> QED
        BY <1>a, <2>1, <3>1, <3>2 DEF FrameInv
  <2>3. CASE Move(q)
    <3>1. SUFFICES ASSUME NEW p \in Part, step'[p] = "use"
                   PROVE  /\ held'[p] \in Part
                          /\ Lasting(p) => \/ frame'[held'[p]] # 0
                                           \/ step'[held'[p]] = "assign"
                          /\ ~Threaded(p) /\ ~Threaded(held'[p])
                                => frame'[held'[p]] # 0
      <4>1. ASSUME NEW p \in Part, held'[p] \in Part
            PROVE  Threaded(held[p])' <=> Threaded(held'[p])
          BY <1>a, <4>1
      <4> QED
          BY <1>a, <2>1, <4>1 DEF FrameInv
    <3>2. CASE q = p
      <4>1. ~(Camera(p) /\ CameraMove(p))
          BY <3>1 DEF CameraMove
      <4>2. /\ Reader(p) /\ FrameKept(p) /\ step[p] = "check"
            /\ held'[p] = held[p]
            /\ Picture(held[p]) # 0 \/ Writing(held[p])
            /\ OthersKept(p) /\ (~Threaded(p) => at = "update" /\ part = p)
          BY <2>3, <3>1, <3>2, <4>1 DEF Move, ReaderMove
      <4>3. held[p] \in Part
          BY <4>2 DEF Picture, Writing
      <4>4. Camera(held[p])
          BY <4>2, <4>3 DEF HeldInv
      <4>5. held[p] # p
          BY <1>0, <4>2, <4>3, <4>4, KindFacts
      <4>6. /\ frame'[held'[p]] = frame[held[p]]
            /\ step'[held'[p]] = step[held[p]]
          BY <4>2, <4>3, <4>5 DEF OthersKept
      <4>7. CASE frame[held[p]] # 0
          BY <4>2, <4>3, <4>6, <4>7
      <4>8. CASE frame[held[p]] = 0
        <5>1. step[held[p]] = "assign"
            BY <4>2, <4>3, <4>8 DEF Picture, Writing, StepInv
        <5>2. ~Threaded(held[p]) => part = held[p]
            BY <4>3, <5>1 DEF StepInv
        <5> QED
            BY <4>2, <4>3, <4>5, <4>6, <5>1, <5>2
      <4> QED
          BY <4>7, <4>8
    <3>3. CASE q # p
      <4>1. UNCHANGED <<step[p], held[p]>>
          BY <2>3, <3>3 DEF Move, OthersKept
      <4>2. held[p] \in Part /\ held[p] \in Producers(p)
          BY <3>1, <4>1 DEF HeldInv
      <4>3. CASE held[p] # q
        <5>1. /\ frame'[held'[p]] = frame[held[p]]
              /\ step'[held'[p]] = step[held[p]]
            BY <2>3, <4>1, <4>2, <4>3 DEF Move, OthersKept
        <5> QED
            BY <3>1, <4>1, <4>2, <5>1 DEF FrameInv
      <4>4. CASE held[p] = q
        <5>1. Camera(q)
            BY <3>1, <4>1, <4>2, <4>4 DEF HeldInv
        <5>2. CameraMove(q)
            BY <1>0, <2>3, <5>1, KindFacts DEF Move
        <5>3. ~(~Threaded(p) /\ ~Threaded(q))
            BY <2>3, <3>1, <3>3, <4>1 DEF Move, StepInv
        <5>4. ASSUME Lasting(p) PROVE frame'[q] # 0 \/ step'[q] = "assign"
          <6>1. frame[q] # 0 \/ step[q] = "assign"
              BY <3>1, <4>1, <4>4, <5>4 DEF FrameInv
          <6>2. CASE ListCamera(q) /\ step[q] = "assign"
            <7>1. /\ m_image_filenames # <<>>
                  /\ \A i \in DOMAIN m_image_filenames :
                        m_image_filenames[i].readable
                BY <4>2, <4>4, <5>4, <6>2 DEF Lasting, StepInv
            <7>2. imread(m_frame_i[q]) # 0
                BY <7>1, ReadsPicture
            <7> QED
                BY <1>0, <5>2, <6>2, <7>2, KindFacts DEF CameraMove
          <6>3. CASE WebCamera(q) /\ step[q] = "assign"
              BY <1>0, <5>2, <6>3, KindFacts DEF CameraMove, StepInv
          <6>4. CASE step[q] # "assign"
              BY <5>2, <6>1, <6>4 DEF CameraMove, FrameKept
          <6> QED
              BY <5>1, <6>2, <6>3, <6>4 DEF Camera
        <5> QED
            BY <4>1, <4>2, <4>4, <5>3, <5>4
      <4> QED
          BY <4>3, <4>4
    <3> QED
        BY <3>2, <3>3
  <2> QED
      BY <1>2, <2>2, <2>3, UpdateCases
<1> QED
    BY <1>1, <1>2

-----------------------------------------------------------------------------
(***************************************************************************)
(* How the process ends, and what readers see.                             *)
(***************************************************************************)
\* The process ends as main() ends it, in an update(), or not yet.
LEMMA EndCases ==
    ASSUME TypeOK, [Next]_vars
    PROVE  \/ ended' \in {"no", "exit(1)", "exception"}
           \/ \E p \in Part : Update(p) /\ Death(p)
           \/ UNCHANGED vars
<1>1. CASE get_env_var \/ construct \/ get_input \/ run \/ put
  <2>1. ended = "no"
      BY <1>1 DEF get_env_var, construct, get_input, run, put
  <2> QED
      BY <1>1, <2>1, EndFacts DEF get_env_var, construct, get_input, run, put
<1>2. ASSUME NEW p \in Part, Update(p)
      PROVE  ended' = "no" \/ Death(p)
    BY <1>2, UpdateCases DEF Move
<1> QED
    BY <1>1, <1>2 DEF Next, Terminated

\* A step that ends the process in update() keeps wires and files.
LEMMA DeathFacts ==
    ASSUME TypeOK, NEW p \in Part, Update(p), Death(p)
    PROVE  /\ UNCHANGED <<conf, m_image_filenames>> /\ Looping /\ Reader(p)
           /\ conf \in Configs
           /\ ~Threaded(p) => at = "update" /\ part = p
  BY UpdateMain DEF Death, TypeOK

\* No step follows a null pointer in a well placed reader.
LEMMA NullStep ==
    ASSUME TypeOK, InputInv, StepInv, NoNullInput, [Next]_vars
    PROVE  NoNullInput'
<1>1. CASE ended' \in {"no", "exit(1)", "exception"}
    BY <1>1 DEF NoNullInput
<1>2. ASSUME NEW p \in Part, Update(p), Death(p), ended' = "null"
      PROVE  NoNullInput'
  <2>1. UNCHANGED conf /\ Looping /\ Reader(p)
      BY <1>2, DeathFacts
  <2>2. m_input[p] = Null
      BY <1>2 DEF Death, StepInv
  <2>3. ~WellPlaced(p)
      BY <2>1, <2>2 DEF InputInv
  <2>4. Reader(p)' /\ ~WellPlaced(p)'
      BY <2>1, <2>3, SameConf
  <2> QED
      BY <2>4 DEF NoNullInput
<1>3. CASE UNCHANGED vars
  <2>1. UNCHANGED <<conf, ended>>
      BY <1>3 DEF vars
  <2>2. \A p \in Part : /\ Reader(p)' <=> Reader(p)
                        /\ WellPlaced(p)' <=> WellPlaced(p)
      BY <2>1, SameConf
  <2> QED
      BY <2>1, <2>2 DEF NoNullInput
<1> QED
    BY <1>1, <1>2, <1>3, EndCases DEF NoNullInput

\* No step tears, empties or frees a frame without threads.
LEMMA RaceStep ==
    ASSUME TypeOK, StepInv, HeldInv, FrameInv, RacesNeedThreads, [Next]_vars
    PROVE  RacesNeedThreads'
<1> USE RefFacts
<1>1. CASE ended' \in {"no", "exit(1)", "exception"}
    BY <1>1 DEF RacesNeedThreads
<1>2. ASSUME NEW p \in Part, Update(p), Death(p)
      PROVE  RacesNeedThreads'
  <2>1. /\ UNCHANGED conf /\ Reader(p) /\ conf \in Configs
        /\ ~Threaded(p) => part = p
      BY <1>2, DeathFacts
  <2>2. SUFFICES ASSUME conf.threaded = {}
                 PROVE  ended' \notin {"torn", "empty", "freed"}
      BY <2>1 DEF RacesNeedThreads
  <2>3. \A q \in Part : ~Threaded(q)
      BY <2>2 DEF Threaded
  <2>4. ended' # "freed"
      BY <1>2, <2>3 DEF Death, HeldInv
  <2>5. CASE step[p] # "use"
      BY <1>2, <2>4, <2>5 DEF Death
  <2>6. CASE step[p] = "use"
    <3>1. /\ held[p] = m_input[p] /\ held[p] \in Part
          /\ Camera(held[p]) /\ frame[held[p]] # 0
        BY <2>3, <2>6 DEF HeldInv, FrameInv
    <3>2. held[p] # p
        BY <2>1, <3>1, KindFacts
    <3>3. step[held[p]] = "idle"
        BY <2>1, <2>3, <3>1, <3>2 DEF StepInv
    <3>4. ~Writing(held[p]) /\ Picture(held[p]) # 0
        BY <3>1, <3>3 DEF Writing, Picture
    <3> QED
        BY <1>2, <2>4, <3>1, <3>4 DEF Death
  <2> QED
      BY <2>5, <2>6
<1>3. CASE UNCHANGED vars
    BY <1>3 DEF vars, RacesNeedThreads
<1> QED
    BY <1>1, <1>2, <1>3, EndCases

\* No step finds a frame of one camera empty that was not, unless a file
\* cannot be read.
LEMMA EmptyStep ==
    ASSUME TypeOK, StepInv, HeldInv, FrameInv, EmptyNeedsBadFile, [Next]_vars
    PROVE  EmptyNeedsBadFile'
<1> USE RefFacts
<1>1. CASE ended' \in {"no", "exit(1)", "exception"}
    BY <1>1 DEF EmptyNeedsBadFile
<1>2. ASSUME NEW p \in Part, Update(p), Death(p), ended' = "empty"
      PROVE  EmptyNeedsBadFile'
  <2>1. /\ UNCHANGED <<conf, m_image_filenames>> /\ Reader(p)
      BY <1>2, DeathFacts
  <2>2. PICK image \in {m_input[p], held[p]} :
            step[p] = "use" /\ Picture(image) = 0 /\ ~Writing(image)
      BY <1>2 DEF Death
  <2>3. ~Lasting(p)
    <3>1. SUFFICES ASSUME Lasting(p) PROVE FALSE
        OBVIOUS
    <3>2. held[p] \in Part /\ Single(p)
        BY <2>2, <3>1 DEF HeldInv, Lasting
    <3>3. m_input[p] = held[p]
        BY <2>2, <3>2 DEF HeldInv
    <3>4. frame[held[p]] # 0 \/ step[held[p]] = "assign"
        BY <2>2, <3>1 DEF FrameInv
    <3> QED
        BY <2>2, <3>2, <3>3, <3>4 DEF Picture, Writing
  <2>4. \A c \in Producers(p) : c \in Part
      BY DEF Producers
  <2>5. /\ Producers(p)' = Producers(p) /\ Reader(p)'
        /\ \A c \in Part : ListCamera(c)' <=> ListCamera(c)
      BY <2>1, SameConf
  <2>6. \/ \E q, r \in Producers(p) : q # r
        \/ /\ \E c \in Producers(p) : ListCamera(c)
           /\ \E i \in DOMAIN m_image_filenames : ~m_image_filenames[i].readable
      BY <2>3 DEF Lasting, Single
  <2>7. (\/ \E q, r \in Producers(p) : q # r
         \/ /\ \E c \in Producers(p) : ListCamera(c)
            /\ \E i \in DOMAIN m_image_filenames :
                    ~m_image_filenames[i].readable)'
      BY <2>1, <2>4, <2>5, <2>6
  <2> QED
      BY <2>5, <2>7 DEF EmptyNeedsBadFile
<1>3. CASE UNCHANGED vars
  <2>1. UNCHANGED <<conf, ended, m_image_filenames>>
      BY <1>3 DEF vars
  <2>2. \A p \in Part : /\ Reader(p)' <=> Reader(p)
                        /\ ListCamera(p)' <=> ListCamera(p)
                        /\ Producers(p)' = Producers(p)
      BY <2>1, SameConf
  <2>3. \A p \in Part : \A c \in Producers(p) : c \in Part
      BY DEF Producers
  <2> QED
      BY <2>1, <2>2, <2>3 DEF EmptyNeedsBadFile
<1> QED
    BY <1>1, <1>2, <1>3, EndCases DEF EmptyNeedsBadFile

\* In the turn of a reader after one unthreaded camera, it has its Image.
LEMMA FollowerInput ==
    ASSUME TypeOK, DataInv, InputInv, NEW p \in Part, NEW c \in Part,
           Follows(p, c), part = p, at = "update"
    PROVE  m_input[p] = c
<1>0. conf \in Configs
    BY DEF TypeOK
<1>1. m_input[p] = get(conf.in[p])
    BY DEF InputInv, Follows
<1>2. c \in Producers(p) /\ Camera(c) /\ c < part
    BY DEF Follows
<1>3. m_data[conf.in[p]] # Absent
    BY <1>2, TopicFacts DEF Looping
<1>4. PICK q \in Producers(p) : q \in Part /\ get(conf.in[p]) = m_output(q)
    BY <1>3, TopicFacts
<1>5. q = c
    BY <1>4 DEF Follows
<1> QED
    BY <1>0, <1>1, <1>2, <1>4, <1>5, OutputFacts

\* Every step keeps that readers have worked on what the output holds.
LEMMA SeenStep ==
    ASSUME TypeOK, StartInv, DataInv, InputInv, StepInv, HeldInv,
           SeenInv, [Next]_vars
    PROVE  SeenInv'
<1> USE RefFacts
<1>0. conf \in Configs /\ UNCHANGED conf
  <2>1. CASE \E p \in Part : Update(p)
      BY <2>1, UpdateMain DEF TypeOK
  <2>2. CASE ~\E p \in Part : Update(p)
      BY <2>2, MainFacts DEF TypeOK
  <2> QED
      BY <2>1, <2>2
<1>1. \A p, c \in Part : Follows(p, c)' <=> Follows(p, c)
    BY <1>0, SameConf
<1>2. SUFFICES ASSUME NEW p \in Part, NEW c \in Part, Follows(p, c),
                      ended' = "no", Looping', frame'[c] # 0,
                      part' > p \/ (part' = p /\ at' = "put")
               PROVE  seen'[p] = frame'[c]
    BY <1>1 DEF SeenInv, HadTurn
<1>3. /\ Reader(p) /\ ~Publisher(p) /\ ~Threaded(p) /\ ~Threaded(c)
      /\ Camera(c) /\ c < p /\ c # p
      /\ part \in Nat /\ p \in Nat /\ c \in Nat
    BY <1>0, <1>2, KindFacts DEF Follows, TypeOK
<1>4. ASSUME UNCHANGED <<seen[p], frame[c]>>, ended = "no", Looping,
             part > p \/ (part = p /\ at = "put")
      PROVE  seen'[p] = frame'[c]
    BY <1>2, <1>4 DEF SeenInv, HadTurn
<1>5. CASE get_env_var \/ construct
  <2>1. CASE get_env_var /\ ~\E how : End(how)
      BY <1>2, <2>1 DEF get_env_var, Looping
  <2>2. CASE construct /\ ~\E how : End(how)
    <3>1. (at' = "get" /\ part' = 1) \/ at' = "construct"
        BY <2>2, ConstructFacts
    <3> QED
        BY <1>2, <1>3, <3>1 DEF Looping
  <2>3. CASE \E how : End(how)
    <3>1. at' = at
        BY <2>3, EndFacts
    <3> QED
        BY <1>2, <1>5, <3>1 DEF get_env_var, construct, Looping
  <2> QED
      BY <1>5, <2>1, <2>2, <2>3
<1>6. CASE get_input \/ run \/ put
  <2>1. ended = "no" /\ Looping /\ UNCHANGED <<seen[p], frame[c]>>
      BY <1>6, LoopFacts
  <2>2. CASE UNCHANGED part
    <3>1. part = p => at' # "put"
        BY <1>3, <1>6, <2>2, LoopFacts
    <3> QED
        BY <1>2, <1>4, <2>1, <2>2, <3>1
  <2>3. CASE /\ at = "put" /\ at' = "get"
             /\ part' = 1 \/ part' = part + 1
    <3>1. part > p \/ part = p
        BY <1>2, <1>3, <2>3
    <3> QED
        BY <1>4, <2>1, <2>3, <3>1
  <2> QED
      BY <1>6, <2>2, <2>3, LoopFacts
<1>7. ASSUME NEW q \in Part, Update(q) PROVE seen'[p] = frame'[c]
  <2>1. /\ UNCHANGED <<part, m_input>> /\ ended = "no" /\ Looping
        /\ at' = at \/ (at = "update" /\ at' = "put" /\ part = q)
      BY <1>7, UpdateMain
  <2>2. Move(q)
      BY <1>2, <1>7, UpdateCases DEF Death
  <2>3. CASE q # p
    <3>1. q # c
        BY <1>2, <1>3, <2>1, <2>2 DEF Move
    <3>2. UNCHANGED <<seen[p], frame[c]>>
        BY <2>2, <2>3, <3>1 DEF Move, OthersKept
    <3> QED
        BY <1>2, <1>4, <2>1, <2>3, <3>2
  <2>4. CASE q = p
    <3>1. at = "update" /\ part = p /\ at' = "put"
        BY <1>2, <1>3, <2>1, <2>2, <2>4 DEF Move
    <3>2. m_input[p] = c
        BY <1>2, <3>1, FollowerInput
    <3>3. step'[p] = "idle" /\ ReaderMove(p) /\ OthersKept(p)
      <4>1. Reader(p) /\ ~Camera(p)
          BY <1>0, <1>3, KindFacts
      <4> QED
          BY <2>2, <2>4, <3>1, <4>1 DEF Move
    <3>4. step[p] \in {"check", "use"} /\ frame'[c] = frame[c]
        BY <1>3, <3>3 DEF ReaderMove, OthersKept
    <3>5. held[p] = c
        BY <1>3, <3>2, <3>4 DEF HeldInv
    <3>6. step[c] = "idle"
        BY <1>3, <3>1 DEF StepInv
    <3>7. Picture(c) = frame[c] /\ ~Writing(c)
        BY <3>6 DEF Picture, Writing
    <3> QED
        BY <1>2, <3>2, <3>3, <3>4, <3>5, <3>7 DEF ReaderMove
  <2> QED
      BY <2>3, <2>4
<1>8. CASE UNCHANGED vars
    BY <1>2, <1>4, <1>8 DEF vars, mainVars, camVars, Looping
<1> QED
    BY <1>5, <1>6, <1>7, <1>8 DEF Next, Terminated

\* Only reading the next file moves an index, that of the camera itself.
LEMMA IndexFacts ==
    ASSUME TypeOK, NEW p \in Part, Update(p)
    PROVE  /\ list_camera_read(p) \/ UNCHANGED m_frame_i
           /\ \A c \in Part : c # p => m_frame_i'[c] = m_frame_i[c]
<1>1. list_camera_read(p) \/ UNCHANGED m_frame_i
    BY EndFacts, WorkCases
    DEF Update, list_camera_assign, web_camera_capture, web_camera_captured,
        web_camera_assign, reader_deref, reader_check, camVars
<1>2. \A c \in Part : c # p => m_frame_i'[c] = m_frame_i[c]
    BY <1>1 DEF list_camera_read, TypeOK
<1> QED
    BY <1>1, <1>2

\* Every step keeps that a list camera holds the file of its turn.
LEMMA TurnStep ==
    ASSUME TypeOK, StartInv, TurnInv, [Next]_vars
    PROVE  TurnInv'
<1> USE RefFacts
<1>0. conf \in Configs /\ UNCHANGED conf
  <2>1. CASE \E p \in Part : Update(p)
      BY <2>1, UpdateMain DEF TypeOK
  <2>2. CASE ~\E p \in Part : Update(p)
      BY <2>2, MainFacts DEF TypeOK
  <2> QED
      BY <2>1, <2>2
<1>1. \A c \in Part : /\ ListCamera(c)' <=> ListCamera(c)
                      /\ Threaded(c)' <=> Threaded(c)
    BY <1>0, SameConf
<1>2. SUFFICES ASSUME NEW c \in Part, ListCamera(c), ~Threaded(c), Looping',
                      part' > c \/ (part' = c /\ at' = "put"),
                      m_image_filenames' # <<>>
               PROVE  frame'[c] = imread(m_frame_i[c])'
    BY <1>1 DEF TurnInv, HadTurn
<1>3. part \in Nat /\ c \in Nat /\ ~Publisher(c) /\ ~WebCamera(c) /\ ~Reader(c)
    BY <1>0, <1>2, KindFacts DEF TypeOK, Camera
<1>4. ASSUME UNCHANGED <<m_image_filenames, frame[c]>>,
             m_frame_i'[c] = m_frame_i[c], Looping,
             part > c \/ (part = c /\ at = "put")
      PROVE  frame'[c] = imread(m_frame_i[c])'
  <2>1. frame[c] = imread(m_frame_i[c])
      BY <1>2, <1>4 DEF TurnInv, HadTurn
  <2> QED
      BY <1>4, <2>1 DEF imread
<1>5. CASE (get_env_var \/ construct) /\ ~\E how : End(how)
  <2>1. CASE get_env_var
      BY <1>2, <1>5, <2>1 DEF get_env_var, Looping
  <2>2. CASE construct
    <3>1. (at' = "get" /\ part' = 1) \/ at' = "construct"
        BY <1>5, <2>2, ConstructFacts
    <3> QED
        BY <1>2, <1>3, <3>1 DEF Looping
  <2> QED
      BY <1>5, <2>1, <2>2
<1>6. CASE get_input \/ run \/ put
  <2>1. /\ Looping /\ UNCHANGED <<m_image_filenames, frame[c]>>
        /\ m_frame_i'[c] = m_frame_i[c]
      BY <1>6, LoopFacts
  <2>2. CASE UNCHANGED part
    <3>1. part = c => at' # "put"
        BY <1>2, <1>3, <1>6, <2>2, LoopFacts
    <3> QED
        BY <1>2, <1>4, <2>1, <2>2, <3>1
  <2>3. CASE /\ at = "put" /\ at' = "get"
             /\ part' = 1 \/ part' = part + 1
    <3>1. part > c \/ part = c
        BY <1>2, <1>3, <2>3
    <3> QED
        BY <1>4, <2>1, <2>3, <3>1
  <2> QED
      BY <1>6, <2>2, <2>3, LoopFacts
<1>7. ASSUME NEW q \in Part, Update(q) PROVE frame'[c] = imread(m_frame_i[c])'
  <2>1. /\ UNCHANGED <<part, m_image_filenames>> /\ Looping
        /\ at' = at \/ (at = "update" /\ at' = "put" /\ part = q)
      BY <1>7, UpdateMain
  <2>2. CASE q # c
    <3>1. UNCHANGED frame[c] /\ m_frame_i'[c] = m_frame_i[c]
        BY <1>7, <2>2, UpdateCases, IndexFacts DEF Move, OthersKept, Death
    <3> QED
        BY <1>2, <1>4, <2>1, <2>2, <3>1
  <2>3. CASE q = c
    <3>1. list_camera_read(c) \/ list_camera_assign(c)
        BY <1>3, <1>7, <2>3, WorkCases
        DEF Update, web_camera_capture, web_camera_captured, web_camera_assign,
            reader_deref, reader_check, reader_use, predict, Reader, Pilot
    <3>2. CASE list_camera_read(c)
      <4>1. Goto(c, "idle", "assign")
          BY <1>2, <2>1, <3>2 DEF list_camera_read
      <4>2. at' = "update" /\ part = c
          BY <1>2, <4>1 DEF Goto, At
      <4> QED
          BY <1>2, <1>3, <2>1, <4>2
    <3>3. CASE list_camera_assign(c)
      <4>1. /\ frame'[c] = imread(m_frame_i[c])
            /\ UNCHANGED <<m_frame_i, m_image_filenames>>
          BY <2>1, <3>3 DEF list_camera_assign, TypeOK
      <4> QED
          BY <4>1 DEF imread
    <3> QED
        BY <3>1, <3>2, <3>3
  <2> QED
      BY <2>2, <2>3
<1>8. CASE UNCHANGED <<conf, m_image_filenames, at, part, input, m_data,
                       m_input, frame, m_frame_i, m_frame, shares, step,
                       held, seen>>
    BY <1>2, <1>4, <1>8 DEF Looping
<1> QED
    BY <1>5, <1>6, <1>7, <1>8, StepActors

\* Every step keeps that a shared buffer shows the capture.
LEMMA ShareStep ==
    ASSUME TypeOK, StartInv, StepInv, ShareInv, [Next]_vars
    PROVE  ShareInv'
<1> USE RefFacts
<1>0. /\ frame \in [Part -> Nat] /\ m_frame \in [Part -> 0..Scenes]
      /\ shares \in [Part -> BOOLEAN] /\ conf \in Configs
    BY DEF TypeOK
<1>1. ASSUME UNCHANGED <<frame, m_frame, shares>> PROVE ShareInv'
    BY <1>1 DEF ShareInv
<1>2. CASE ~\E p \in Part : Update(p)
    BY <1>1, <1>2, MainFacts
<1>3. ASSUME NEW p \in Part, Update(p) PROVE ShareInv'
  <2>1. CASE list_camera_assign(p)
    <3>1. ~shares[p]
        BY <1>0, <2>1, KindFacts DEF list_camera_assign, StepInv
    <3> QED
        BY <1>0, <2>1, <3>1 DEF list_camera_assign, ShareInv
  <2>2. CASE web_camera_captured(p)
    <3>1. PICK picture \in {0, (m_frame[p] % Scenes) + 1} :
            /\ m_frame' = [m_frame EXCEPT ![p] = picture]
            /\ frame' = IF shares[p] /\ picture # 0
                        THEN [frame EXCEPT ![p] = picture] ELSE frame
            /\ shares' = [shares EXCEPT ![p] = @ /\ picture # 0]
        BY <2>2 DEF web_camera_captured
    <3>2. shares'[p] => frame'[p] = m_frame'[p]
        BY <1>0, <3>1
    <3>3. \A c \in Part \ {p} : /\ frame'[c] = frame[c]
                                /\ m_frame'[c] = m_frame[c]
                                /\ shares'[c] <=> shares[c]
        BY <1>0, <3>1
    <3> QED
        BY <3>2, <3>3 DEF ShareInv
  <2>3. CASE web_camera_assign(p)
      BY <1>0, <2>3 DEF web_camera_assign, ShareInv
  <2>4. CASE \/ list_camera_read(p) \/ web_camera_capture(p)
             \/ reader_deref(p) \/ reader_check(p)
      BY <1>1, <2>4, EndFacts
      DEF list_camera_read, web_camera_capture, reader_deref, reader_check,
          camVars
  <2>5. CASE reader_use(p) \/ predict(p)
      BY <1>1, <2>5, EndFacts, WorkCases DEF camVars
  <2> QED
      BY <1>3, <2>1, <2>2, <2>3, <2>4, <2>5 DEF Update
<1> QED
    BY <1>2, <1>3

-----------------------------------------------------------------------------
(***************************************************************************)
(* The theorems.                                                           *)
(***************************************************************************)
\* The invariant holds when main() begins.
LEMMA InitPipeline ==
    ASSUME Init
    PROVE  PipelineInv
<1> USE RefFacts
<1>1. TypeOK
    BY DEF Init, TypeOK, Endings
<1>2. ~Looping /\ ended = "no"
    BY DEF Init, Looping
<1>3. StartInv
    BY <1>2 DEF Init, StartInv
<1>4. FilesInv
    BY DEF Init, FilesInv
<1>5. DataInv /\ InputInv
  <2>1. DataInv
      BY <1>2, ConfFacts DEF Init, DataInv
  <2>2. InputInv
      BY <1>2 DEF Init, InputInv
  <2> QED
      BY <2>1, <2>2
<1>6. StepInv /\ HeldInv /\ FrameInv
    BY DEF Init, StepInv, HeldInv, FrameInv
<1>7. /\ NoNullInput /\ RacesNeedThreads /\ EmptyNeedsBadFile
      /\ SeenInv /\ TurnInv
    BY <1>2 DEF NoNullInput, RacesNeedThreads, EmptyNeedsBadFile, SeenInv,
                TurnInv, HadTurn
<1>8. ShareInv
    BY DEF Init, ShareInv
<1> QED
    BY <1>1, <1>3, <1>4, <1>5, <1>6, <1>7, <1>8 DEF PipelineInv

\* Every step of main() and of the threads preserves the invariant.
LEMMA NextPipeline ==
    ASSUME PipelineInv, [Next]_vars
    PROVE  PipelineInv'
<1>1. /\ TypeOK /\ StartInv /\ FilesInv /\ DataInv /\ InputInv /\ StepInv
      /\ HeldInv /\ FrameInv
      /\ NoNullInput /\ RacesNeedThreads /\ EmptyNeedsBadFile
      /\ SeenInv /\ TurnInv /\ ShareInv
    BY DEF PipelineInv
<1>2. TypeOK' /\ StartInv' /\ FilesInv' /\ DataInv' /\ InputInv'
    BY <1>1, TypeStep, StartStep, FilesStep, DataStep, InputStep
<1>3. StepInv' /\ HeldInv' /\ FrameInv'
    BY <1>1, StepStep, HeldStep, FrameStep
<1>4. NoNullInput' /\ RacesNeedThreads' /\ EmptyNeedsBadFile'
    BY <1>1, NullStep, RaceStep, EmptyStep
<1>5. SeenInv' /\ TurnInv' /\ ShareInv'
    BY <1>1, SeenStep, TurnStep, ShareStep
<1> QED
    BY <1>2, <1>3, <1>4, <1>5 DEF PipelineInv

\* The inductive invariant of the data flow.
THEOREM PipelineInvariant == Spec => []PipelineInv
  BY InitPipeline, NextPipeline, PTL DEF Spec

\* Type correctness, in particular of the pointers in Memory.
THEOREM PipelineTypes == Spec => []TypeOK
<1>1. PipelineInv => TypeOK
    BY DEF PipelineInv
<1> QED
    BY <1>1, PipelineInvariant, PTL

\* update() of a part that comes after a producer of its topic never follows
\* a null pointer, however the parts are threaded: Vehicle::update_parts puts
\* before it gets, and constructors leave an input.
THEOREM InputsAreSet == Spec => []NoNullInput
<1>1. PipelineInv => NoNullInput
    BY DEF PipelineInv
<1> QED
    BY <1>1, PipelineInvariant, PTL

\* Without threaded parts no frame is torn, emptied or freed in use.
THEOREM UnthreadedFramesAreSafe == Spec => []RacesNeedThreads
<1>1. PipelineInv => RacesNeedThreads
    BY DEF PipelineInv
<1> QED
    BY <1>1, PipelineInvariant, PTL

\* A frame that passed the test for an empty one is empty in use only when
\* the topic has two producers or a file of the list camera cannot be read.
THEOREM EmptyFramesExplained == Spec => []EmptyNeedsBadFile
<1>1. PipelineInv => EmptyNeedsBadFile
    BY DEF PipelineInv
<1> QED
    BY <1>1, PipelineInvariant, PTL

\* A reader that has had its turn in a round of update_parts has worked on
\* the file its list camera went on to in this round, if that can be read; or
\* on its web camera's capture, if that is in the pixels of the output.
THEOREM ReadersKeepUp == Spec => []ReadersAreCurrent
<1>1. ASSUME PipelineInv PROVE ReadersAreCurrent
  <2>1. SUFFICES ASSUME NEW p \in Part, NEW c \in Part, Follows(p, c),
                        HadTurn(p), ended = "no"
                 PROVE  /\ ListCamera(c) /\ m_image_filenames # <<>>
                           /\ imread(m_frame_i[c]) # 0 =>
                                seen[p] = imread(m_frame_i[c])
                        /\ WebCamera(c) /\ shares[c] => seen[p] = m_frame[c]
      BY DEF ReadersAreCurrent
  <2>2. frame[c] # 0 => seen[p] = frame[c]
      BY <1>1, <2>1 DEF PipelineInv, SeenInv
  <2>3. HadTurn(c) /\ ~Threaded(c)
    <3>1. c < p /\ part \in Nat /\ p \in Nat /\ c \in Nat
        BY <1>1, <2>1, RefFacts DEF Follows, PipelineInv, TypeOK
    <3> QED
        BY <2>1, <3>1 DEF HadTurn, Follows
  <2>4. ListCamera(c) /\ m_image_filenames # <<>> =>
            frame[c] = imread(m_frame_i[c])
      BY <1>1, <2>3 DEF PipelineInv, TurnInv
  <2>5. shares[c] => frame[c] # 0 /\ frame[c] = m_frame[c]
      BY <1>1 DEF PipelineInv, StepInv, ShareInv
  <2> QED
      BY <2>2, <2>4, <2>5
<1> QED
    BY <1>1, PipelineInvariant, PTL

\* Part::run assigns the same Image again and again.
THEOREM InputsSettle == Spec => InputSettles
<1>1. ASSUME PipelineInv, [Next]_vars
      PROVE  [\A p \in Part :
                Reader(p) /\ WellPlaced(p) /\ m_input[p] \in Part
                /\ (\A q, r \in Producers(p) : q = r)
                => m_input'[p] = m_input[p]]_vars
  <2>1. TypeOK /\ StartInv /\ DataInv /\ InputInv
      BY <1>1 DEF PipelineInv
  <2> QED
      BY <1>1, <2>1, InputKept DEF Single
<1> QED
    BY <1>1, PipelineInvariant, PTL DEF Spec, InputSettles

\* A remainder below the divisor, and at it.
LEMMA SmallRemainders ==
    ASSUME NEW n \in Nat, n > 0
    PROVE  /\ \A m \in Nat : m < n => m % n = m
           /\ n % n = 0
  BY SMTT(30)

\* The file after the i-th of a sorted list has the next larger number, and
\* after the last comes the one with the smallest.
LEMMA NextInOrder ==
    ASSUME NEW files \in Seq(Entry), files # <<>>,
           \A i, j \in 1..Len(files) : i <= j => files[i].token <= files[j].token,
           NEW i \in Nat, i < Len(files), NEW j, j = (i + 1) % Len(files)
    PROVE  \/ /\ files[j + 1].token >= files[i + 1].token
              /\ \A n \in 0..(Len(files) - 1) :
                    ~(/\ files[i + 1].token < files[n + 1].token
                      /\ files[n + 1].token < files[j + 1].token)
           \/ \A n \in 0..(Len(files) - 1) :
                /\ files[j + 1].token <= files[n + 1].token
                /\ files[n + 1].token <= files[i + 1].token
<1> DEFINE L == Len(files)
           T(n) == files[n + 1].token
<1>1. L \in Nat /\ L > 0
    OBVIOUS
<1>2. \A n \in 0..(L - 1) : T(n) \in Int
  <2>1. SUFFICES ASSUME NEW n \in 0..(L - 1) PROVE T(n) \in Int
      OBVIOUS
  <2>2. n + 1 \in 1..L
      BY <1>1
  <2>3. files[n + 1] \in Entry
      BY <2>2
  <2> QED
      BY <2>3 DEF Entry
<1>3. \A n, m \in 0..(L - 1) : n <= m => T(n) <= T(m)
  <2>1. SUFFICES ASSUME NEW n \in 0..(L - 1), NEW m \in 0..(L - 1), n <= m
                 PROVE  T(n) <= T(m)
      OBVIOUS
  <2>2. n + 1 \in 1..L /\ m + 1 \in 1..L /\ n + 1 <= m + 1
      BY <1>1, <2>1
  <2> QED
      BY <2>2
<1> HIDE DEF L, T
<1>4. i \in 0..(L - 1)
    BY <1>1 DEF L
<1>5. CASE i + 1 < L
  <2>1. j = i + 1
      BY <1>1, <1>5, SmallRemainders DEF L
  <2>2. j \in 0..(L - 1) /\ i <= j
      BY <1>1, <1>4, <1>5, <2>1
  <2>3. T(i) \in Int /\ T(j) \in Int /\ T(i) <= T(j)
      BY <1>2, <1>3, <1>4, <2>2
  <2>4. ASSUME NEW n \in 0..(L - 1) PROVE ~(T(i) < T(n) /\ T(n) < T(j))
    <3>1. n <= i \/ j <= n
        BY <1>1, <2>1
    <3>2. T(n) <= T(i) \/ T(j) <= T(n)
        BY <1>3, <1>4, <2>2, <3>1
    <3>3. T(n) \in Int
        BY <1>2
    <3> QED
        BY <2>3, <3>2, <3>3
  <2> QED
      BY <2>3, <2>4 DEF T, L
<1>6. CASE i + 1 = L
  <2>1. j = 0
      BY <1>1, <1>6, SmallRemainders DEF L
  <2>2. j \in 0..(L - 1)
      BY <1>1, <2>1
  <2>3. ASSUME NEW n \in 0..(L - 1) PROVE T(j) <= T(n) /\ T(n) <= T(i)
    <3>1. j <= n /\ n <= i
        BY <1>1, <1>6, <2>1
    <3> QED
        BY <1>3, <1>4, <2>2, <3>1
  <2> QED
      BY <2>3 DEF T, L
<1> QED
    BY <1>1, <1>4, <1>5, <1>6

\* ImageListCamera goes through its files in the order of their numbers.
THEOREM FilesInOrder == Spec => NumericOrder
<1> DEFINE number(i) == m_image_filenames[i + 1].token
<1>1. ASSUME PipelineInv, [Next]_vars, NEW c \in Part,
             m_frame_i'[c] # m_frame_i[c]
      PROVE  GoesInOrder(c)
  <2>1. /\ TypeOK /\ FilesInv /\ m_frame_i[c] \in Nat
        /\ m_image_filenames \in Seq(Entry)
      BY <1>1 DEF PipelineInv, TypeOK
  <2>2. PICK p \in Part : list_camera_read(p)
    <3>1. CASE get_env_var \/ get_input \/ run \/ put
        BY <1>1, <3>1, EndFacts DEF get_env_var, get_input, run, put, camVars
    <3>2. CASE construct
        BY <1>1, <2>1, <3>2, ConstructFacts, EndFacts
    <3>3. ASSUME NEW p \in Part, Update(p), ~list_camera_read(p)
          PROVE  UNCHANGED m_frame_i
        BY <3>3, EndFacts, WorkCases
        DEF Update, list_camera_assign, web_camera_capture, web_camera_captured,
            web_camera_assign, reader_deref, reader_check, camVars
    <3>4. CASE UNCHANGED vars
        BY <1>1, <3>4 DEF vars, camVars
    <3> QED
        BY <1>1, <3>1, <3>2, <3>3, <3>4 DEF Next, Terminated
  <2>3. /\ m_image_filenames # <<>>
        /\ m_frame_i'[c] = (m_frame_i[c] + 1) % Len(m_image_filenames)
    <3>1. /\ m_image_filenames # <<>>
          /\ m_frame_i' = [m_frame_i EXCEPT ![p] = next_file(p)]
        BY <1>1, <2>2 DEF list_camera_read
    <3>2. c = p /\ m_frame_i'[c] = next_file(c)
        BY <1>1, <2>1, <3>1 DEF TypeOK
    <3> QED
        BY <3>1, <3>2 DEF next_file
  <2>4. m_frame_i[c] < Len(m_image_filenames)
      BY <2>1, <2>3 DEF FilesInv
  <2>5. \/ /\ number(m_frame_i'[c]) >= number(m_frame_i[c])
           /\ \A n \in 0..(Len(m_image_filenames) - 1) :
                ~(/\ number(m_frame_i[c]) < number(n)
                  /\ number(n) < number(m_frame_i'[c]))
        \/ \A n \in 0..(Len(m_image_filenames) - 1) :
                /\ number(m_frame_i'[c]) <= number(n)
                /\ number(n) <= number(m_frame_i[c])
      BY <2>1, <2>3, <2>4, NextInOrder DEF FilesInv
  <2> QED
      BY <2>5 DEF GoesInOrder
<1>2. ASSUME PipelineInv, [Next]_vars
      PROVE  [\A c \in Part : m_frame_i'[c] # m_frame_i[c] => GoesInOrder(c)]_vars
    BY <1>1, <1>2
<1> QED
    BY <1>2, PipelineInvariant, PTL DEF Spec, NumericOrder

=============================================================================
