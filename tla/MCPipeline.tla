----------------------------- MODULE MCPipeline -----------------------------
(***************************************************************************)
(* Instances of Pipeline for TLC: three parts, in every order and with     *)
(* every choice of threads.                                                *)
(***************************************************************************)
EXTENDS Pipeline

MCTopics == {"", "cam/image", "vision-out"}

\* The parts main() knows: kind, input topic, output topic.
list_camera   == <<"list_camera", "", "cam/image">>
web_camera    == <<"web_camera", "", "cam/image">>
line_follower == <<"line_follower", "cam/image", "vision-out">>
consumer      == <<"consumer", "cam/image", "">>
publisher     == <<"publisher", "cam/image", "">>
pilot         == <<"pilot", "cam/image", "">>

file(n)    == [jpg |-> TRUE, token |-> n, readable |-> TRUE]
broken(n)  == [jpg |-> TRUE, token |-> n, readable |-> FALSE]
other      == [jpg |-> FALSE, token |-> -1, readable |-> FALSE]
unnumbered == [jpg |-> TRUE, token |-> -1, readable |-> TRUE]

directory(files) == [set |-> TRUE, exists |-> TRUE, entries |-> files]

good_model ==
    [file |-> TRUE, built |-> TRUE, allocated |-> TRUE, float |-> TRUE]

configuration(parts, threads, dir, model) ==
    [kind     |-> [p \in Part |-> parts[p][1]],
     in       |-> [p \in Part |-> parts[p][2]],
     out      |-> [p \in Part |-> parts[p][3]],
     threaded |-> threads,
     dir      |-> dir,
     model    |-> model]

Orders(a, b, c) ==
    {<<a, b, c>>, <<a, c, b>>, <<b, a, c>>, <<b, c, a>>, <<c, a, b>>,
     <<c, b, a>>}

\* The vehicle of main() in all orders.
FileVehicles(files) ==
    {configuration(parts, threads, directory(files), good_model) :
        parts \in Orders(list_camera, line_follower, consumer),
        threads \in SUBSET Part}

WebVehicles ==
    {configuration(parts, threads, directory(<<>>), good_model) :
        parts \in Orders(web_camera, consumer, publisher),
        threads \in SUBSET Part}

\* Two cameras on one topic.
TwoCameras ==
    {configuration(parts, threads, directory(<<file(1)>>), good_model) :
        parts \in Orders(list_camera, web_camera, consumer),
        threads \in {{}, {3}}}

\* A line follower that writes the topic it reads.
OneTopic ==
    {configuration(<<list_camera, <<"line_follower", "cam/image", "cam/image">>,
                     consumer>>,
                   {3}, directory(<<file(1)>>), good_model)}

\* What main() may find: other directories, and models that do not load.
Surroundings ==
    {configuration(<<list_camera, pilot, consumer>>, {}, dir, model) :
        dir \in {directory(<<>>), directory(<<unnumbered>>),
                 directory(<<file(2), file(2), file(1)>>),
                 directory(<<unnumbered, file(1)>>),
                 [set |-> FALSE, exists |-> FALSE, entries |-> <<>>],
                 [set |-> TRUE, exists |-> FALSE, entries |-> <<>>]},
        model \in {good_model,
                   [good_model EXCEPT !.file = FALSE],
                   [good_model EXCEPT !.built = FALSE],
                   [good_model EXCEPT !.allocated = FALSE],
                   [good_model EXCEPT !.float = FALSE]}}

MCConfigs ==
    FileVehicles(<<file(10), other, broken(9), file(2)>>)
    \cup WebVehicles \cup TwoCameras \cup OneTopic \cup Surroundings

\* The vehicle of main() in its order.
MainConfigs ==
    {configuration(<<list_camera, line_follower, consumer>>, threads,
                   directory(<<file(1), file(2)>>), good_model) :
        threads \in SUBSET Part}

\* A web camera and a reader, without threads.
WebConfigs ==
    {configuration(<<web_camera, consumer, publisher>>, {}, directory(<<>>),
                   good_model)}
=============================================================================
