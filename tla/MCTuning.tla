------------------------------ MODULE MCTuning ------------------------------
(* The two halves of the tuning tool, checked side by side: what an edit   *)
(* does to the text (module Configuration) and what a session does to the  *)
(* file, the service and the transmitter (module Tuning).  The halves      *)
(* share no state; `lane' says which of them a behaviour is of.            *)
EXTENDS Tuning, Configuration

VARIABLE lane

Nodes == {"n1", "n2", "n3"}

AllSettings(standalone) ==
    UNION {{kind} \X OfferedKeys(kind, standalone) : kind \in DOMAIN FullCatalog}

Ends(lines) == [lines |-> lines, ended |-> TRUE]

\* The settings whose combinations the resolver judges.
Entangled == {<<"receive", Cos>>, <<"receive", VadMode>>,
              <<"receive", <<"receive", "signaling_method">>>>,
              <<"transmit", <<"transmit", "signaling_method">>>>,
              <<"ctcss", <<"ctcss", "receive_frequencies">>>>,
              <<"hardware", <<"hardware", "output_a_assignment">>>>,
              <<"hardware", <<"hardware", "parallel_pin_2">>>>}

Plain == Ends(<<Text, Header(ChannelSection("n1"))>>)

Profiles ==
    Ends(<<Header(Flat("hardware")), Assign(<<"hardware", "serial">>, Word("s0")), Text,
           Header(ChannelSection("n1")), Assign(Selector("hardware"), Word("n2")),
           Assign(Selector("receive"), Word("missing")), Text,
           Header(ChannelSection("n2")),
           Header(Scoped("hardware", "n2")),
           Assign(<<"hardware", "device_identifier">>, Word("d2")),
           Assign(<<"hardware", "parallel_pin_2">>, Word("ptt")), Text,
           Header(Scoped("receive", "n1")), Assign(Cos, Word("no")),
           Header(Flat("receive")), Assign(VadMode, Word("kerchunk"))>>)

Stations ==
    Ends(<<Header(Flat("hardware")), Assign(<<"hardware", "serial">>, Word("s0")),
           Header(ChannelSection("n1")), Assign(Selector("hardware"), Word("n1")),
           Header(ChannelSection("n2")), Text,
           Header(ChannelSection("n3")),
           Header(Scoped("hardware", "n1")),
           Assign(<<"hardware", "device_identifier">>, Word("d1")),
           Header(Scoped("hardware", "n3")),
           Assign(<<"hardware", "device_identifier">>, Word("d3")),
           Assign(<<"hardware", "gpio_usb_port_path">>, Word("p3")),
           Assign(<<"hardware", "serial">>, Word("s3"))>>)

NativePlain ==
    Ends(<<Text, Header(Radio), Header(ChannelSection("n1"))>>)

NativeScoped ==
    Ends(<<Header(Radio), Assign(NativeKey("squelch_level"), Num(300)), Text,
           Header(RadioOf("n1")), Assign(NativeKey("carrier_source"), Word("disabled")),
           Header(ChannelSection("n1")), Assign(Selector("ctcss"), Word("n2")),
           Header(ChannelSection("n2")), Header(Scoped("ctcss", "n2")),
           Header(Flat("transmit"))>>)

\* An operator's editor need not end the last line: a value, a value with a
\* comment behind it, a header and a comment.
Unended(lines) == [lines |-> lines, ended |-> FALSE]

Levels == <<"receive", "squelch_level">>
Serial == <<"hardware", "serial">>

LastValue ==
    Unended(<<Header(ChannelSection("n1")), Header(Flat("hardware")), Text,
              Assign(<<"hardware", "device_identifier">>, Commented(Word("d1"))),
              Header(Flat("receive")), Assign(Levels, Num(300))>>)

LastHeader ==
    Unended(<<Header(Radio), Assign(NativeKey("squelch_level"), Commented(Num(300))),
              Header(Scoped("ctcss", "n2")), Header(ChannelSection("n1"))>>)

LastComment ==
    Unended(<<Header(Flat("hardware")), Assign(Serial, Commented(Word("s0"))), Text,
              Header(ChannelSection("n1")), Header(ChannelSection("n2")),
              Header(Scoped("hardware", "n1")), Assign(Serial, Word("s1")),
              Header(Scoped("hardware", "n2")), Assign(Serial, Commented(Word("s2")))>>)

UnfinishedDocuments ==
    {[standalone |-> FALSE, text |-> LastValue, selected |-> {"hardware"}, depth |-> 2,
      edited |-> {<<"receive", Levels>>, <<"receive", Cos>>, <<"hardware", Serial>>}],
     [standalone |-> TRUE, text |-> LastHeader, selected |-> {"ctcss"}, depth |-> 2,
      edited |-> {<<"receive", Levels>>, <<"receive", Cos>>, <<"hardware", Serial>>}],
     [standalone |-> FALSE, text |-> LastComment, selected |-> {"hardware"}, depth |-> 2,
      edited |-> {<<"receive", Levels>>, <<"hardware", Serial>>}],
     [standalone |-> FALSE, text |-> Unended(<<Header(ChannelSection("n1")),
                                               Header(Flat("receive")), Text>>),
      selected |-> {}, depth |-> 2, edited |-> {<<"receive", Levels>>, <<"receive", Cos>>}]}

OperatorsDocuments == UnfinishedDocuments \cup
    {[standalone |-> FALSE, text |-> Plain, edited |-> AllSettings(FALSE),
      selected |-> {}, depth |-> 1],
     [standalone |-> FALSE, text |-> Ends(<<Text>>), edited |-> Entangled,
      selected |-> {}, depth |-> 1],
     [standalone |-> FALSE, text |-> Profiles, edited |-> Entangled,
      selected |-> {"hardware", "receive", "ctcss", "local"}, depth |-> 2],
     [standalone |-> FALSE, text |-> Stations,
      edited |-> {<<"hardware", Serial>>}, selected |-> {"hardware"}, depth |-> 3],
     [standalone |-> TRUE, text |-> NativePlain, edited |-> AllSettings(TRUE),
      selected |-> {}, depth |-> 1],
     [standalone |-> TRUE, text |-> Ends(<<Header(ChannelSection("n1"))>>), edited |-> Entangled,
      selected |-> {"hardware", "receive", "ctcss", "local"}, depth |-> 2],
     [standalone |-> TRUE, text |-> NativeScoped, edited |-> Entangled,
      selected |-> {"hardware", "receive", "ctcss", "local"}, depth |-> 2]}

\* Two tools, one of which may be killed, or a session with Asterisk long
\* enough for an operation to follow two that failed.
MCTunerBudgets ==
    {[operations |-> 2, starts |-> 2, crashes |-> 1],
     [operations |-> 3, starts |-> 1, crashes |-> 0]}

---------------------------------------------------------------------------

Init ==
    /\ DocumentInit /\ TunerInit
    /\ lane \in {"document", "session"}
    /\ lane = "document" => backend = "standalone" /\ tunerBudget.operations = 2
    /\ tunerBudget.operations > 2 => backend = "asterisk" /\ disk.file = Sample
    /\ lane = "session" => start = CHOOSE d \in Documents : TRUE

Next ==
    \/ lane = "document" /\ DocumentNext /\ UNCHANGED <<lane, tunerVars>>
    \/ lane = "session" /\ TunerNext /\ UNCHANGED <<lane, documentVars>>

Spec == Init /\ [][Next]_<<lane, documentVars, tunerVars>> /\ WF_tunerVars(SessionStep)
=============================================================================
