--------------------------- MODULE Configuration ---------------------------
(***************************************************************************)
(* The configuration text (rust/core/src/config_document.rs), its          *)
(* resolution into one channel's settings by either composition            *)
(* (station_config.rs, profile_resolution.rs, channel_configuration.rs,    *)
(* native_configuration.rs) and the edits the tuning tool makes to it      *)
(* (rust/tune/src/menus.rs, configuration.rs).                             *)
(*                                                                         *)
(* A text is its sequence of lines: section headers, assignments and       *)
(* comments, and whether the last line ends in a newline.  An assignment   *)
(* keeps what was written after its equals sign; what is read back ends at *)
(* the first comment sign.  Names are compared without regard to case in   *)
(* the code; a line's spelling tells the case variants of one name apart.  *)
(***************************************************************************)
EXTENDS Catalog, Sequences, SequencesExt

CONSTANTS
    RadioChannels, \* the named radio channels (nodes, standalone)
    Documents      \* where an operator may start: [standalone, text, edited,
                   \* selected, depth], with the settings edited and the kinds of
                   \* profile selected from there, and a bound on the edits

VARIABLES
    start,         \* the member of Documents this session started from
    document,      \* the text the tuner reads before its next edit
    edit,          \* the last edit and what became of it: a history variable
    edits          \* how many edits were made

documentVars == <<start, document, edit, edits>>

NoChannel == "no channel"          \* the tuner edits the flat defaults

---------------------------------------------------------------------------
(* Text *)

FlatName == "flat"
Flat(kind) == <<kind, FlatName>>
Scoped(kind, profile) == <<kind, profile>>
ChannelSection(channel) == <<"channel", channel>>
NoSection == <<"none", "none">>
Selector(kind) == <<"profile", kind>>
NativeKey(name) == <<"radio", name>>

Header(section) == [is |-> "section", section |-> section]
AssignAs(key, value, spelling) ==
    [is |-> "value", key |-> key, value |-> value, spelling |-> spelling]
Assign(key, value) == AssignAs(key, value, "usual")
Text == [is |-> "text"]

HeadersOf(d, section) ==
    {i \in DOMAIN d.lines : d.lines[i] = Header(section)}

Owner(d, i) ==
    LET above == {j \in 1..i : d.lines[j].is = "section"}
    IN  IF above = {} THEN NoSection ELSE d.lines[Max(above)].section

SectionsOf(d) ==
    {d.lines[i].section : i \in {j \in DOMAIN d.lines : d.lines[j].is = "section"}}

\* [radio] is a section of its own only to the standalone composition.
ConfiguredChannels(d) == {c \in RadioChannels : ChannelSection(c) \in SectionsOf(d)}

ProfileNames(d, kind) ==
    {section[2] : section \in {s \in SectionsOf(d) : s[1] = kind /\ s[2] # FlatName}}

\* explicit_values of every section: later assignments replace earlier ones,
\* wherever a section's header is repeated.
Parsed(d) ==
    LET read(line, so_far) ==
            CASE line.is = "section" ->
                     [section |-> line.section,
                      values |-> so_far.values @@ (line.section :> <<>>)]
              [] line.is = "value" /\ so_far.section # NoSection ->
                     [so_far EXCEPT !.values[so_far.section] =
                         (line.key :> ReadBack(line.value)) @@ @]
              [] OTHER -> so_far
        after[i \in 0..Len(d.lines)] ==
            IF i = 0 THEN [section |-> NoSection, values |-> <<>>]
            ELSE read(d.lines[i], after[i - 1])
    IN  after[Len(d.lines)].values

ExplicitValues(d, section) ==
    LET values == Parsed(d) IN IF section \in DOMAIN values THEN values[section] ELSE <<>>

AssignmentsIn(d, section) ==
    {i \in DOMAIN d.lines : d.lines[i].is = "value" /\ Owner(d, i) = section}

\* Case variants of one name that disagree: record_assignment fails.
Conflicting(d, section) ==
    \E i, j \in AssignmentsIn(d, section) :
        /\ d.lines[i].key = d.lines[j].key
        /\ d.lines[i].spelling # d.lines[j].spelling
        /\ ReadBack(d.lines[i].value) # ReadBack(d.lines[j].value)

\* set_value looks at the section's first block only, replaces the first
\* assignment it finds there, its comment included, and otherwise inserts a
\* line at the block's end.  A last line that has no newline of its own takes
\* the new text to itself: a value is spoilt by it, while a header or a
\* comment, even one behind a value, hides it.
FirstBlock(d, section) ==
    LET head == Min(HeadersOf(d, section))
        next == {j \in DOMAIN d.lines : j > head /\ d.lines[j].is = "section"}
    IN  head .. (IF next = {} THEN Len(d.lines) ELSE Min(next) - 1)

Stuck(line) ==
    IF line.is = "value" /\ ReadBack(line.value) = line.value
    THEN [line EXCEPT !.value = Garbled] ELSE line

Assigns(d, section, key) ==
    {i \in FirstBlock(d, section) : d.lines[i].is = "value" /\ d.lines[i].key = key}

\* The new line has only an unterminated last one to go behind.
Glues(d, section, key) ==
    /\ ~d.ended
    /\ HeadersOf(d, section) # {}
    /\ Assigns(d, section, key) = {}
    /\ Len(d.lines) \in FirstBlock(d, section)

Creatable(section) == section[1] \notin {"channel", "radio"} \/
                      (section[1] = "radio" /\ section[2] # FlatName)

SetValueFails(d, section) == HeadersOf(d, section) = {} /\ ~Creatable(section)

SetValue(d, section, key, value) ==
    IF HeadersOf(d, section) = {}
    THEN [lines |-> d.lines \o <<Header(section), Assign(key, value)>>, ended |-> TRUE]
    ELSE LET here == Assigns(d, section, key)
             end  == Max(FirstBlock(d, section))
         IN  CASE here # {} -> [d EXCEPT !.lines[Min(here)] = Assign(key, value)]
               [] Glues(d, section, key) ->
                      [lines |-> [d.lines EXCEPT ![end] = Stuck(@)], ended |-> TRUE]
               [] OTHER ->
                      [d EXCEPT !.lines = InsertAt(d.lines, end + 1, Assign(key, value))]

\* Every line but the last has its newline.
Without(d, i) ==
    [lines |-> RemoveAt(d.lines, i), ended |-> d.ended \/ i = Len(d.lines)]

\* The section's end forgotten: the first assignment of that name goes.
RemoveValueAnywhere(d, section, key) ==
    LET here == {i \in DOMAIN d.lines : d.lines[i].is = "value" /\ d.lines[i].key = key}
    IN  IF here = {} THEN d ELSE Without(d, Min(here))

RemoveValue(d, section, key) ==
    LET here == {i \in AssignmentsIn(d, section) : d.lines[i].key = key}
    IN  IF here = {} THEN d ELSE Without(d, Min(here))

---------------------------------------------------------------------------
(* Resolution *)

\* What the resolver reads: the values of every section there is, and the
\* sections it cannot read because case variants disagree.
View(d) == [values    |-> Parsed(d),
            conflicts |-> {section \in SectionsOf(d) : Conflicting(d, section)}]

Has(view, section) == section \in DOMAIN view.values
In(view, section) == IF Has(view, section) THEN view.values[section] ELSE <<>>

Selected(view, c, kind) ==
    LET chosen == In(view, ChannelSection(c))
    IN  IF Selector(kind) \in DOMAIN chosen THEN chosen[Selector(kind)].w ELSE c

MissingProfile(view, c, kind) ==
    Selected(view, c, kind) # c /\ ~Has(view, Scoped(kind, Selected(view, c, kind)))

\* A missing profile falls back on the channel's own section, then the flat one.
ResolvedSection(view, c, kind) ==
    LET selected == Scoped(kind, Selected(view, c, kind))
    IN  CASE kind = "general"                       -> ChannelSection(c)
          [] kind # "general" /\ Has(view, selected) -> selected
          [] kind # "general" /\ ~Has(view, selected) /\ Has(view, Scoped(kind, c)) ->
                 Scoped(kind, c)
          [] OTHER                                   -> Flat(kind)

\* The flat section, then the resolved one.
Layers(view, c, kind) ==
    LET resolved == ResolvedSection(view, c, kind)
    IN  IF resolved = Flat(kind) THEN <<resolved>> ELSE <<Flat(kind), resolved>>

\* apply_overlay: an unusable value leaves the inherited one in place.
Usable(values, schema) ==
    [key \in {k \in DOMAIN values : k \in DOMAIN schema /\ Takes(schema[k], values[k])} |->
        values[key]]

Overlay(view, c, kind) ==
    FoldLeft(LAMBDA under, section : Usable(In(view, section), Schema(kind)) @@ under,
             <<>>, Layers(view, c, kind))

\* What another role's schema has, this one reports; what none has is only
\* unknown, and rejects nothing.
Unsupported(kind, schema, key) ==
    kind \in Roles /\ key \in DOMAIN (ApplyReceiveFilters @@ ApplyTail)
        /\ key \notin DOMAIN schema

Warned(section, values, kind, schema) ==
    {<<section, key>> : key \in
        {k \in DOMAIN values : \/ Unsupported(kind, schema, k)
                               \/ k \in DOMAIN schema /\ ~Takes(schema[k], values[k])}}

OverlayWarnings(view, c, kind) ==
    UNION {Warned(section, In(view, section), kind, Schema(kind)) :
               section \in ToSet(Layers(view, c, kind))}

Overlaid(view, c, defaults) ==
    FoldSet(LAMBDA kind, under : Overlay(view, c, kind) @@ under,
            defaults, StationKinds \cup {"general"})

\* normalize_vad: speech detection has to have something that opens the
\* receiver, and kerchunk mode something that ends the burst.
VadMode == <<"receive", "vad_mode">>
Cos == <<"receive", "cos_assignment">>

KerchunkUngated(config) ==
    LET method == config[<<"receive", "signaling_method">>].w
        tone == /\ config[<<"ctcss", "receive_override_enabled">>] = No
                /\ \/ method = "dcs"
                   \/ method = "ctcss" /\ config[<<"ctcss", "receive_source">>] # Word("no")
    IN  /\ config[VadMode] = Word("kerchunk")
        /\ config[Cos].w \in {"no", "open"}
        /\ ~tone

NormalizeVad(config) ==
    IF config[VadMode] = Word("off") THEN config
    ELSE [config EXCEPT ![Cos] = IF @ = Word("no") THEN Word("open") ELSE @,
                        ![VadMode] = IF KerchunkUngated(config) THEN Word("on") ELSE @]

\* The warning names the last section that asked for kerchunk mode.
KerchunkOrigin(view, c) ==
    LET layers == Layers(view, c, "receive")
        asking == {i \in DOMAIN layers :
                      /\ VadMode \in DOMAIN In(view, layers[i])
                      /\ In(view, layers[i])[VadMode] = Word("kerchunk")}
    IN  <<layers[IF asking = {} THEN 1 ELSE Max(asking)], VadMode>>

\* ResolvedStationConfig::from_document_with_defaults
StationOutcome(view, c, config) ==
    LET read == UNION {ToSet(Layers(view, c, kind)) : kind \in StationKinds \cup {"general"}}
        warnings == UNION {OverlayWarnings(view, c, kind) : kind \in StationKinds \cup {"general"}}
                    \cup {<<ChannelSection(c), Selector(kind)>> :
                             kind \in {k \in StationKinds : MissingProfile(view, c, k)}}
                    \cup (IF KerchunkUngated(config) THEN {KerchunkOrigin(view, c)} ELSE {})
    IN  [ok |-> /\ Has(view, ChannelSection(c))
                /\ read \cap view.conflicts = {}
                /\ StationValid(NormalizeVad(config)),
         config |-> NormalizeVad(config), warnings |-> warnings]

ResolvedStation(view, c, defaults) == StationOutcome(view, c, Overlaid(view, c, defaults))

\* ResolvedProfile::from_document_with_defaults
ChainOutcome(view, c, role, chain) ==
    [ok |-> /\ Has(view, ChannelSection(c))
            /\ (ToSet(Layers(view, c, role)) \cup {ChannelSection(c)}) \cap view.conflicts = {}
            /\ ChainValid(role, chain),
     config |-> chain,
     warnings |-> OverlayWarnings(view, c, role)
                  \cup (IF MissingProfile(view, c, role)
                        THEN {<<ChannelSection(c), Selector(role)>>} ELSE {})]

ResolvedChain(view, c, role, defaults) ==
    ChainOutcome(view, c, role, Overlay(view, c, role) @@ defaults)

---------------------------------------------------------------------------
(* The standalone composition: [radio] and [radio NODE] name shared settings *)

Same(key) == [name |-> key, as |-> "identity"]
Named(name, as) == [name |-> NativeKey(name), as |-> as]
Identity(name) == Named(name, "identity")

HardwareAliases ==
    Of("hardware",
       [device_identifier |-> Identity("device_identifier"),
        serial |-> Identity("usb_serial"),
        input_gain_db |-> Same(<<"hardware", "input_gain_db">>),
        output_a_gain_db |-> Same(<<"hardware", "output_a_gain_db">>),
        output_b_gain_db |-> Same(<<"hardware", "output_b_gain_db">>),
        input_extra_buffer_ms |-> Identity("input_extra_buffer_ms"),
        output_extra_buffer_ms |-> Identity("output_extra_buffer_ms"),
        deemphasis_corner_hz |-> Identity("receive_deemphasis_corner_hz"),
        preemphasis_corner_hz |-> Identity("transmit_preemphasis_corner_hz"),
        interface_type |-> Named("cm119_profile", "interface"),
        ptt_inverted |-> Identity("cm119_ptt_inverted"),
        clip_led_gpio |-> Identity("cm119_clip_led_gpio"),
        eeprom_enabled |-> Same(<<"hardware", "eeprom_enabled">>)]
       @@ [pin \in Pins |-> Identity(pin)])

ParallelAliases ==
    Of("hardware",
       [output_a_assignment |-> Named("transmit_output_a_assignment", "output"),
        output_b_assignment |-> Named("transmit_output_b_assignment", "output"),
        parallel_port_device |-> Identity("parallel_port_device"),
        parallel_port_base_address |-> Identity("parallel_port_base_address")]
       @@ [pin \in OutputPins \cup InputPins |-> Identity(pin)])

ReceiveAliases ==
    Of("receive",
       [audio_source |-> Named("receive_audio", "audio"),
        signaling_method |-> Identity("receive_signaling"),
        cos_assignment |-> Named("carrier_source", "source"),
        squelch_level |-> Identity("squelch_level"),
        noise_squelch_hysteresis |-> Identity("squelch_hysteresis"),
        noise_filter_type |-> Named("noise_filter", "noise"),
        vox_threshold |-> Identity("vox_threshold"), vox_hang_ms |-> Identity("vox_hang_ms"),
        vad_mode |-> Identity("vad_mode"), vad_hang_ms |-> Identity("vad_hang_ms"),
        on_delay_frames |-> Named("receive_on_delay_ms", "milliseconds")])

SignalingAliases ==
    Of("ctcss",
       [receive_source |-> Named("ctcss_source", "source"),
        receive_frequencies |-> Identity("receive_ctcss_tones_hz"),
        receive_decoder_gain_db |-> Identity("ctcss_decoder_gain_db"),
        receive_relax |-> Named("ctcss_relaxed", "boolean"),
        receive_override_enabled |-> Identity("ctcss_override"),
        transmit_frequencies |-> Identity("transmit_ctcss_tones_hz"),
        transmit_default_hz |-> Identity("transmit_ctcss_default_hz"),
        transmit_peak_dbfs |-> Identity("transmit_ctcss_level_dbfs"),
        turnoff_mode |-> Named("transmit_ctcss_turnoff_mode", "turnoff"),
        phase_shift_degrees |-> Identity("transmit_ctcss_phase_shift_degrees"),
        tail_duration_ms |-> Identity("transmit_ctcss_turnoff_duration_ms"),
        tail_frequency_hz |-> Identity("transmit_ctcss_tail_tone_hz")])
    @@ Of("dcs",
       [receive_code |-> Identity("dcs_receive_code"),
        transmit_code |-> Identity("transmit_dcs_code"),
        peak_dbfs |-> Identity("transmit_dcs_level_dbfs"),
        turnoff_code_enabled |-> Identity("transmit_dcs_turnoff_enabled"),
        turnoff_duration_ms |-> Identity("transmit_dcs_turnoff_duration_ms")])

TransmitAliases ==
    Of("transmit",
       [signaling_method |-> Identity("transmit_signaling"),
        preemphasis_enabled |-> Identity("transmit_preemphasis_enabled"),
        settle_ms |-> Identity("transmit_settle_ms"),
        rx_blanking_ms |-> Identity("transmit_receive_blanking_ms"),
        off_delay_frames |-> Named("transmit_off_delay_ms", "milliseconds")])
    @@ Of("duplex", [radio_mode |-> Named("radio_duplex_mode", "duplex")])
    @@ Of("chain", [input_gain_db |-> Identity("receive_input_gain_db"),
                    output_gain_db |-> Named("receive_output_gain_db", "whole_db")])
    @@ Of("diagnostics",
          [status_publication_interval_ms |-> Identity("status_publication_interval_ms")])

Aliases == HardwareAliases @@ ParallelAliases @@ ReceiveAliases @@ SignalingAliases
           @@ TransmitAliases

AliasKind(key) == IF key[1] = "chain" THEN "local" ELSE key[1]
Aliased(kind, key) == key \in DOMAIN Aliases /\ AliasKind(key) = kind

\* ValueAlias: how [radio] spells a value, and how the shared schema does.
Pairs(as) ==
    CASE as = "audio"     -> {<<Word("disabled"), No>>}
      [] as = "source"    -> {<<Word("disabled"), No>>, <<Word("cm119"), Word("usb")>>,
                              <<Word("cm119_inverted"), Word("usbinvert")>>,
                              <<Word("parallel"), Word("pp")>>,
                              <<Word("parallel_inverted"), Word("ppinvert")>>}
      [] as = "output"    -> {<<Word("disabled"), Word("off")>>, <<Word("tone"), Word("ctcss")>>,
                              <<Word("composite"), Word("voice_ctcss")>>,
                              <<Word("auxiliary_voice"), Word("auxvoice")>>}
      [] as = "interface" -> {<<Word("dudeusb"), Num(0)>>, <<Word("sphusb"), Num(1)>>,
                              <<Word("nhrc"), Num(2)>>, <<Word("custom"), Num(3)>>}
      [] as = "noise"     -> {<<Word("standard"), Num(0)>>, <<Word("alternate"), Num(1)>>}
      [] as = "duplex"    -> {<<Word("half"), Num(0)>>, <<Word("full"), Num(1)>>}
      [] as = "turnoff"   -> {<<Word("none"), No>>,
                              <<Word("phase_shift"), Word("ctcss_phase_shift")>>,
                              <<Word("tone_remove"), Word("ctcss_tone_remove")>>,
                              <<Word("tail_tone"), Word("ctcss_tail_tone")>>}
      [] as = "boolean"   -> {<<No, Num(0)>>, <<Yes, Num(1)>>}
      [] OTHER            -> {}

FrameMs == 20
U16Max == 65535

ToShared(as, value) ==
    IF as = "milliseconds" /\ value.is = "number" /\ value.n \in 0..U16Max
    THEN Num((value.n + FrameMs - 1) \div FrameMs)
    ELSE LET found == {pair \in Pairs(as) : pair[1] = value}
         IN  IF found = {} THEN value ELSE (CHOOSE pair \in found : TRUE)[2]

ToNative(as, value) ==
    IF as = "milliseconds" /\ value.is = "number" /\ value.n \in 0..U16Max
    THEN Num(value.n * FrameMs)
    ELSE LET found == {pair \in Pairs(as) : pair[2] = value}
         IN  IF found = {} THEN value ELSE (CHOOSE pair \in found : TRUE)[1]

Radio == <<"radio", FlatName>>
RadioOf(node) == <<"radio", node>>

\* native_processing_profile_configured
LocalConfigured(d, node) ==
    \/ {Flat("local"), Scoped("local", node)} \cap SectionsOf(d) # {}
    \/ Selector("local") \in DOMAIN ExplicitValues(d, ChannelSection(node))

\* Options are taken in alphabetical order: the canonical spelling of a
\* hardware setting follows device_identifier and cm119_..., and precedes
\* every other native name.
CanonicalLast == {"device_identifier", "interface_type", "ptt_inverted", "clip_led_gpio"} \cup Pins

Spellings(key, native) ==
    CASE key[1] # "hardware"       -> <<native>>
      [] key[1] = "hardware" /\ key[2] \in CanonicalLast    -> <<native, key>>
      [] key[1] = "hardware" /\ key[2] \notin CanonicalLast -> <<key, native>>

\* What [radio] or [radio NODE] says of the shared settings: the option that
\* wins for each.  The aliases of the local profile give way to a profile of
\* its own, and a fractional receive output gain is skipped.
Whole(value) == value.is = "number" /\ value.n % 10 = 0

NativeNames == {alias.name : alias \in Range(Aliases)}

Means(name) ==
    IF name[1] = "hardware" THEN name
    ELSE CHOOSE key \in DOMAIN Aliases : Aliases[key].name = name

HeardAs(key, alias, values) ==
    SelectSeq(Spellings(key, alias.name),
              LAMBDA name : /\ name \in DOMAIN values
                            /\ alias.as = "whole_db" => Whole(values[name]))

Heard(values) ==
    LET known == {name \in DOMAIN values :
                     name \in NativeNames \/ (name[1] = "hardware" /\ name \in DOMAIN Aliases)}
    IN  [key \in {Means(name) : name \in known} |-> HeardAs(key, Aliases[key], values)]

LastHeard(heard, local) ==
    [key \in {k \in DOMAIN heard : heard[k] # <<>> /\ (AliasKind(k) = "local" => ~local)} |->
        Last(heard[key])]

Spoken(d, node, section) ==
    LastHeard(Heard(ExplicitValues(d, section)), LocalConfigured(d, node))

AsShared(values, spoken) ==
    [key \in DOMAIN spoken |-> ToShared(Aliases[key].as, values[spoken[key]])]

SharedFrom(d, node, section) ==
    AsShared(ExplicitValues(d, section), Spoken(d, node, section))

SkippedGain(d, node, section) ==
    LET values == ExplicitValues(d, section)
        name == Aliases[<<"chain", "output_gain_db">>].name
    IN  /\ ~LocalConfigured(d, node)
        /\ name \in DOMAIN values
        /\ ~Whole(values[name])

NativeDefaults ==
    [StationDefaults EXCEPT ![<<"hardware", "output_a_assignment">>] = Word("voice"),
                            ![<<"hardware", "output_b_assignment">>] = Word("ctcss"),
                            ![<<"hardware", "eeprom_enabled">>] = No,
                            ![<<"transmit", "preemphasis_enabled">>] = No]

NativeBase(d, node) ==
    [hardware |-> Of("hardware", [output_a_assignment |-> Word("voice"),
                                  output_b_assignment |-> Word("ctcss"), eeprom_enabled |-> No]),
     transmit |-> Of("transmit", [preemphasis_enabled |-> No])]
    @@ (IF LocalConfigured(d, node) THEN <<>>
        ELSE [local |-> Of("chain", [output_gain_db |-> Num(0)])])

SharedKinds == (StationKinds \ {"asterisk"}) \cup Roles

\* from_document's normalized document: what the shared resolver reads.
Normalized(d, node, flat, scoped, base) ==
    LET of(values, kind) == [key \in {k \in DOMAIN values : AliasKind(k) = kind} |-> values[key]]
        said == {Flat(kind) : kind \in DOMAIN base \cup {AliasKind(k) : k \in DOMAIN flat}}
                \cup {Scoped(AliasKind(key), node) : key \in DOMAIN scoped}
        generated(section) ==
            IF section[2] = FlatName
            THEN of(flat, section[1]) @@ (IF section[1] \in DOMAIN base THEN base[section[1]] ELSE <<>>)
            ELSE IF section[2] = node THEN of(scoped, section[1]) ELSE <<>>
        own == {section \in SectionsOf(d) : section[1] \in SharedKinds}
        chosen == ExplicitValues(d, ChannelSection(node))
        kept == {key \in DOMAIN chosen : key[1] = "profile" \/ key = <<"general", "channel_enabled">>}
    IN  [values |-> (ChannelSection(node) :> [key \in kept |-> chosen[key]])
                    @@ [section \in own \cup said |->
                            ExplicitValues(d, section) @@ generated(section)],
         conflicts |-> {section \in own \cup {ChannelSection(node), Radio, RadioOf(node)} :
                            Conflicting(d, section)}]

NativeView(d, node) ==
    Normalized(d, node, SharedFrom(d, node, Radio), SharedFrom(d, node, RadioOf(node)),
               NativeBase(d, node))

\* A shared diagnostic about a value that came from [radio] is reported there.
Blamed(view, warning, radio, values, spoken) ==
    LET key == warning[2]
    IN  IF /\ key \in DOMAIN spoken
           /\ ToShared(Aliases[key].as, values[spoken[key]]) = view.values[warning[1]][key]
        THEN <<radio, spoken[key]>> ELSE warning

Attributed(d, node, view, warning) ==
    LET section == warning[1]
        radio == IF section[2] = FlatName THEN Radio ELSE RadioOf(node)
    IN  Blamed(view, warning, radio, ExplicitValues(d, radio),
               IF Aliased(section[1], warning[2]) /\ section[2] \in {FlatName, node}
               THEN Spoken(d, node, radio) ELSE <<>>)

ChainOf(view, c, role, native) ==
    ResolvedChain(view, c, role,
        (IF role = "local" /\ native THEN <<"chain", "output_gain_db">> :> Num(0) ELSE <<>>)
        @@ ShippedChains[role])

\* ResolvedNativeConfiguration::from_document
NativeOutcome(d, node, view, station, chains) ==
    [ok |-> /\ ChannelSection(node) \in SectionsOf(d)
            /\ {Radio, RadioOf(node)} \cap view.conflicts = {}
            /\ station.ok
            /\ \A role \in Roles : chains[role].ok,
     station |-> station.config,
     chain |-> [role \in Roles |-> chains[role].config],
     warnings |-> {Attributed(d, node, view, w) :
                      w \in station.warnings \cup UNION {chains[role].warnings : role \in Roles}}
                  \cup {<<section, Aliases[<<"chain", "output_gain_db">>].name>> :
                           section \in {s \in {Radio, RadioOf(node)} : SkippedGain(d, node, s)}}]

Composed(d, node, view) ==
    NativeOutcome(d, node, view, ResolvedStation(view, node, NativeDefaults),
        [role \in Roles |-> ChainOf(view, node, role, ~LocalConfigured(d, node))])

ResolvedNative(d, node) == Composed(d, node, NativeView(d, node))

---------------------------------------------------------------------------
(* Edits *)

\* The tuner selects a channel whenever the text configures one.
Selectable(d) == IF ConfiguredChannels(d) = {} THEN {NoChannel} ELSE ConfiguredChannels(d)

\* AslConfiguration: the section the setting is resolved from.
AslDestination(d, c, kind, key) ==
    [section |-> IF c = NoChannel THEN Flat(kind) ELSE ResolvedSection(View(d), c, kind),
     key |-> key]

\* An alias written to the shared [radio] although the node has its own.
NativeDestinationShared(d, c, kind, key) ==
    LET shared == ResolvedSection(NativeView(d, c), c, kind)
    IN  CASE shared \in SectionsOf(d) -> [section |-> shared, key |-> key]
          [] shared \notin SectionsOf(d) /\ Aliased(kind, key) ->
                 [section |-> Radio, key |-> Aliases[key].name]
          [] OTHER -> AslDestination(d, c, kind, key)

\* NativeConfiguration: a shared section the operator wrote, else an alias.
NativeDestination(d, c, kind, key) ==
    LET shared == ResolvedSection(NativeView(d, c), c, kind)
    IN  CASE shared \in SectionsOf(d) -> [section |-> shared, key |-> key]
          [] shared \notin SectionsOf(d) /\ Aliased(kind, key) ->
                 [section |-> IF RadioOf(c) \in SectionsOf(d) THEN RadioOf(c) ELSE Radio,
                  key |-> Aliases[key].name]
          [] OTHER -> AslDestination(d, c, kind, key)

\* setting_value
Written(kind, key, destination, value) ==
    IF destination.section[1] = "radio" /\ Aliased(kind, key)
    THEN ToNative(Aliases[key].as, value) ELSE value

AslResolved(view, c, kind) ==
    IF kind \in Roles THEN ChainOf(view, c, kind, FALSE)
    ELSE ResolvedStation(view, c, StationDefaults)

\* reject_setting_warning
Clean(resolved, at) == resolved.ok /\ <<at.section, at.key>> \notin resolved.warnings

\* AslConfiguration::validate_candidate
AslValid(d, c, at) == c = NoChannel \/ Clean(AslResolved(View(d), c, at.section[1]), at)

\* NativeConfiguration::validate_candidate
NativeValid(d, c, at) == Clean(ResolvedNative(d, c), at)

Readable(d, c) == ~start.standalone \/ (c # NoChannel /\ ResolvedNative(d, c).ok)

\* What the resolver makes of the setting, whoever reads the text next.
OfKind(native, kind) == IF kind \in Roles THEN native.chain[kind] ELSE native.station

Effective(d, c, kind, key) ==
    IF start.standalone THEN OfKind(ResolvedNative(d, c), kind)[key]
    ELSE AslResolved(View(d), c, kind).config[key]

\* The band layout the menus show, by which they choose what can be edited.
Layout(d, c, kind) ==
    [stage \in {"compressor", "limiter"} |->
        IF kind \in Roles /\ c # NoChannel THEN Effective(d, c, kind, <<stage, "bands">>).w
        ELSE LET key == <<stage, "bands">>
                 own == ExplicitValues(d, Flat(kind))
             IN  IF key \in DOMAIN own THEN own[key].w ELSE "3"]

NoEdit == [is |-> "none", outcome |-> "none"]

EditEnds(what, d) ==
    /\ edits' = edits + 1
    /\ edit' = [before |-> document] @@ what
    /\ document' = d
    /\ UNCHANGED start

MayEdit == edits < start.depth /\ edit.outcome # "failed"

\* edit_setting, from a menu or under a keyed transmitter: what cannot be
\* read or written ends the session, what does not validate is dropped.
EditAt(c, kind, key, value, at) ==
    LET candidate == IF value = Inherit /\ HasInherit(key)
                     THEN RemoveValue(document, at.section, at.key)
                     ELSE SetValue(document, at.section, at.key, Written(kind, key, at, value))
        valid == IF start.standalone THEN NativeValid(candidate, c, at)
                 ELSE AslValid(candidate, c, at)
        what(outcome, touched) ==
            [is |-> "set", channel |-> c, kind |-> kind, key |-> key, value |-> value,
             outcome |-> outcome, touched |-> touched]
    IN  IF ~Readable(document, c) \/ (value # Inherit /\ SetValueFails(document, at.section))
        THEN EditEnds(what("failed", {}), document)
        ELSE IF valid THEN EditEnds(what("accepted", {<<at.section, at.key>>}), candidate)
        ELSE EditEnds(what("refused", {}), document)

EditSetting(c, kind, key, value) ==
    /\ Visible(kind, key, Layout(document, c, kind))
    /\ EditAt(c, kind, key, value,
              IF start.standalone THEN NativeDestination(document, c, kind, key)
              ELSE AslDestination(document, c, kind, key))

\* select_profiles: any profile of the kind the text has, or the channel's own.
SelectProfile(c, kind, name) ==
    LET section == ChannelSection(c)
    IN  EditEnds([is |-> "profile", outcome |-> "accepted",
              touched |-> {<<section, Selector(kind)>>}],
             IF name = FlatName THEN RemoveValue(document, section, Selector(kind))
             ELSE SetValue(document, section, Selector(kind), Word(name)))

Identities == {"device_identifier", "serial", "gpio_usb_port_path"}
IdentityKey(field) == <<"hardware", field>>

RawValues(d, c) ==
    LET target == ResolvedSection(View(d), c, "hardware")
    IN  In(View(d), target) @@ In(View(d), Flat("hardware"))

\* Somebody else's device would change with this section: they use it, or it is
\* the flat one and their own profile leaves an identity to it.
SharedTarget(d, target, others) ==
    \E c \in others :
        LET resolved == ResolvedSection(View(d), c, "hardware")
        IN  \/ resolved = target
            \/ /\ target = Flat("hardware")
               /\ \E field \in Identities : IdentityKey(field) \notin DOMAIN In(View(d), resolved)

\* swap_hardware_identity
SwappedText(d, first, second) ==
    LET target == [c \in {first, second} |-> ResolvedSection(View(d), c, "hardware")]
        was == [c \in {first, second} |-> RawValues(d, c)]
        given(c, field) == IF IdentityKey(field) \in DOMAIN was[c]
                           THEN was[c][IdentityKey(field)] ELSE NoText
        write(text, field) ==
            SetValue(SetValue(text, target[first], IdentityKey(field), given(second, field)),
                     target[second], IdentityKey(field), given(first, field))
    IN  write(write(write(d, "device_identifier"), "serial"), "gpio_usb_port_path")

\* swap_usb_device
SwapIdentity(first, second) ==
    LET target(c) == ResolvedSection(View(document), c, "hardware")
        others == ConfiguredChannels(document) \ {first, second}
        swapped == SwappedText(document, first, second)
        allowed == /\ target(first) # target(second)
                   /\ \A c \in {first, second} : ~SharedTarget(document, target(c), others)
                   /\ \A c \in {first, second} :
                          ResolvedStation(View(swapped), c, StationDefaults).ok
        what(outcome, touched) ==
            [is |-> "swap", first |-> first, second |-> second, outcome |-> outcome,
             touched |-> touched]
    IN  IF allowed
        THEN EditEnds(what("accepted", {<<target(c), IdentityKey(field)>> :
                                       c \in {first, second}, field \in Identities}), swapped)
        ELSE EditEnds(what("refused", {}), document)

EditAny ==
    /\ MayEdit
    /\ \E c \in Selectable(document), at \in start.edited :
           /\ at[2] \in OfferedKeys(at[1], start.standalone)
           /\ \E value \in Offered(at[1], at[2]) : EditSetting(c, at[1], at[2], value)

SelectAny ==
    /\ MayEdit
    /\ \E c \in ConfiguredChannels(document), kind \in start.selected :
        /\ ~(start.standalone /\ kind = "asterisk")
        /\ \E name \in ProfileNames(document, kind) \cup {FlatName} : SelectProfile(c, kind, name)

SwapAny ==
    /\ MayEdit
    /\ ~start.standalone
    /\ \E first \in ConfiguredChannels(document) :
           \E second \in ConfiguredChannels(document) \ {first} : SwapIdentity(first, second)

DocumentInit ==
    /\ start \in Documents
    /\ document = start.text
    /\ edit = NoEdit
    /\ edits = 0

DocumentNext == EditAny \/ SelectAny \/ SwapAny

DocumentSpec == DocumentInit /\ [][DocumentNext]_documentVars

---------------------------------------------------------------------------
(* Properties *)

\* The edits that found only an unterminated last line to go behind.
Glued == \E at \in edit.touched : Glues(edit.before, at[1], at[2])

\* The assignment that took the text of such an edit.
Swallowing(d) ==
    IF d.lines # <<>> /\ Last(d.lines).is = "value"
    THEN {<<Owner(d, Len(d.lines)), Last(d.lines).key>>} ELSE {}

\* An edit the tuner accepted for a channel is what that channel's resolver
\* then makes of the setting: edit_setting writes where the setting is resolved
\* from, through the composition's aliases and conversions, and refuses what
\* would fall back.  Of a text with a comment sign that is the part before it
\* (assignment), and an edit swallowed by an unterminated last line is lost.
\* Speech detection opens a disabled carrier (normalize_vad).
AcceptedEditInForce ==
    /\ edit.is = "set" /\ edit.outcome = "accepted"
    /\ edit.channel # NoChannel /\ edit.value # Inherit
    /\ ~Glued
    => LET now == Effective(document, edit.channel, edit.kind, edit.key)
       IN  \/ now = ReadBack(edit.value)
           \/ /\ edit.key = Cos /\ edit.value = No /\ now = Word("open")
              /\ Effective(document, edit.channel, "receive", VadMode) # Word("off")

\* What a text says apart from the assignments named: the other explicit
\* values, the comment lines and the comments behind other values.
Untouched(d, touched) ==
    [section \in SectionsOf(d) |->
        LET values == ExplicitValues(d, section)
        IN  [key \in {k \in DOMAIN values : <<section, k>> \notin touched} |-> values[key]]]

CommentsBeside(d, touched) ==
    {<<Owner(d, i), d.lines[i].key>> :
        i \in {j \in DOMAIN d.lines :
                  /\ d.lines[j].is = "value" /\ d.lines[j].value # ReadBack(d.lines[j].value)
                  /\ <<Owner(d, j), d.lines[j].key>> \notin touched}}

OnlyChanges(before, after, touched) ==
    LET was == Untouched(before, touched)
        now == Untouched(after, touched)
    IN  /\ \A section \in DOMAIN was : now[section] = was[section]
        /\ \A section \in DOMAIN now \ DOMAIN was : now[section] = <<>>
        /\ CommentsBeside(after, touched) = CommentsBeside(before, touched)
        /\ SelectSeq(after.lines, LAMBDA line : line = Text)
               = SelectSeq(before.lines, LAMBDA line : line = Text)

\* Setting one assignment preserves unrelated text and comments, as the
\* comment on ConfigDocument::set_value has it.
PreservesUnrelated ==
    edit.is # "none" /\ edit.outcome = "accepted" =>
        OnlyChanges(edit.before, document, edit.touched)

\* An edit changes only the assignments it is about: every other explicit
\* value, every comment line and every comment behind another value survives
\* set_value and remove_value, but for the last line's value when that line
\* has no newline and the edit had to go behind it.
EditsKeepTheRest ==
    edit.is # "none" /\ edit.outcome = "accepted" =>
        OnlyChanges(edit.before, document,
                    edit.touched \cup (IF Glued THEN Swallowing(edit.before) ELSE {}))

\* A value an editor of the catalog let through is refused only for what it
\* does together with other settings, never because the resolver's own limits
\* are narrower; a list of too many tones, which no editor counts, and a text
\* that is nothing but a comment, which the editor takes for one, excepted.
OfferedValuesTaken ==
    edit.is = "set" /\ edit.outcome = "refused" /\ edit.value # Inherit =>
        \/ Takes(Schema(edit.kind)[edit.key], ReadBack(edit.value))
        \/ edit.value \in {Tones(MaxTones + 1), Commented(NoText)}

\* A swap that was accepted exchanges the USB identities of the two channels,
\* as resolved, and no other channel's device changes with it; one that went
\* behind an unterminated last line exchanges what was left of them.
IdentityOf(d, c) ==
    [field \in Identities |->
        ResolvedStation(View(d), c, StationDefaults).config[IdentityKey(field)]]

SwapExchangesIdentity ==
    edit.is = "swap" /\ edit.outcome = "accepted" /\ ~Glued =>
        /\ IdentityOf(document, edit.first) = IdentityOf(edit.before, edit.second)
        /\ IdentityOf(document, edit.second) = IdentityOf(edit.before, edit.first)
        /\ \A c \in ConfiguredChannels(document) \ {edit.first, edit.second} :
               IdentityOf(document, c) = IdentityOf(edit.before, c)

\* An accepted edit does no more than it is about: other assignments, other lines
\* and other channels' devices are as they were.
EditsStayLocal == EditsKeepTheRest /\ SwapExchangesIdentity
=============================================================================
