------------------------------- MODULE Catalog -------------------------------
(***************************************************************************)
(* The tuning tool's catalog (rust/tune/src/catalog.rs): every setting it  *)
(* offers, what its editor lets through (the validate_* functions of       *)
(* menus.rs) and whether an accepted edit is applied by a reload or a      *)
(* restart; and the composition's choice of settings and live actions.     *)
(***************************************************************************)
EXTENDS Settings

Reloaded(stage, fields) ==
    Of(stage, [field \in DOMAIN fields |-> [editor |-> fields[field], mode |-> "reload"]])
Restarted(stage, fields) ==
    Of(stage, [field \in DOMAIN fields |-> [editor |-> fields[field], mode |-> "restart"]])

\* The choices of the enumerated editors, as the catalog lists them.
WordLists ==
    [output    |-> {"off", "voice", "ctcss", "voice_ctcss", "auxvoice"},
     signaling |-> {"carrier", "ctcss", "dcs"},
     vad       |-> {"off", "kerchunk", "on"},
     audio     |-> {"no", "speaker", "flat"},
     carrier   |-> {"no", "usb", "usbinvert", "dsp", "vox", "pp", "ppinvert"},
     tone      |-> {"no", "usb", "usbinvert", "dsp", "pp", "ppinvert"},
     turnoff   |-> {"no", "ctcss_phase_shift", "ctcss_tone_remove", "ctcss_tail_tone"},
     gpio      |-> {"in", "out0", "out1"},
     pin_out   |-> {"out0", "out1", "ptt"},
     pin_in    |-> {"in", "cor", "ctcss"},
     bands     |-> {"1", "3"}]

Gain(limit) == Between(-limit, limit)

---------------------------------------------------------------------------
(* Processing pages *)

StageSection(role) ==
    Reloaded("chain", [enabled |-> OnOff, stage_order |-> StageList])
    @@ [key \in {<<stage, "enabled">> : stage \in OptionalStages \cup {"lookahead_limiter"}} |->
            [editor |-> OnOff, mode |-> "reload"]]
    @@ (IF role = "local" THEN Reloaded("rnnoise", [enabled |-> OnOff]) ELSE <<>>)

ReceiveFilterSection ==
    Reloaded("receive_bandpass", [enabled |-> OnOff, highpass_hz |-> Between(200, 20000),
                                  lowpass_hz |-> Between(200, 60000)])
    @@ Reloaded("ctcss_filter", [mode |-> Words({"disabled", "highpass", "notch"}),
                                 notch_width_hz |-> Between(100, 100),
                                 highpass_hz |-> Between(500, 5000)])

TransmitFilterSection ==
    Reloaded("post_limiter_bandpass",
        [enabled |-> OnOff, highpass_hz |-> Between(0, 3000), lowpass_hz |-> Between(25000, 200000)])

EqualizerSection ==
    Reloaded("equalizer",
        [low_gain_db |-> Gain(120), low_frequency_hz |-> Between(200, 10000),
         low_slope |-> Between(1, 10), mid_gain_db |-> Gain(120),
         mid_frequency_hz |-> Between(1000, 40000), mid_width_octaves |-> Between(1, 40),
         high_gain_db |-> Gain(120), high_frequency_hz |-> Between(10000, 50000),
         high_slope |-> Between(1, 10)])

DeesserSection ==
    Reloaded("deesser",
        [frequency_hz |-> Between(20000, 80000), width_octaves |-> Between(1, 40),
         threshold_dbfs |-> Between(-600, -10), ratio |-> Between(10, 200),
         max_reduction_db |-> Between(1, 200), attack_ms |-> Between(1, 1000),
         release_ms |-> Between(10, 20000)])

AgcSection ==
    Reloaded("agc",
        [target_lufs |-> Between(-400, -30), max_gain_db |-> Between(0, 300),
         max_attenuation_db |-> Between(0, 600), loudness_window_ms |-> Between(4000, 30000),
         gain_increase_db_per_second |-> Between(1, 1000),
         gain_decrease_db_per_second |-> Between(1, 1000),
         activity_threshold_dbfs |-> Between(-1000, -30),
         activity_hysteresis_db |-> Between(0, 120), hold_ms |-> Between(0, 100000),
         deadband_db |-> Between(0, 60)])

ExpanderSection ==
    Reloaded("expander",
        [threshold_dbfs |-> Between(-1000, -100), ratio |-> Between(10, 100),
         max_attenuation_db |-> Between(0, 400), attack_ms |-> Between(10, 10000),
         release_ms |-> Between(10, 100000), sidechain_highpass_hz |-> Between(500, 20000),
         sidechain_lowpass_hz |-> Between(500, 35000)])

BandEditors == [bands |-> Words(WordLists.bands), low_crossover_hz |-> Between(1000, 20000),
                high_crossover_hz |-> Between(1000, 50000)]

CompressorBand ==
    [threshold_dbfs |-> Between(-600, 0), ratio |-> Between(10, 200),
     makeup_gain_db |-> Gain(300), attack_ms |-> Between(10, 10000),
     release_ms |-> Between(10, 90000)]

CompressorSection ==
    Reloaded("compressor", BandEditors @@ CompressorBand
                           @@ [sidechain_highpass_hz |-> Between(500, 20000),
                               sidechain_lowpass_hz |-> Between(500, 35000)])
    @@ Reloaded("compressor_low", CompressorBand)
    @@ Reloaded("compressor_mid", CompressorBand)
    @@ Reloaded("compressor_high", CompressorBand)

\* The high band has the narrower limits: an editor that took the others'
\* would offer what the resolver refuses.
LimiterBandAsWide(high) ==
    [threshold_dbfs |-> Between(-400, -10), ratio |-> Between(10, 200),
     knee_db |-> Between(0, 180), attack_ms |-> Between(1, 10000),
     release_ms |-> Between(10, 90000)]

LimiterBand(high) ==
    [threshold_dbfs |-> Between(IF high THEN -300 ELSE -400, -10), ratio |-> Between(10, 200),
     knee_db |-> Between(0, 180), attack_ms |-> Between(1, IF high THEN 1000 ELSE 10000),
     release_ms |-> Between(10, IF high THEN 10000 ELSE 90000)]

LimiterSection ==
    Reloaded("limiter", BandEditors @@ LimiterBand(FALSE))
    @@ Reloaded("limiter_low", LimiterBand(FALSE))
    @@ Reloaded("limiter_mid", LimiterBand(FALSE))
    @@ Reloaded("limiter_high", LimiterBand(TRUE))

PeakLimiterSection ==
    Reloaded("lookahead_limiter",
        [oversample |-> Words({"1", "2", "4"}), ceiling_dbfs |-> Between(-300, -1),
         lookahead_ms |-> Between(1, 200), attack_ms |-> Between(1, 200),
         release_ms |-> Between(10, 50000)])

ProcessingPage(role) ==
    StageSection(role)
    @@ (IF role = "local" THEN ReceiveFilterSection ELSE <<>>)
    @@ (IF role = "voice_telemetry" THEN TransmitFilterSection ELSE <<>>)
    @@ EqualizerSection @@ AgcSection @@ ExpanderSection @@ DeesserSection
    @@ CompressorSection @@ LimiterSection @@ PeakLimiterSection
    @@ Reloaded("chain", [input_gain_db |-> Gain(300), output_gain_db |-> Gain(300)])

---------------------------------------------------------------------------
(* Station pages *)

UsbSection ==
    Restarted("hardware",
        [device_identifier |-> SomeText, serial |-> SomeText,
         interface_type |-> Between(0, 1), eeprom_enabled |-> OnOff,
         gpio_usb_port_path |-> FreeText])

HardwareAudioSections ==
    Reloaded("hardware",
        [input_gain_db |-> Gain(300), deemphasis_corner_hz |-> Between(1, 5000),
         output_a_gain_db |-> Gain(300), output_b_gain_db |-> Gain(300),
         output_a_assignment |-> Words(WordLists.output),
         output_b_assignment |-> Words(WordLists.output),
         preemphasis_corner_hz |-> Between(1, 5000)])
    @@ Restarted("hardware", [ptt_inverted |-> OnOff])

ReceiveSection ==
    Reloaded("receive",
        [signaling_method |-> Words(WordLists.signaling),
         audio_source |-> Words(WordLists.audio),
         cos_assignment |-> Words(WordLists.carrier),
         vox_hang_ms |-> Between(0, I16Max), vad_mode |-> Words(WordLists.vad),
         vad_hang_ms |-> Between(0, I16Max), vox_threshold |-> Between(0, I16Max),
         noise_squelch_hysteresis |-> Between(0, I16Max), noise_filter_type |-> Between(0, 1),
         squelch_delay_ms |-> Between(0, 511), on_delay_frames |-> Between(0, 3000),
         squelch_level |-> Between(0, 999), frequency_hz |-> Between(0, I32Max)])

TransmitSection ==
    Reloaded("transmit",
        [signaling_method |-> Words(WordLists.signaling), preemphasis_enabled |-> OnOff,
         settle_ms |-> Between(0, I32Max), rx_blanking_ms |-> Between(0, I16Max),
         off_delay_frames |-> Between(0, 3000), frequency_hz |-> Between(0, I32Max)])

CtcssSection ==
    Reloaded("ctcss",
        [receive_frequencies |-> ToneList, transmit_frequencies |-> ToneList,
         receive_source |-> Words(WordLists.tone), receive_decoder_gain_db |-> Gain(600),
         receive_override_enabled |-> OnOff, receive_relax |-> Between(0, 1),
         transmit_default_hz |-> Between(670, 2503), transmit_peak_dbfs |-> Between(-900, 0),
         turnoff_mode |-> Words(WordLists.turnoff), phase_shift_degrees |-> Between(1, Unbounded),
         tail_duration_ms |-> Between(40, I16Max), tail_frequency_hz |-> Between(1, Unbounded)])

DcsSection ==
    Reloaded("dcs",
        [receive_code |-> Words(DcsCodes), transmit_code |-> Words(DcsCodes),
         turnoff_code_enabled |-> OnOff, turnoff_duration_ms |-> Between(150, 200),
         peak_dbfs |-> Between(-900, 0)])

GpioSection ==
    Restarted("hardware", [clip_led_gpio |-> Between(0, 8)]
                          @@ [pin \in Pins |-> Words(WordLists.gpio)])

ParallelSection ==
    Restarted("hardware", [parallel_port_device |-> SomeText,
                           parallel_port_base_address |-> Between(1, U32Max)]
                          @@ [pin \in OutputPins |-> Words(WordLists.pin_out)]
                          @@ [pin \in InputPins |-> Words(WordLists.pin_in)])

SignalingSection == Restarted("hardware", [voter_reporting |-> Between(0, I32Max)])

AsteriskSection ==
    Restarted("asterisk",
        [enabled |-> OnOff, max_size_ms |-> Between(0, I32Max),
         resync_threshold_ms |-> Between(0, I32Max),
         implementation |-> Words({"fixed", "adaptive"}), logging_enabled |-> OnOff,
         force_enabled |-> OnOff, target_extra_ms |-> Between(0, I32Max),
         video_sync_enabled |-> OnOff])

DuplexSection ==
    Restarted("duplex", [radio_mode |-> Between(0, 1), local_repeat_level |-> Between(0, 999)])

DiagnosticsSection ==
    Reloaded("diagnostics", [status_publication_interval_ms |-> Between(1, U32Max)])

GeneralSection == Restarted("general", [channel_enabled |-> OnOff])

\* configuration_catalog, by the kind of section its entries write to.
Kinds == StationKinds \cup Roles \cup {"general"}

HardwarePage ==
    [hardware |-> UsbSection @@ HardwareAudioSections @@ GpioSection @@ ParallelSection
                  @@ SignalingSection,
     receive |-> ReceiveSection, transmit |-> TransmitSection, ctcss |-> CtcssSection,
     dcs |-> DcsSection]

FullCatalog ==
    HardwarePage
    @@ [role \in Roles |-> ProcessingPage(role)]
    @@ [asterisk |-> AsteriskSection, duplex |-> DuplexSection,
        diagnostics |-> DiagnosticsSection, general |-> GeneralSection]

\* standalone_configuration_catalog leaves out what Asterisk owns.
AsteriskOwned == {<<"duplex", "local_repeat_level">>, <<"hardware", "voter_reporting">>,
                  <<"receive", "squelch_delay_ms">>}

OfferedKeys(kind, standalone) ==
    IF standalone /\ kind \in {"asterisk", "general"} THEN {}
    ELSE DOMAIN FullCatalog[kind] \ (IF standalone THEN AsteriskOwned ELSE {})

---------------------------------------------------------------------------
(* Editors *)

\* What an operator can get through an editor, at its limits: every choice,
\* both ends of a range and a value inside (half a decibel, of a gain), one,
\* two or too many tones, two stage orders, a text with a comment sign in it
\* or before it (validate_text asks only that something was entered), and the
\* request to fall back on the inherited value where the editor has it.
Inherit == Word("inherit")
HasInherit(key) == key[2] \in OutputPins \cup InputPins

ValuesAtLimits(editor) ==
    CASE editor.is = "number" ->
             {Num(editor.min), Num(editor.max)}
             \cup {Num(n) : n \in
                      {m \in {editor.min + (editor.max - editor.min) \div 2 + 5} : m < editor.max}}
      [] editor.is = "word"   -> {Word(w) : w \in editor.words}
      [] editor.is = "text"   -> {Word("text"), Commented(Word("text")), Commented(NoText)}
                                 \cup (IF editor.empty THEN {NoText} ELSE {})
      [] editor.is = "tones"  -> {Tones(1), Tones(2), Tones(MaxTones + 1)}
      [] editor.is = "stages" -> {Stages(OptionalStages), Stages({"limiter"})}

Offered(kind, key) ==
    ValuesAtLimits(FullCatalog[kind][key].editor)
    \cup (IF HasInherit(key) THEN {Inherit} ELSE {})

\* visible_settings: the compressor and the limiter show the settings of
\* their single band or of their three bands, by the layout in force.
Visible(kind, key, layout) ==
    CASE key[2] \in {"low_crossover_hz", "high_crossover_hz"} -> layout[key[1]] = "3"
      [] key[1] \in {"compressor", "limiter"} /\
             key[2] \in {"threshold_dbfs", "ratio", "makeup_gain_db", "knee_db",
                         "attack_ms", "release_ms"} -> layout[key[1]] = "1"
      [] key[1] \in {"compressor_low", "compressor_mid", "compressor_high"} ->
             layout["compressor"] = "3"
      [] key[1] \in {"limiter_low", "limiter_mid", "limiter_high"} -> layout["limiter"] = "3"
      [] OTHER -> TRUE

=============================================================================
