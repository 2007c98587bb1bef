------------------------------ MODULE Settings ------------------------------
(***************************************************************************)
(* The settings of a radio channel, three times over, as the code has      *)
(* them: what the resolver takes (core/src/station_config.rs and           *)
(* profile_resolution.rs), what the final validation of a processing chain *)
(* takes (processing_profile.rs), and what the tuning tool's editors offer *)
(* (tune/src/catalog.rs), with the shipped defaults.                       *)
(*                                                                         *)
(* A value is a word, a number (tenths where the code has a floating-point *)
(* field), the number of tones of a tone list or the set of stages of a    *)
(* stage order.  A key is a stage or section and the name of the field.    *)
(***************************************************************************)
EXTENDS Integers, FiniteSets, TLC

Word(w) == [is |-> "word", w |-> w]
Num(n) == [is |-> "number", n |-> n]
Tones(n) == [is |-> "tones", n |-> n]
Stages(S) == [is |-> "stages", stages |-> S]
\* A value with a comment sign and more text behind it, on one line.
Commented(value) == [is |-> "commented", value |-> value]
Yes == Word("yes")
No == Word("no")
Garbled == Word("garbled")          \* text no setting but a free one takes

Between(lo, hi) == [is |-> "number", min |-> lo, max |-> hi]
Words(S) == [is |-> "word", words |-> S]
OnOff == Words({"yes", "no"})
FreeText == [is |-> "text", empty |-> TRUE]
SomeText == [is |-> "text", empty |-> FALSE]
ToneList == [is |-> "tones"]
StageList == [is |-> "stages"]

I16Max == 32767
I32Max == 2147483647
U32Max == 2147483647               \* 2^32 - 1, cut to TLC's integers
Unbounded == 3600000               \* a finite stand-in for "any positive number"
MaxTones == 38
NoText == Word("")

\* assignment: what is read back of a value ends at the comment sign.
ReadBack(value) == IF value.is = "commented" THEN value.value ELSE value

\* The fields of one stage or section, as keys of the file.
Of(stage, fields) ==
    [key \in {<<stage, field>> : field \in DOMAIN fields} |-> fields[key[2]]]

Takes(spec, value) ==
    CASE spec.is = "text"   -> value.is = "word" /\ (spec.empty \/ value # NoText)
      [] spec.is = "number" -> value.is = "number" /\ value.n \in spec.min .. spec.max
      [] spec.is = "word"   -> value.is = "word" /\ value.w \in spec.words
      [] spec.is = "tones"  -> value.is = "tones" /\ value.n \in 1..MaxTones
      [] spec.is = "stages" -> value.is = "stages"

OptionalStages == {"equalizer", "expander", "agc", "deesser", "compressor", "limiter"}
Roles == {"local", "link", "voice_telemetry"}
DcsCodes == {"023N", "023I"}       \* two of the codes an operator may enter

---------------------------------------------------------------------------
(* What the station resolver takes *)

OutputRoutes == {"off", "voice", "ctcss", "voice_ctcss", "auxvoice"}
SignalingMethods == {"carrier", "ctcss", "dcs"}
AudioSources == {"no", "speaker", "flat"}
VadModes == {"off", "kerchunk", "on"}
CarrierSources ==
    {"no", "dsp", "vox", "external", "open", "usb", "usbinvert", "pp", "ppinvert"}
CtcssSources == {"no", "usb", "usbinvert", "dsp", "pp", "ppinvert"}
TurnoffModes == {"no", "ctcss_phase_shift", "ctcss_tone_remove", "ctcss_tail_tone"}
JitterBuffers == {"fixed", "adaptive"}
GpioModes == {"in", "out0", "out1"}
ParallelOutputs == {"out0", "out1", "ptt"}
ParallelInputs == {"in", "cor", "ctcss"}
Pins == {"gpio_1_mode", "gpio_2_mode", "gpio_3_mode", "gpio_4_mode",
         "gpio_5_mode", "gpio_6_mode", "gpio_7_mode", "gpio_8_mode"}
OutputPins == {"parallel_pin_2", "parallel_pin_3", "parallel_pin_4", "parallel_pin_5",
               "parallel_pin_6", "parallel_pin_7", "parallel_pin_8", "parallel_pin_9"}
InputPins == {"parallel_pin_10", "parallel_pin_12", "parallel_pin_13", "parallel_pin_15"}

ApplyAsterisk == Of("asterisk",
    [enabled |-> OnOff, max_size_ms |-> Between(0, I32Max),
     resync_threshold_ms |-> Between(0, I32Max),
     implementation |-> Words(JitterBuffers), logging_enabled |-> OnOff,
     force_enabled |-> OnOff, target_extra_ms |-> Between(0, I32Max),
     video_sync_enabled |-> OnOff])

ApplyHardware == Of("hardware",
    [input_gain_db |-> Between(-300, 300), output_a_gain_db |-> Between(-300, 300),
     output_b_gain_db |-> Between(-300, 300), input_extra_buffer_ms |-> Between(0, 500),
     output_extra_buffer_ms |-> Between(0, 500),
     output_a_assignment |-> Words(OutputRoutes),
     output_b_assignment |-> Words(OutputRoutes), ptt_inverted |-> OnOff,
     deemphasis_corner_hz |-> Between(1, 5000), preemphasis_corner_hz |-> Between(1, 5000),
     device_identifier |-> FreeText, serial |-> FreeText,
     interface_type |-> Between(0, 3), eeprom_enabled |-> OnOff,
     gpio_usb_port_path |-> FreeText, voter_reporting |-> Between(0, I32Max),
     clip_led_gpio |-> Between(0, 8), parallel_port_device |-> SomeText,
     parallel_port_base_address |-> Between(1, U32Max)]
    @@ [pin \in Pins |-> Words(GpioModes)]
    @@ [pin \in OutputPins |-> Words(ParallelOutputs)]
    @@ [pin \in InputPins |-> Words(ParallelInputs)])

ApplyReceive == Of("receive",
    [vad_mode |-> Words(VadModes), vad_hang_ms |-> Between(0, I16Max),
     signaling_method |-> Words(SignalingMethods),
     audio_source |-> Words(AudioSources),
     cos_assignment |-> Words(CarrierSources), vox_hang_ms |-> Between(0, I16Max),
     vox_threshold |-> Between(0, I16Max), noise_squelch_hysteresis |-> Between(0, I16Max),
     noise_filter_type |-> Between(0, 1), squelch_delay_ms |-> Between(0, 511),
     on_delay_frames |-> Between(0, 3000), squelch_level |-> Between(0, 999),
     frequency_hz |-> Between(0, I32Max)])

ApplyTransmit == Of("transmit",
    [signaling_method |-> Words(SignalingMethods), preemphasis_enabled |-> OnOff,
     settle_ms |-> Between(0, I32Max), rx_blanking_ms |-> Between(0, I16Max),
     off_delay_frames |-> Between(0, 3000), frequency_hz |-> Between(0, I32Max)])

ApplyCtcss == Of("ctcss",
    [receive_frequencies |-> ToneList, transmit_frequencies |-> ToneList,
     receive_source |-> Words(CtcssSources),
     receive_decoder_gain_db |-> Between(-600, 600), receive_override_enabled |-> OnOff,
     receive_relax |-> Between(0, 1), transmit_default_hz |-> Between(670, 2503),
     transmit_peak_dbfs |-> Between(-900, 0), turnoff_mode |-> Words(TurnoffModes),
     phase_shift_degrees |-> Between(1, Unbounded), tail_duration_ms |-> Between(40, I16Max),
     tail_frequency_hz |-> Between(1, Unbounded)])

ApplyDcs == Of("dcs",
    [receive_code |-> Words(DcsCodes), transmit_code |-> Words(DcsCodes),
     turnoff_code_enabled |-> OnOff, turnoff_duration_ms |-> Between(150, 200),
     peak_dbfs |-> Between(-900, 0)])

ApplyDuplex == Of("duplex",
    [radio_mode |-> Between(0, 1), local_repeat_level |-> Between(0, 999)])

ApplyDiagnostics == Of("diagnostics",
    [status_publication_interval_ms |-> Between(1, U32Max)])

---------------------------------------------------------------------------
(* What the processing resolver takes *)

Limited(threshold, attack, release) ==
    [threshold_dbfs |-> Between(threshold, -10), ratio |-> Between(10, 200),
     knee_db |-> Between(0, 180), attack_ms |-> Between(1, attack),
     release_ms |-> Between(10, release)]
Compressed ==
    [threshold_dbfs |-> Between(-600, 0), ratio |-> Between(10, 200),
     makeup_gain_db |-> Between(-300, 300), attack_ms |-> Between(10, 10000),
     release_ms |-> Between(10, 90000)]
Knee == [knee_db |-> Between(0, 180)]

ApplyShaping ==
    Of("chain", [enabled |-> OnOff, stage_order |-> StageList,
                 input_gain_db |-> Between(-300, 300), output_gain_db |-> Between(-300, 300)])
    @@ Of("equalizer",
          [enabled |-> OnOff, low_gain_db |-> Between(-120, 120),
           low_frequency_hz |-> Between(200, 10000), low_slope |-> Between(1, 10),
           mid_gain_db |-> Between(-120, 120), mid_frequency_hz |-> Between(1000, 40000),
           mid_width_octaves |-> Between(1, 40), high_gain_db |-> Between(-120, 120),
           high_frequency_hz |-> Between(10000, 50000), high_slope |-> Between(1, 10)])
    @@ Of("deesser",
          [enabled |-> OnOff, frequency_hz |-> Between(20000, 80000),
           width_octaves |-> Between(1, 40), threshold_dbfs |-> Between(-600, -10),
           ratio |-> Between(10, 200), max_reduction_db |-> Between(1, 200),
           attack_ms |-> Between(1, 1000), release_ms |-> Between(10, 20000)])
    @@ Of("agc",
          [enabled |-> OnOff, target_lufs |-> Between(-400, -30),
           max_gain_db |-> Between(0, 300), max_attenuation_db |-> Between(0, 600),
           loudness_window_ms |-> Between(4000, 30000),
           gain_increase_db_per_second |-> Between(1, 1000),
           gain_decrease_db_per_second |-> Between(1, 1000),
           activity_threshold_dbfs |-> Between(-1000, -30),
           activity_hysteresis_db |-> Between(0, 120), hold_ms |-> Between(0, 100000),
           deadband_db |-> Between(0, 60)])
    @@ Of("expander",
          [enabled |-> OnOff, threshold_dbfs |-> Between(-1000, -100),
           ratio |-> Between(10, 100), max_attenuation_db |-> Between(0, 400),
           attack_ms |-> Between(10, 10000), release_ms |-> Between(10, 100000),
           sidechain_highpass_hz |-> Between(500, 20000),
           sidechain_lowpass_hz |-> Between(500, 35000)])

Split(stage) ==
    Of(stage, [enabled |-> OnOff, bands |-> Words({"1", "3"}),
               low_crossover_hz |-> Between(1000, 20000),
               high_crossover_hz |-> Between(1000, 50000)])

ApplyDynamics ==
    Split("compressor")
    @@ Of("compressor", Compressed)
    @@ Of("compressor_low", Compressed @@ Knee)
    @@ Of("compressor_mid", Compressed @@ Knee)
    @@ Of("compressor_high", Compressed @@ Knee)
    @@ Of("compressor", [sidechain_highpass_hz |-> Between(500, 20000),
                         sidechain_lowpass_hz |-> Between(500, 35000)])
    @@ Split("limiter")
    @@ Of("limiter", Limited(-400, 10000, 90000))
    @@ Of("limiter_low", Limited(-400, 10000, 90000))
    @@ Of("limiter_mid", Limited(-400, 10000, 90000))
    @@ Of("limiter_high", Limited(-300, 1000, 10000))

ApplyReceiveFilters ==
    Of("rnnoise", [enabled |-> OnOff])
    @@ Of("receive_bandpass", [enabled |-> OnOff, highpass_hz |-> Between(200, 20000),
                               lowpass_hz |-> Between(200, 60000)])
    @@ Of("ctcss_filter", [mode |-> Words({"disabled", "highpass", "notch"}),
                           notch_width_hz |-> Between(100, 100),
                           highpass_hz |-> Between(500, 5000)])

ApplyPeakLimiter == Of("lookahead_limiter",
    [enabled |-> OnOff, oversample |-> Words({"1", "2", "4"}),
     ceiling_dbfs |-> Between(-300, -1), lookahead_ms |-> Between(1, 200),
     attack_ms |-> Between(1, 200), release_ms |-> Between(10, 50000)])

ApplyTail == Of("post_limiter_bandpass",
    [enabled |-> OnOff, highpass_hz |-> Between(0, 3000), lowpass_hz |-> Between(25000, 200000)])

\* The settings outside this role's schema are reported and ignored.
ApplyProcessing(role) ==
    ApplyShaping @@ ApplyDynamics @@ ApplyPeakLimiter
    @@ (IF role = "local" THEN ApplyReceiveFilters ELSE <<>>)
    @@ (IF role = "voice_telemetry" THEN ApplyTail ELSE <<>>)

General == Of("general", [channel_enabled |-> OnOff])

ProcessingSchemas == [role \in Roles |-> ApplyProcessing(role)]

\* PROFILE_KINDS and the processing roles, each with its schema.
StationKinds ==
    {"asterisk", "hardware", "receive", "transmit", "ctcss", "dcs", "duplex", "diagnostics"}

Schema(kind) ==
    CASE kind = "general"     -> General
      [] kind = "asterisk"    -> ApplyAsterisk
      [] kind = "hardware"    -> ApplyHardware
      [] kind = "receive"     -> ApplyReceive
      [] kind = "transmit"    -> ApplyTransmit
      [] kind = "ctcss"       -> ApplyCtcss
      [] kind = "dcs"         -> ApplyDcs
      [] kind = "duplex"      -> ApplyDuplex
      [] kind = "diagnostics" -> ApplyDiagnostics
      [] kind \in Roles       -> ProcessingSchemas[kind]

---------------------------------------------------------------------------
(* Shipped defaults *)

AsteriskDefaults == Of("asterisk",
    [enabled |-> No, max_size_ms |-> Num(200), resync_threshold_ms |-> Num(1000),
     implementation |-> Word("fixed"), logging_enabled |-> No, force_enabled |-> No,
     target_extra_ms |-> Num(40), video_sync_enabled |-> No])

HardwareDefaults == Of("hardware",
    [input_gain_db |-> Num(0), output_a_gain_db |-> Num(0), output_b_gain_db |-> Num(0),
     input_extra_buffer_ms |-> Num(0), output_extra_buffer_ms |-> Num(0),
     output_a_assignment |-> Word("voice_ctcss"), output_b_assignment |-> Word("off"),
     ptt_inverted |-> No, deemphasis_corner_hz |-> Num(3000),
     preemphasis_corner_hz |-> Num(3000), device_identifier |-> NoText, serial |-> NoText,
     interface_type |-> Num(0), eeprom_enabled |-> Yes, gpio_usb_port_path |-> NoText,
     voter_reporting |-> Num(0), clip_led_gpio |-> Num(0),
     parallel_port_device |-> Word("/dev/parport0"),
     parallel_port_base_address |-> Num(888)]
    @@ [pin \in Pins |-> Word("in")]
    @@ [pin \in OutputPins \cup InputPins |-> Word("unconfigured")])

ReceiveDefaults == Of("receive",
    [signaling_method |-> Word("carrier"), audio_source |-> Word("flat"),
     cos_assignment |-> Word("dsp"), vox_hang_ms |-> Num(2000), vox_threshold |-> Num(0),
     vad_mode |-> Word("off"), vad_hang_ms |-> Num(1000),
     noise_squelch_hysteresis |-> Num(3000), noise_filter_type |-> Num(0),
     squelch_delay_ms |-> Num(0), on_delay_frames |-> Num(0), squelch_level |-> Num(500),
     frequency_hz |-> Num(0)])

TransmitDefaults == Of("transmit",
    [signaling_method |-> Word("carrier"), preemphasis_enabled |-> Yes,
     settle_ms |-> Num(500), rx_blanking_ms |-> Num(0), off_delay_frames |-> Num(0),
     frequency_hz |-> Num(0)])

CtcssDefaults == Of("ctcss",
    [receive_frequencies |-> Tones(1), transmit_frequencies |-> Tones(1),
     receive_source |-> Word("dsp"), receive_decoder_gain_db |-> Num(0),
     receive_override_enabled |-> No, receive_relax |-> Num(1),
     transmit_default_hz |-> Num(1000), transmit_peak_dbfs |-> Num(-240),
     turnoff_mode |-> Word("ctcss_phase_shift"), phase_shift_degrees |-> Num(1200),
     tail_duration_ms |-> Num(180), tail_frequency_hz |-> Num(550)])

OtherDefaults ==
    Of("dcs", [receive_code |-> Word("023N"), transmit_code |-> Word("023N"),
               turnoff_code_enabled |-> Yes, turnoff_duration_ms |-> Num(180),
               peak_dbfs |-> Num(-240)])
    @@ Of("duplex", [radio_mode |-> Num(0), local_repeat_level |-> Num(0)])
    @@ Of("diagnostics", [status_publication_interval_ms |-> Num(50)])
    @@ Of("general", [channel_enabled |-> Yes])

StationDefaults ==
    AsteriskDefaults @@ HardwareDefaults @@ ReceiveDefaults @@ TransmitDefaults
    @@ CtcssDefaults @@ OtherDefaults

EqualizerDefaults ==
    Of("equalizer",
       [enabled |-> Yes, low_gain_db |-> Num(20), low_frequency_hz |-> Num(5000),
        low_slope |-> Num(7), mid_gain_db |-> Num(-5), mid_frequency_hz |-> Num(10000),
        mid_width_octaves |-> Num(10), high_gain_db |-> Num(-10),
        high_frequency_hz |-> Num(20000), high_slope |-> Num(7)])
    @@ Of("deesser",
          [enabled |-> No, frequency_hz |-> Num(40000), width_octaves |-> Num(10),
           threshold_dbfs |-> Num(-180), ratio |-> Num(30), max_reduction_db |-> Num(40),
           attack_ms |-> Num(20), release_ms |-> Num(600)])

ShapingDefaults ==
    Of("agc",
       [enabled |-> No, target_lufs |-> Num(-230), max_gain_db |-> Num(60),
        max_attenuation_db |-> Num(60), loudness_window_ms |-> Num(4000),
        gain_increase_db_per_second |-> Num(20), gain_decrease_db_per_second |-> Num(60),
        activity_threshold_dbfs |-> Num(-500), activity_hysteresis_db |-> Num(30),
        hold_ms |-> Num(5000), deadband_db |-> Num(10)])
    @@ Of("expander",
          [enabled |-> No, threshold_dbfs |-> Num(-550), ratio |-> Num(15),
           max_attenuation_db |-> Num(90), attack_ms |-> Num(100),
           release_ms |-> Num(2500), sidechain_highpass_hz |-> Num(8000),
           sidechain_lowpass_hz |-> Num(15000)])

Band(threshold, ratio, knee, attack, release) ==
    [threshold_dbfs |-> Num(threshold), ratio |-> Num(ratio), knee_db |-> Num(knee),
     attack_ms |-> Num(attack), release_ms |-> Num(release)]

SplitDefaults == [enabled |-> No, bands |-> Word("3"),
                  low_crossover_hz |-> Num(5000), high_crossover_hz |-> Num(20000)]

DynamicsDefaults ==
    LET band == Band(-60, 20, 90, 750, 3000) @@ [makeup_gain_db |-> Num(0)]
    IN  Of("compressor", SplitDefaults @@ band @@ [sidechain_highpass_hz |-> Num(8000),
                                                   sidechain_lowpass_hz |-> Num(15000)])
        @@ Of("compressor_low", band) @@ Of("compressor_mid", band)
        @@ Of("compressor_high", band)
        @@ Of("limiter", SplitDefaults @@ Band(-15, 200, 0, 10, 500))
        @@ Of("limiter_low", Band(-15, 100, 60, 500, 2500))
        @@ Of("limiter_mid", Band(-15, 100, 60, 100, 1000))
        @@ Of("limiter_high", Band(-15, 200, 60, 5, 250))

FilterDefaults ==
    Of("rnnoise", [enabled |-> No])
    @@ Of("receive_bandpass", [enabled |-> Yes, highpass_hz |-> Num(200),
                               lowpass_hz |-> Num(50000)])
    @@ Of("ctcss_filter", [mode |-> Word("highpass"), notch_width_hz |-> Num(100),
                           highpass_hz |-> Num(3000)])
    @@ Of("lookahead_limiter", [enabled |-> No, ceiling_dbfs |-> Num(-30),
                                oversample |-> Word("4"), lookahead_ms |-> Num(50),
                                attack_ms |-> Num(10), release_ms |-> Num(1000)])
    @@ Of("post_limiter_bandpass", [enabled |-> No, highpass_hz |-> Num(0),
                                    lowpass_hz |-> Num(80000)])

\* ProcessingChain::shipped
Shipped(role) ==
    LET gains == [enabled |-> Yes, stage_order |-> Stages(OptionalStages)]
                 @@ (IF role = "voice_telemetry"
                     THEN [input_gain_db |-> Num(60), output_gain_db |-> Num(0)]
                     ELSE [input_gain_db |-> Num(0), output_gain_db |-> Num(-62)])
        filters == IF role = "local" THEN FilterDefaults
                   ELSE [FilterDefaults EXCEPT ![<<"receive_bandpass", "enabled">>] = No,
                                               ![<<"ctcss_filter", "mode">>] = Word("disabled")]
    IN  Of("chain", gains) @@ EqualizerDefaults @@ ShapingDefaults
        @@ DynamicsDefaults @@ filters

ShippedChains == [role \in Roles |-> Shipped(role)]

---------------------------------------------------------------------------
(* Validation of what was resolved *)

\* StationConfig::validate: what no single setting can be blamed for.
StationValid(config) ==
    LET at(section, field) == config[<<section, field>>].w
        receive == at("receive", "signaling_method")
        transmit == at("transmit", "signaling_method")
        signaling == {"ctcss", "voice_ctcss"}
    IN  /\ ~(receive = "ctcss" /\ at("ctcss", "receive_source") = "no")
        /\ receive = "ctcss" /\ transmit = "ctcss" =>
               config[<<"ctcss", "receive_frequencies">>]
                   = config[<<"ctcss", "transmit_frequencies">>]
        /\ transmit \in {"ctcss", "dcs"} =>
               \/ at("hardware", "output_a_assignment") \in signaling
               \/ at("hardware", "output_b_assignment") \in signaling

InLimits(chain, stage, limits) ==
    \A field \in DOMAIN limits : Takes(limits[field], chain[<<stage, field>>])

Exceeds(chain, stage, upper, lower) ==
    chain[<<stage, upper>>].n > chain[<<stage, lower>>].n

ValidateFilters(chain) ==
    /\ InLimits(chain, "receive_bandpass", [highpass_hz |-> Between(200, 20000),
                                            lowpass_hz |-> Between(200, 60000)])
    /\ Exceeds(chain, "receive_bandpass", "lowpass_hz", "highpass_hz")
    /\ InLimits(chain, "ctcss_filter", [notch_width_hz |-> Between(100, 100),
                                        highpass_hz |-> Between(500, 5000)])

ValidateEqualizer(chain) ==
    InLimits(chain, "equalizer",
        [low_gain_db |-> Between(-120, 120), low_frequency_hz |-> Between(200, 10000),
         low_slope |-> Between(1, 10), mid_gain_db |-> Between(-120, 120),
         mid_frequency_hz |-> Between(1000, 40000), mid_width_octaves |-> Between(1, 40),
         high_gain_db |-> Between(-120, 120), high_frequency_hz |-> Between(10000, 50000),
         high_slope |-> Between(1, 10)])

ValidateDeesser(chain) ==
    InLimits(chain, "deesser",
        [frequency_hz |-> Between(20000, 80000), width_octaves |-> Between(1, 40),
         threshold_dbfs |-> Between(-600, -10), ratio |-> Between(10, 200),
         max_reduction_db |-> Between(1, 200), attack_ms |-> Between(1, 1000),
         release_ms |-> Between(10, 20000)])

ValidateAgc(chain) ==
    InLimits(chain, "agc",
        [target_lufs |-> Between(-400, -30), max_gain_db |-> Between(0, 300),
         max_attenuation_db |-> Between(0, 600), loudness_window_ms |-> Between(4000, 30000),
         gain_increase_db_per_second |-> Between(1, 1000),
         gain_decrease_db_per_second |-> Between(1, 1000),
         activity_threshold_dbfs |-> Between(-1000, -30),
         activity_hysteresis_db |-> Between(0, 120), hold_ms |-> Between(0, 100000),
         deadband_db |-> Between(0, 60)])

ValidateExpander(chain) ==
    /\ InLimits(chain, "expander",
           [threshold_dbfs |-> Between(-1000, -100), ratio |-> Between(10, 100),
            max_attenuation_db |-> Between(0, 400), attack_ms |-> Between(10, 10000),
            release_ms |-> Between(10, 100000), sidechain_highpass_hz |-> Between(500, 20000),
            sidechain_lowpass_hz |-> Between(500, 35000)])
    /\ Exceeds(chain, "expander", "sidechain_lowpass_hz", "sidechain_highpass_hz")

Crossovers(chain, stage) ==
    /\ InLimits(chain, stage, [low_crossover_hz |-> Between(1000, 20000),
                               high_crossover_hz |-> Between(1000, 50000)])
    /\ Exceeds(chain, stage, "high_crossover_hz", "low_crossover_hz")

ValidateCompressor(chain) ==
    /\ Crossovers(chain, "compressor")
    /\ \A band \in {"compressor", "compressor_low", "compressor_mid", "compressor_high"} :
           InLimits(chain, band, Compressed @@ Knee)
    /\ InLimits(chain, "compressor", [sidechain_highpass_hz |-> Between(500, 20000),
                                      sidechain_lowpass_hz |-> Between(500, 35000)])
    /\ Exceeds(chain, "compressor", "sidechain_lowpass_hz", "sidechain_highpass_hz")

ValidateLimiter(chain) ==
    /\ Crossovers(chain, "limiter")
    /\ \A band \in {"limiter", "limiter_low", "limiter_mid"} :
           InLimits(chain, band, Limited(-400, 10000, 90000))
    /\ InLimits(chain, "limiter_high", Limited(-300, 1000, 10000))

ValidatePeakLimiter(chain) ==
    InLimits(chain, "lookahead_limiter",
        [oversample |-> Words({"1", "2", "4"}), ceiling_dbfs |-> Between(-300, -1),
         lookahead_ms |-> Between(1, 200), attack_ms |-> Between(1, 200),
         release_ms |-> Between(10, 50000)])

ValidateTail(chain) ==
    InLimits(chain, "post_limiter_bandpass",
        [highpass_hz |-> Between(0, 3000), lowpass_hz |-> Between(25000, 200000)])

EnabledStages(chain) == {stage \in OptionalStages : chain[<<stage, "enabled">>] = Yes}

\* ProcessingChain::validate
ChainValid(role, chain) ==
    /\ EnabledStages(chain) \subseteq chain[<<"chain", "stage_order">>].stages
    /\ role # "local" =>
           /\ chain[<<"rnnoise", "enabled">>] = No
           /\ chain[<<"receive_bandpass", "enabled">>] = No
           /\ chain[<<"ctcss_filter", "mode">>] = Word("disabled")
    /\ role # "voice_telemetry" => chain[<<"post_limiter_bandpass", "enabled">>] = No
    /\ InLimits(chain, "chain", [input_gain_db |-> Between(-300, 300),
                                 output_gain_db |-> Between(-300, 300)])
    /\ ValidateFilters(chain) /\ ValidateEqualizer(chain) /\ ValidateDeesser(chain)
    /\ ValidateAgc(chain) /\ ValidateExpander(chain) /\ ValidateCompressor(chain)
    /\ ValidateLimiter(chain) /\ ValidatePeakLimiter(chain) /\ ValidateTail(chain)

=============================================================================
