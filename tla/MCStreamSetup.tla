--------------------------- MODULE MCStreamSetup ---------------------------
(***************************************************************************)
(* StreamSetup on a few devices that come and go: two microphones of one   *)
(* name, a third that is called as one of them would be numbered, two      *)
(* loudspeakers, one of which has a microphone, and a device that cannot   *)
(* tell its name.                                                          *)
(***************************************************************************)
EXTENDS StreamSetup

Range(channels, min, max, format) ==
  [channels |-> channels, min |-> min, max |-> max, sample_format |-> format]

Config(channels, rate, format) ==
  [channels |-> channels, sample_rate |-> rate, sample_format |-> format]

Device(unit, name, inputs, input, outputs, output) ==
  [unit |-> unit, name |-> name,
   ranges |-> [Input |-> inputs, Output |-> outputs],
   default |-> [Input |-> input, Output |-> output]]

Mic == Device("mic", <<"Mic">>,
              <<Range(1, 8000, 48000, "i16"), Range(1, 8000, 48000, "f32")>>,
              Config(1, 48000, "i16"), <<>>, NoConfig)

OldMic == Device("old mic", <<"Mic">>,
                 <<Range(2, 11025, 11025, "f32"), Range(1, 8030, 22050, "i32")>>,
                 Config(2, 11025, "f32"), <<>>, NoConfig)

OddMic == Device("odd mic", <<"Mic", 1>>,
                 <<Range(2, 44100, 192000, "i32")>>, Config(2, 44100, "f64"), <<>>, NoConfig)

Speaker == Device("speaker", <<"Speaker">>, <<>>, NoConfig,
                  <<Range(2, 8000, 192000, "f32"), Range(6, 44100, 48000, "f32"),
                    Range(2, 44100, 48000, "u16")>>,
                  Config(2, 44100, "f32"))

Headset == Device("headset", <<"Speaker">>,
                  <<Range(1, 16000, 16300, "f32")>>, Config(1, 16000, "f32"),
                  <<Range(2, 32015, 48000, "i32"), Range(2, 44100, 44100, "f32")>>,
                  Config(2, 48000, "u16"))

Ghost == Device("ghost", NoName, <<Range(1, 8000, 48000, "f32")>>, Config(1, 8000, "f32"),
                <<Range(2, 8000, 48000, "f32")>>, Config(2, 8000, "f32"))

MCHosts ==
  {[devices |-> <<Mic, OldMic, Speaker>>, input |-> 1, output |-> 3],
   [devices |-> <<OldMic, Speaker>>, input |-> 1, output |-> 2],
   [devices |-> <<Mic, OldMic, OddMic, Speaker>>, input |-> 2, output |-> 4],
   [devices |-> <<Ghost, Mic, OldMic, Speaker>>, input |-> 2, output |-> 4],
   [devices |-> <<Speaker, Headset>>, input |-> 2, output |-> 2],
   [devices |-> <<Headset, Mic, OldMic>>, input |-> 3, output |-> 0],
   [devices |-> <<Headset, Ghost>>, input |-> 1, output |-> 2]}

MCLocalConfigs ==
  {Config(2, 48000, "f32"), Config(1, 44100, "f32"), Config(2, 44100, "i32"),
   Config(2, 44100, "i16")}

MCTypedRates == {8000, 8030, 11020, 11025, 16250, 16300, 22050, 32010, 44100, 48000}
=============================================================================
