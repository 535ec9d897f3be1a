--------------------------- MODULE MCSoundIoCore ---------------------------
(***************************************************************************)
(* Devices for SoundIoCore: one that has every default, one that has none  *)
(* of them, a capture device, and one that could not be probed.            *)
(***************************************************************************)
EXTENDS SoundIoCore

MCBackends == <<"jack", "alsa", "dummy">>
DeviceSymmetry == Permutations(Devices)

Rates(a, b) == [min |-> a, max |-> b]

MCCapabilities ==
  {[aim |-> "out", probe_error |-> FALSE, formats |-> <<"s16", "float32">>, layouts |-> <<1, 2>>,
    sample_rates |-> <<Rates(1, 2), Rates(3, 4)>>],
   [aim |-> "out", probe_error |-> FALSE, formats |-> <<"s16">>, layouts |-> <<1, 6>>,
    sample_rates |-> <<Rates(4, 4), Rates(1, 2)>>],
   [aim |-> "in", probe_error |-> FALSE, formats |-> <<"float32">>, layouts |-> <<1>>,
    sample_rates |-> <<Rates(1, 2)>>],
   [aim |-> "out", probe_error |-> TRUE, formats |-> <<>>, layouts |-> <<>>, sample_rates |-> <<>>]}
=============================================================================
