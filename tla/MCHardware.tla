----------------------------- MODULE MCHardware -----------------------------
(* Hardware for TLC: a small guest, with two devices in most categories. *)
EXTENDS Hardware

Of(class, named, usb) == [class |-> class, named |-> named, usb |-> usb]
SomeDevices ==
  <<Of("Disk", TRUE, FALSE), Of("Controller", FALSE, FALSE), Of("Controller", FALSE, TRUE),
    Of("Network", TRUE, FALSE), Of("Network", FALSE, FALSE), Of("Input", FALSE, FALSE),
    Of("Graphics", FALSE, FALSE), Of("Video", FALSE, FALSE)>>
=============================================================================
