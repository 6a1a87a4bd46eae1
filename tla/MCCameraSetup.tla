---------------------------- MODULE MCCameraSetup ----------------------------
(* The configurations for TLC: every size, each format and clock, one frame *)
(* buffer, two and none, and a format camera_init refuses.                  *)
EXTENDS CameraSetup

Config(framesize, format, highspeed, count) ==
  [framesize |-> framesize, format |-> format, highspeed |-> highspeed, fb_count |-> count,
   quality |-> 12, reset_pin |-> highspeed]

MCConfigs ==
  {Config(s, "YUV422", TRUE, 1) : s \in 0..10} \cup {Config(s, "GRAYSCALE", FALSE, 1) : s \in 0..10}
  \cup {Config(7, "JPEG", FALSE, 1), Config(7, "JPEG", TRUE, 2), Config(8, "YUV422", FALSE, 1),
        Config(8, "GRAYSCALE", TRUE, 1), Config(4, "RGB565", TRUE, 0), Config(4, "RGB888", TRUE, 1)}
MCTuned == "wpc" :> {0, 1} @@ "vflip" :> {1} @@ "quality" :> {70}
=============================================================================
