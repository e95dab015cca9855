-------------------------------- MODULE MCVideo --------------------------------
(* Small files for the video session. *)
EXTENDS VideoSession

Track(codec) == [video |-> TRUE, entries |-> <<codec>>]

Boxes == [tracks |-> <<[video |-> FALSE, entries |-> <<"AAC">>], Track("H264")>>,
          delays |-> <<>>, stco |-> <<10, 20>>, stsc |-> <<[first |-> 1, per |-> 2]>>,
          stsz |-> [fixed |-> 0, sizes |-> <<3, 2, 1>>], stts |-> <<[count |-> 3, delta |-> 1]>>,
          stss |-> {1}, duration |-> 3, cut |-> {}]

MCFiles ==
  {\* samples of one size, fewer than the chunks hold
   [Boxes EXCEPT !.stsz = [fixed |-> 2, sizes |-> <<>>]],
   \* the entries change from chunk to chunk, a keyframe in the middle, a cut sample
   [Boxes EXCEPT !.stsc = <<[first |-> 1, per |-> 1], [first |-> 2, per |-> 2]>>,
                 !.stts = <<[count |-> 1, delta |-> 2], [count |-> 2, delta |-> 1]>>,
                 !.stss = {1, 3}, !.duration = 4, !.cut = {2}],
   \* every sample a keyframe, durations that end early, no duration
   [Boxes EXCEPT !.tracks = <<Track("H265")>>, !.stco = <<5, 9, 11>>,
                 !.stsc = <<[first |-> 1, per |-> 1], [first |-> 3, per |-> 3]>>,
                 !.stts = <<[count |-> 2, delta |-> 1]>>,
                 !.stss = AllSync, !.duration = 0],
   [Boxes EXCEPT !.tracks = <<Track("VP9")>>],
   \* GIFs on time and behind
   [Boxes EXCEPT !.tracks = <<>>, !.delays = <<2, 3>>],
   [Boxes EXCEPT !.tracks = <<>>, !.delays = <<0, 2, 1>>],
   [Boxes EXCEPT !.tracks = <<>>]}
==============================================================================
