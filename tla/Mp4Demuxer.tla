------------------------------ MODULE Mp4Demuxer ------------------------------
(***************************************************************************)
(* The MP4 demuxer of the video decoder (crates/video-decoder,             *)
(* demux/mp4.rs): the sample table built from the boxes of the track, the  *)
(* packets read from it one after the other, and the seek to a keyframe.   *)
(*                                                                         *)
(* A file is a record of its boxes; those after tracks are of the first    *)
(* video track.  A track is [video, entries], an entry of its descriptions *)
(* a codec or NoVideo.  The bytes of a sample are the NAL units in it, each *)
(* with whether its bytes are all there; composition offsets are left out, *)
(* no session reads them.  Time is in ticks.                               *)
(***************************************************************************)
EXTENDS Integers, Sequences, FiniteSets, SequencesExt

CONSTANTS Files  \* the files: [tracks, stco, stsc, stsz, stts, stss, duration, cut]

NoVideo == "none"

\* extract_video_info: the codec of the first video entry of the first video track.
Codec(file) ==
  LET videos == SelectSeq(file.tracks, LAMBDA t : t.video)
      entries == IF videos = <<>> THEN <<>>
                 ELSE SelectSeq(Head(videos).entries, LAMBDA e : e # NoVideo)
  IN  IF entries = <<>> THEN NoVideo ELSE Head(entries)

\* Mp4Demuxer::new: what it opens.
Demuxes(file) == Codec(file) \in {"H264", "AV1", "VP9"}

\* The stss box is absent: every sample is a sync sample.
AllSync == {0}

\* The boxes of a track: the entries of stsc are in the order of the chunks they
\* begin at, from the first on, and no run of stts is empty.  stsz has one size
\* for all samples, or 0 and the size of each.
WellFormed(file) ==
  /\ file.stco \in Seq(Nat) /\ file.stsz \in [fixed : Nat, sizes : Seq(Nat)]
  /\ file.stsc \in Seq([first : Nat \ {0}, per : Nat])
  /\ \A n \in DOMAIN file.stsc :
       IF n = 1 THEN file.stsc[n].first = 1 ELSE file.stsc[n - 1].first < file.stsc[n].first
  /\ file.stts \in Seq([count : Nat \ {0}, delta : Nat])

-----------------------------------------------------------------------------
(* The sample table *)

\* What the first n of s add up to.
SumUpTo(s, n) ==
  LET sum[k \in 0 .. n] == IF k = 0 THEN 0 ELSE sum[k - 1] + s[k]
  IN sum[n]

\* The sizes of the samples: of a fixed size there are as many as the runs of
\* stts count.
Sizes(file) ==
  LET counts == [r \in DOMAIN file.stts |-> file.stts[r].count]
  IN IF file.stsz.fixed > 0
       THEN [k \in 1 .. SumUpTo(counts, Len(file.stts)) |-> file.stsz.fixed]
       ELSE file.stsz.sizes

\* Seeded fault: an entry begins one chunk late.
SamplesPerChunkLate(file, i) ==
  LET applies == {k \in 1 .. Len(file.stsc) :
                    \A m \in 1 .. k : m > 1 => file.stsc[m].first < i}
  IN IF applies = {} THEN 0 ELSE file.stsc[Cardinality(applies)].per

\* The samples of chunk i: the last of the leading stsc entries that begin at i
\* or before.
SamplesPerChunk(file, i) ==
  LET applies == {k \in 1 .. Len(file.stsc) :
                    \A m \in 1 .. k : file.stsc[m].first <= i}
  IN IF applies = {} THEN 0 ELSE file.stsc[Cardinality(applies)].per

\* The chunk of every sample slot, in order.
Slots(file) ==
  FlattenSeq([i \in 1 .. Len(file.stco) |->
                [n \in 1 .. SamplesPerChunk(file, i) |-> i]])

\* One sample: the next duration run is taken when the last one is used up.
AddSample(file, st, chunk) ==
  LET n == Len(st.samples)
      next == st.left = 0 /\ st.run < Len(file.stts)
      run == IF next THEN st.run + 1 ELSE st.run
      left == IF next THEN file.stts[run].count ELSE st.left
      offset == IF st.chunk = chunk THEN st.offset ELSE file.stco[chunk]
  IN IF n >= Len(Sizes(file)) THEN st
     ELSE [samples |-> Append(st.samples,
                         [offset |-> offset,
                          size |-> Sizes(file)[n + 1],
                          dts |-> st.dts,
                          sync |-> file.stss = AllSync \/ (n + 1) \in file.stss]),
           chunk |-> chunk,
           offset |-> offset + Sizes(file)[n + 1],
           dts |-> st.dts + (IF run = 0 THEN 0 ELSE file.stts[run].delta),
           run |-> run,
           left |-> IF left = 0 THEN 0 ELSE left - 1]

NoSamples == [samples |-> <<>>, chunk |-> 0, offset |-> 0, dts |-> 0, run |-> 0, left |-> 0]

SampleTable(file) ==
  LET slots == Slots(file)
      st[n \in 0 .. Len(slots)] ==
        IF n = 0 THEN NoSamples ELSE AddSample(file, st[n - 1], slots[n])
  IN st[Len(slots)].samples

-----------------------------------------------------------------------------
(* Packets *)

\* Length-prefixed NAL units to start codes: it stops at the first that runs
\* past the end of the data.
AvccToAnnexB(nals) ==
  LET whole == {k \in 1 .. Len(nals) : \A m \in 1 .. k : nals[m].whole}
  IN [k \in 1 .. Cardinality(whole) |-> nals[k].kind]

\* The parameter sets of the avcC record.
ParameterSets == <<"sps", "pps">>

\* What sample k of the file holds; the slice of a cut one runs past its end.
Stored(file, samples, k) ==
  <<[kind |-> IF samples[k].sync THEN "idr" ELSE "slice", whole |-> k \notin file.cut]>>

\* The packet of a sample: a keyframe carries the parameter sets.
Packet(file, samples, k) ==
  (IF samples[k].sync THEN ParameterSets ELSE <<>>) \o AvccToAnnexB(Stored(file, samples, k))

\* Seeded fault: the nearest sample, keyframe or not.
SeekCursorAny(samples, position) ==
  LET seen == {k \in 1 .. Len(samples) : \A m \in 1 .. k : samples[m].dts <= position}
  IN IF seen = {} THEN 1 ELSE Cardinality(seen)

\* The cursor after a seek to position: the last sync sample that begins at it or
\* before, among the samples up to the first that begins after it; else the first.
SeekCursor(samples, position) ==
  LET seen == {k \in 1 .. Len(samples) : \A m \in 1 .. k : samples[m].dts <= position}
      sync == {k \in seen : samples[k].sync}
  IN IF sync = {} THEN 1 ELSE CHOOSE k \in sync : \A m \in sync : m <= k
==============================================================================
