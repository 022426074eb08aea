-------------------------------- MODULE Cuts --------------------------------
(***************************************************************************)
(* How a trim decides what to cut (trim.rs, and the still tracker of       *)
(* take_monitor.rs).  A recording is sampled twice a second; a tracker     *)
(* compares the medians of neighbouring triples of pictures and reports    *)
(* the stretches in which nothing moved; the silence found on each audio   *)
(* track is intersected with them; what is left is shortened, freed of the *)
(* surroundings of chapters and the end, and rounded to hundredths of a    *)
(* second.                                                                 *)
(*                                                                         *)
(* Time is counted in ticks of five milliseconds, half a hundredth of a    *)
(* second, so that rounding does something.  A picture is one gray level   *)
(* for all its pixels; two levels look the same when they differ by at     *)
(* most Noise (12 of 255 in the code).  Whole pictures may also change     *)
(* their size (level + Resized), which empties the tracker's window.       *)
(* Times that are not finite numbers do not occur here: the parsers reject *)
(* them.                                                                   *)
(***************************************************************************)
EXTENDS Integers, Sequences, SequencesExt

CONSTANTS
    Noise,       \* the largest difference that is no change
    Resized,     \* added to the level of a picture of another size
    MaxFrames,   \* bound on the pictures of one recording
    TrimRequests \* what is asked for and what the recording shows: the gray
                 \* levels of its pictures, its audio evidence, its chapters and by
                 \* how much its length differs from that of the sampled pictures

VARIABLE trim

trimVars == <<trim>>

Period == 100      \* SAMPLE_FPS = 2
HalfSecond == 100
Window == 6
MaxSheetFrames == 24
Absent == -1000    \* no value for an optional time
Larger(a, b) == IF a > b THEN a ELSE b
Smaller(a, b) == IF a < b THEN a ELSE b
Span(from, to) == [from |-> from, to |-> to]
Length(s) == s.to - s.from
RoundSeconds(t) == 2 * ((t + 1) \div 2)

-----------------------------------------------------------------------------
(* The still tracker *)

NewTracker == [samples |-> <<>>, from |-> Absent, last |-> Absent, qualified |-> FALSE, spans |-> <<>>]

Gray(luma) == luma % Resized
SameSize(a, b) == a \div Resized = b \div Resized
SameLuma(a, b) == SameSize(a, b) /\ Gray(a) - Gray(b) \in -Noise..Noise
Median(a, b, c) == Larger(Smaller(a, b), Smaller(Larger(a, b), c))
MedianOf(samples, i) == Median(samples[i].luma, samples[i + 1].luma, samples[i + 2].luma)

Close(t, at, minIdle) ==
    IF t.qualified /\ t.from # Absent /\ at - t.from >= minIdle
    THEN [t EXCEPT !.spans = Append(@, Span(t.from, at))] ELSE t

\* A picture of another size ends the comparison.
Retired(t, luma, minIdle) ==
    IF t.samples = <<>> \/ SameSize(t.samples[1].luma, luma) THEN t
    ELSE [NewTracker EXCEPT !.spans = (IF t.last = Absent THEN t ELSE Close(t, t.last, minIdle)).spans]

\* The first of the window's inner samples that left the old picture.
ChangedAt(s, before) ==
    LET away == {i \in 2..5 : ~SameLuma(before, s[i].luma)}
    IN  IF away = {} THEN s[4].at ELSE s[CHOOSE i \in away : \A j \in away : i <= j].at
\* The sample from which the new picture was there.
SettledAt(s, after) ==
    LET there(i) == SameLuma(after, s[i].luma)
    IN  IF ~there(3) THEN s[4].at ELSE IF ~there(2) THEN s[3].at ELSE s[2].at

Moved(t, s, before, after, minIdle) ==
    LET matching == {i \in 1..3 : SameLuma(before, s[i].luma)}
        first == CHOOSE i \in matching : \A j \in matching : i <= j
        old == IF ~t.qualified /\ Len(SetToSeq(matching)) >= 2
               THEN [t EXCEPT !.from = Larger(@, s[first].at), !.qualified = TRUE] ELSE t
        changed == ChangedAt(s, before)
    IN  [Close(old, changed, minIdle) EXCEPT
            !.from = Larger(changed, SettledAt(s, after)), !.qualified = FALSE]

Push(tracker, at, luma, minIdle) ==
    LET kept == Retired(tracker, luma, minIdle)
        s == Append(kept.samples, [at |-> at, luma |-> luma])
        t == [kept EXCEPT !.samples = s, !.last = at, !.from = IF @ = Absent THEN at ELSE @]
        before == MedianOf(s, 1)
        after == MedianOf(s, 4)
        seen == IF SameLuma(before, after) THEN [t EXCEPT !.qualified = TRUE]
                ELSE Moved(t, s, before, after, minIdle)
    IN  IF Len(s) < Window THEN t ELSE [seen EXCEPT !.samples = Tail(s)]

FinishTracker(tracker, at, minIdle) == Close(tracker, at, minIdle).spans

-----------------------------------------------------------------------------
(* Silence, and what is idle *)

\* One track's evidence: each frame says where silence began, where it ended,
\* or both.  Anything else than a sequence of silences is refused.
FinishAudioFrame(acc, f, duration) ==
    LET open == IF f.start = Absent THEN acc.open ELSE Larger(f.start, 0)
        ends == f.end # Absent
    IN  [ok |-> /\ acc.ok
                /\ f.start # Absent \/ ends
                /\ \A t \in {f.start, f.end} \ {Absent} : t >= -20 /\ t <= duration + 20
                /\ f.start = Absent \/ acc.open = Absent
                /\ ends => open # Absent /\ f.end >= open,
         open |-> IF ends THEN Absent ELSE open,
         spans |-> IF ends THEN Append(acc.spans, Span(open, Smaller(f.end, duration))) ELSE acc.spans]
ParseAudio(frames, duration) ==
    LET read == FoldLeft(LAMBDA acc, f : FinishAudioFrame(acc, f, duration),
                         [ok |-> TRUE, open |-> Absent, spans |-> <<>>], frames)
        spans == IF read.open = Absent THEN read.spans ELSE Append(read.spans, Span(read.open, duration))
    IN  [ok |-> /\ read.ok
                /\ \A i \in 1..Len(spans) : spans[i].from <= spans[i].to
                /\ \A i \in 1..(Len(spans) - 1) : spans[i].to <= spans[i + 1].from,
         spans |-> spans]

\* Two ordered lists, walked together.
IntersectSpans(a, b) ==
    LET meet[l \in 1..(Len(a) + 1), r \in 1..(Len(b) + 1)] ==
            IF l > Len(a) \/ r > Len(b) THEN <<>>
            ELSE LET both == Span(Larger(a[l].from, b[r].from), Smaller(a[l].to, b[r].to))
                     rest == IF a[l].to < b[r].to THEN meet[l + 1, r] ELSE meet[l, r + 1]
                 IN  IF Length(both) > 0 THEN <<both>> \o rest ELSE rest
    IN  meet[1, 1]

\* Only what is still and silent on every track is idle.
IdleSpans(still, tracks, duration) ==
    IF tracks = <<>> THEN still
    ELSE IntersectSpans(still, FoldLeft(IntersectSpans, <<Span(0, duration)>>, tracks))
Audible(tracks, duration) ==
    \E i \in 1..Len(tracks) : ~(/\ Len(tracks[i]) = 1
                                /\ tracks[i][1].from <= 20
                                /\ tracks[i][1].to >= duration - 20)

-----------------------------------------------------------------------------
(* Cuts *)

Merge(spans) ==
    LET join(merged, s) ==
            IF merged # <<>> /\ s.from <= Last(merged).to
            THEN [merged EXCEPT ![Len(merged)].to = Larger(@, s.to)]
            ELSE Append(merged, s)
    IN  FoldLeft(join, <<>>, SortSeq(spans, LAMBDA a, b : a.from < b.from))

Without(span, hole) ==
    IF hole.to <= span.from \/ hole.from >= span.to THEN <<span>>
    ELSE SelectSeq(<<Span(span.from, hole.from), Span(hole.to, span.to)>>, LAMBDA s : Length(s) > 0)
Subtract(spans, holes) ==
    FoldLeft(LAMBDA left, hole : FlattenSeq([i \in 1..Len(left) |-> Without(left[i], hole)]), spans, holes)

Candidates(idle, r) ==
    SelectSeq([i \in 1..Len(idle) |-> IF Length(idle[i]) >= r.minIdle
                                      THEN Span(idle[i].from + r.keep, idle[i].to - r.keep)
                                      ELSE Span(0, 0)],
              LAMBDA s : Length(s) >= HalfSecond)
Protected(r, duration) ==
    Append([i \in 1..Len(r.chapters) |-> Span(r.chapters[i] - r.before, r.chapters[i] + r.after)],
           Span(duration - r.before, duration))

PlanCuts(idle, r, duration) ==
    LET merged == Merge(Subtract(Candidates(idle, r), Protected(r, duration)))
        inside == SelectSeq([i \in 1..Len(merged) |->
                                Span(Larger(0, merged[i].from), Smaller(duration, merged[i].to))],
                            LAMBDA s : Length(s) >= HalfSecond)
    IN  [i \in 1..Len(inside) |-> Span(RoundSeconds(inside[i].from), RoundSeconds(inside[i].to))]

Keep(cuts, duration) ==
    LET cursor(i) == IF i = 0 THEN 0 ELSE cuts[i].to
        between == SelectSeq([i \in 1..Len(cuts) |-> Span(cursor(i - 1), cuts[i].from)],
                             LAMBDA s : Length(s) > 0)
        end == cursor(Len(cuts))
    IN  IF duration > end THEN Append(between, Span(end, RoundSeconds(duration))) ELSE between

TotalOf(spans) == FoldLeft(LAMBDA sum, s : sum + Length(s), 0, spans)

RemapTime(t, cuts) ==
    RoundSeconds(t - FoldLeft(LAMBDA sum, c : sum + Larger(0, Smaller(t, c.to) - c.from), 0, cuts))

SeamSampleTimes(seams, duration) ==
    LET last == Larger(0, duration - Smaller(20, duration \div 2))
        times == FlattenSeq([i \in 1..Len(seams) |->
                    <<Larger(0, seams[i] - HalfSecond), Smaller(last, seams[i] + 40)>>])
    IN  SubSeq(times, 1, Smaller(Len(times), MaxSheetFrames))

Timeline(idle, tracks, r, duration) ==
    LET cuts == PlanCuts(idle, r, duration)
        seams == [i \in 1..Len(cuts) |-> RemapTime(cuts[i].from, cuts)]
        trimmed == RoundSeconds(duration - TotalOf(cuts))
    IN  [cuts |-> cuts, keep |-> Keep(cuts, duration), seams |-> seams, trimmed |-> trimmed,
         chapters |-> [i \in 1..Len(r.chapters) |-> RemapTime(r.chapters[i], cuts)],
         samples |-> SeamSampleTimes(seams, trimmed), audible |-> Audible(tracks, duration)]

-----------------------------------------------------------------------------
(* One recording *)

TrimInit(r) == trim = [stage |-> "sampling", request |-> r, tracker |-> NewTracker, frames |-> <<>>]

\* One sampled picture reaches the tracker.
Sample ==
    /\ trim.stage = "sampling" /\ Len(trim.frames) < MaxFrames
    /\ \E luma \in trim.request.levels :
          trim' = [trim EXCEPT !.tracker = Push(@, Len(trim.frames) * Period, luma, trim.request.minIdle),
                               !.frames = Append(@, luma)]

\* The stream ends, the audio evidence is read, and the plan is made.
EndOfStream ==
    LET r == trim.request
        count == Len(trim.frames)
        duration == count * Period + r.excess
        parsed == [i \in 1..Len(r.audio) |-> ParseAudio(r.audio[i], duration)]
        still == FinishTracker(trim.tracker, Smaller(duration, count * Period), r.minIdle)
        tracks == [i \in 1..Len(parsed) |-> parsed[i].spans]
        idle == IdleSpans(still, tracks, duration)
    IN  /\ trim.stage = "sampling" /\ count > 0
        /\ trim' = IF \A i \in 1..Len(parsed) : parsed[i].ok
                   THEN [stage |-> "planned", request |-> r, frames |-> trim.frames, duration |-> duration,
                         still |-> still, tracks |-> tracks, plan |-> Timeline(idle, tracks, r, duration)]
                   ELSE [stage |-> "refused", request |-> r, frames |-> trim.frames]

TrimNext == Sample \/ EndOfStream

-----------------------------------------------------------------------------
(* Properties *)

Inside(t, spans) == \E i \in 1..Len(spans) : spans[i].from <= t /\ t < spans[i].to

(* StillsAreStill: inside a stretch reported as still no six neighbouring    *)
(* pictures go from one picture to another; the stretches are in order, do   *)
(* not overlap and are as long as asked for.                                 *)
StillsAreStill ==
    trim.stage = "planned" =>
        LET s == trim.still
            luma(k) == trim.frames[k]
            within(i, k) == s[i].from <= (k - 1) * Period /\ (k + Window - 2) * Period < s[i].to
        IN  /\ \A i \in 1..Len(s) : Length(s[i]) >= trim.request.minIdle
            /\ \A i \in 1..(Len(s) - 1) : s[i].to <= s[i + 1].from
            /\ \A i \in 1..Len(s), k \in 1..(Len(trim.frames) - Window + 1) : within(i, k) =>
                  SameLuma(Median(luma(k), luma(k + 1), luma(k + 2)),
                           Median(luma(k + 3), luma(k + 4), luma(k + 5)))

(* CutsAreSound: every moment that is cut was still and silent on every      *)
(* track and is outside the time held around chapters and before the end, to *)
(* within the rounding of one tick; the parts kept and the parts cut follow  *)
(* one another without a gap; a chapter is moved by exactly what was cut     *)
(* before it, so that chapters keep their order; every seam is looked at     *)
(* inside the trimmed recording.                                             *)
CutsAreSound ==
    trim.stage = "planned" =>
        LET r == trim.request
            p == trim.plan
            holds == Protected(r, trim.duration)
            parts == SortSeq(p.keep \o p.cuts, LAMBDA a, b : a.from < b.from)
            inner(c) == {c.from + 1, c.to - 2} \cup {t \in (c.from + 1)..(c.to - 2) : t % Period \in {0, Period - 1}}
            kept(t) == FoldLeft(LAMBDA sum, s : sum + Larger(0, Smaller(t, s.to) - s.from), 0, p.keep)
        IN  /\ \A i \in 1..Len(p.cuts) :
                  /\ \A t \in inner(p.cuts[i]) :
                        /\ Inside(t, trim.still)
                        /\ \A k \in 1..Len(trim.tracks) : Inside(t, trim.tracks[k])
                        /\ \A h \in 1..Len(holds) : ~(holds[h].from <= t /\ t < holds[h].to)
                  /\ Length(p.cuts[i]) >= HalfSecond - 1
            /\ parts # <<>> => parts[1].from = 0 /\ Last(parts).to \in trim.duration..(trim.duration + 1)
            /\ \A i \in 1..(Len(parts) - 1) : parts[i].to = parts[i + 1].from
            /\ \A i \in 1..Len(r.chapters) :
                  r.chapters[i] <= trim.duration => p.chapters[i] - kept(r.chapters[i]) \in {0, 1}
            /\ p.trimmed - TotalOf(p.keep) \in {0, 1}
            /\ \A i \in 1..Len(p.samples) : p.samples[i] \in 0..p.trimmed

=============================================================================
