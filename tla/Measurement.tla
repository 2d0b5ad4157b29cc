----------------------------- MODULE Measurement ----------------------------
(***************************************************************************)
(* The acoustic measurement: a speaker plays a stimulus, records its       *)
(* microphones, and turns the lag of each recording into a distance.       *)
(*                                                                         *)
(* Samples are integers.  normalize scales a signal by a positive factor   *)
(* after it has removed the mean; the factor changes neither where the     *)
(* correlation peaks nor its sign, so it is replaced by the length, which  *)
(* keeps the mean an integer.  One sample lasts one millisecond, and flight *)
(* times and the latency budget are counted in half milliseconds, the      *)
(* tolerance of toDistance.                                                *)
(***************************************************************************)
LOCAL INSTANCE Integers
LOCAL INSTANCE Sequences
LOCAL INSTANCE SequencesExt
LOCAL INSTANCE FiniteSetsExt

SumOf(x) == FoldLeft(LAMBDA a, b : a + b, 0, x)
normalize(x) == [i \in DOMAIN x |-> Len(x) * x[i] - SumOf(x)]
Correlation(r, s, lag) == SumOf([i \in DOMAIN s |-> r[lag + i] * s[i]])

(* The first lag with the highest correlation, if that is positive, and    *)
(* the best one that is not next to it.                                    *)
NotFound == [found |-> FALSE, lag |-> 0, second |-> 0]
findArrival(recording, stimulus, maxLag) ==
    LET r == normalize(recording)
        s == normalize(stimulus)
        limit == Min({maxLag, Len(r) - Len(s)})
        corr == [lag \in 0..limit |-> Correlation(r, s, lag)]
        best == Max({corr[lag] : lag \in 0..limit})
        at == Min({lag \in 0..limit : corr[lag] = best})
        apart == {lag \in 0..limit : lag - at \notin -1..1}
    IN  IF recording = <<>> \/ stimulus = <<>> \/ Len(recording) < Len(stimulus) \/ best <= 0
        THEN NotFound
        ELSE [found |-> TRUE, lag |-> at,
              second |-> Max({0} \union {corr[lag] : lag \in apart})]

(* toDistance: a slightly negative flight time is no distance, a clearly   *)
(* negative one means that the budget is wrong.                            *)
Note(text) == [valid |-> FALSE, flight |-> 0, note |-> text]
Distance(flight) == [valid |-> TRUE, flight |-> flight, note |-> ""]
toDistance(lag, budget) ==
    LET acoustic == 2 * lag - budget
    IN  IF acoustic < -1 THEN Note("stale budget") ELSE Distance(Max({acoustic, 0}))

(* measure: every microphone asked for, or every channel there is.         *)
MaxRoom == 3
Refused(message) == [ok |-> FALSE, message |-> message, mics |-> <<>>]
measure(pcm, channels, stimulus, asked, budget) ==
    LET frames == IF channels = 0 THEN 0 ELSE Len(pcm) \div channels
        mics == IF asked = <<>> THEN [i \in 1..channels |-> i - 1] ELSE asked
        heardBy(mic) == [i \in 1..frames |-> pcm[(i - 1) * channels + mic + 1]]
        reading(mic) ==
            IF mic \notin 0..(channels - 1) THEN Note("no channel")
            ELSE LET a == findArrival(heardBy(mic), stimulus, (budget + 2 * MaxRoom) \div 2)
                 IN  IF ~a.found THEN Note("no arrival") ELSE toDistance(a.lag, budget)
        readings == [i \in DOMAIN mics |-> reading(mics[i])]
    IN  IF pcm = <<>> \/ channels = 0 THEN Refused("no audio")
        ELSE IF frames < Len(stimulus) THEN Refused("too short")
        ELSE [ok |-> \E i \in DOMAIN readings : readings[i].valid,
              message |-> "", mics |-> readings]

----------------------------------------------------------------------------
(* What a microphone hears: the stimulus after some delay and a weaker     *)
(* echo after it, on top of the converter's offset; or only the offset.    *)
Silence == -1
Heard(delay, offset, stimulus, frames) ==
    [i \in 1..frames |->
        offset + (IF delay # Silence /\ i - delay \in DOMAIN stimulus
                  THEN 2 * stimulus[i - delay] ELSE 0)
               + (IF delay # Silence /\ i - delay - 2 \in DOMAIN stimulus
                  THEN stimulus[i - delay - 2] ELSE 0)]
Interleaved(a, b) == [i \in 1..(2 * Len(a)) |-> IF i % 2 = 1 THEN a[(i + 1) \div 2] ELSE b[i \div 2]]

(* What the measurement should then say of it.                             *)
Expected(delay, budget) ==
    IF delay = Silence THEN Note("no arrival")
    ELSE IF 2 * delay + 1 < budget THEN Note("stale budget")
    ELSE Distance(IF 2 * delay < budget THEN 0 ELSE 2 * delay - budget)
=============================================================================
