---------------------------------- MODULE Uploads ----------------------------------
(***************************************************************************)
(* Pictures and records uploaded to the program (server/uploadpic.go): the *)
(* limit on requests per minute of one address, whose slice is read and    *)
(* written without a lock, and the file named after the hash of its        *)
(* content, which is looked for and then written.                          *)
(***************************************************************************)
EXTENDS Integers, Sequences, FiniteSets

CONSTANTS
    Requests,      \* the goroutines of the requests of one address
    Contents,      \* what can be uploaded
    MaxRequests,   \* config image_limit (GetImageLimitB)
    Interval,      \* RequestInterval, in ticks
    MaxTime,       \* a bound on ticks
    MaxUploads     \* a bound on requests

ASSUME UploadsAssumption ==
    /\ MaxRequests \in Nat /\ Interval \in Nat /\ MaxTime \in Nat
    /\ MaxUploads \in Nat

VARIABLES
    clock,      \* time.Now
    arrived,    \* requests so far
    stamps,     \* RateLimiter.Counts of the address
    upload,     \* where each goroutine is, its content, and what it read
    files,      \* the files of channel_temp: "none", "part" or "whole"
    accepted,   \* history: when requests were let through
    linked,     \* history: the contents whose link was given
    cut,        \* history: the contents whose writing ended early
    together     \* history: did two goroutines use the slice at a time

upVars == <<clock, arrived, stamps, upload, files, accepted, linked, cut, together>>

NoUpload == [at |-> "idle", what |-> "none", saw |-> <<>>, now |-> 0]

UpInit ==
    /\ clock = 0 /\ arrived = 0 /\ stamps = <<>>
    /\ upload = [q \in Requests |-> NoUpload]
    /\ files = [c \in Contents |-> "none"]
    /\ accepted = <<>> /\ linked = {} /\ cut = {} /\ together = FALSE
----------------------------------------------------------------------------------
\* Slips: one request too many is let through; the link is given while nobody
\* goes on writing the file.
Allowed_BarOne(s) == Len(s) <= MaxRequests + 1

Save_Unwritten(q) ==
    /\ upload[q].at = "save"
    /\ files' = [files EXCEPT ![upload[q].what] = IF @ = "none" THEN "part" ELSE @]
    /\ upload' = [upload EXCEPT ![q].at = "answer"]
    /\ UNCHANGED <<clock, arrived, stamps, accepted, linked, cut, together>>
----------------------------------------------------------------------------------
\* What is left when the expired stamps at the front are dropped.
Fresh(s, now) ==
    LET kept == {k \in DOMAIN s : now - s[k] <= Interval}
    IN  IF kept = {} THEN <<>> ELSE SubSeq(s, CHOOSE k \in kept : \A l \in kept : k <= l, Len(s))

Allowed(s) == Len(s) <= MaxRequests

\* CheckAndUpdateRateLimit, first line: the slice is read, to be appended to.
Arrive(q, c) ==
    /\ upload[q].at = "idle" /\ arrived < MaxUploads
    /\ arrived' = arrived + 1
    /\ upload' = [upload EXCEPT ![q] = [at |-> "count", what |-> c, saw |-> stamps, now |-> clock]]
    /\ together' = (together \/ \E r \in Requests : upload[r].at \in {"count", "judge"})
    /\ UNCHANGED <<clock, stamps, files, accepted, linked, cut>>

\* The longer slice is written back, refused requests count too.
Count(q) ==
    /\ upload[q].at = "count"
    /\ stamps' = Append(upload[q].saw, upload[q].now)
    /\ upload' = [upload EXCEPT ![q] = [at |-> "judge", what |-> upload[q].what,
                                        saw |-> <<>>, now |-> upload[q].now]]
    /\ UNCHANGED <<clock, arrived, files, accepted, linked, cut, together>>

\* What has expired is dropped from the front, and the rest counted.
Judge(q) ==
    /\ upload[q].at = "judge"
    /\ stamps' = Fresh(stamps, upload[q].now)
    /\ IF Allowed(stamps')
       THEN /\ accepted' = Append(accepted, upload[q].now)
            /\ upload' = [upload EXCEPT ![q].at = "save"]
       ELSE upload' = [upload EXCEPT ![q] = NoUpload] /\ UNCHANGED accepted
    /\ UNCHANGED <<clock, arrived, files, linked, cut, together>>

\* Data that is no picture, no address configured: an error is answered.
Reject(q) ==
    /\ upload[q].at \in {"save", "answer"}
    /\ upload' = [upload EXCEPT ![q] = NoUpload]
    /\ UNCHANGED <<clock, arrived, stamps, files, accepted, linked, cut, together>>

\* os.Stat, and os.WriteFile up to the file being opened and emptied: another
\* goroutine may have found nothing at the same time and be ahead of this one.
Save(q) ==
    /\ upload[q].at = "save"
    /\ \/ files[upload[q].what] = "none" /\ upload' = [upload EXCEPT ![q].at = "open"]
       \/ files[upload[q].what] # "none" /\ upload' = [upload EXCEPT ![q].at = "answer"]
    /\ UNCHANGED <<clock, arrived, stamps, files, accepted, linked, cut, together>>

Open(q) ==
    /\ upload[q].at = "open"
    /\ files' = [files EXCEPT ![upload[q].what] = "part"]
    /\ upload' = [upload EXCEPT ![q].at = "write"]
    /\ UNCHANGED <<clock, arrived, stamps, accepted, linked, cut, together>>

\* os.WriteFile to its end, or to an error that leaves what was written.
WriteFile(q) ==
    /\ upload[q].at = "write"
    /\ \/ /\ files' = [files EXCEPT ![upload[q].what] = "whole"]
          /\ upload' = [upload EXCEPT ![q].at = "answer"]
          /\ UNCHANGED cut
       \/ /\ cut' = cut \cup {upload[q].what}
          /\ upload' = [upload EXCEPT ![q] = NoUpload]
          /\ UNCHANGED files
    /\ UNCHANGED <<clock, arrived, stamps, accepted, linked, together>>

Link(q) ==
    /\ upload[q].at = "answer"
    /\ linked' = linked \cup {upload[q].what}
    /\ upload' = [upload EXCEPT ![q] = NoUpload]
    /\ UNCHANGED <<clock, arrived, stamps, files, accepted, cut, together>>

\* The program ends, also by the runtime noticing two goroutines in the map,
\* and starts again with the files that are there.
UpRestart ==
    /\ cut' = cut \cup {c \in Contents : \E q \in Requests : upload[q].at = "write" /\ upload[q].what = c}
    /\ upload' = [q \in Requests |-> NoUpload]
    /\ stamps' = <<>> /\ accepted' = <<>> /\ together' = FALSE
    /\ UNCHANGED <<clock, arrived, files, linked>>

UpTick ==
    /\ clock < MaxTime /\ clock' = clock + 1
    /\ UNCHANGED <<arrived, stamps, upload, files, accepted, linked, cut, together>>

\* What a request goes through, for pictures and (UploadBase64RecordHandler) for
\* records, which have fewer reasons to be rejected.
UpNext ==
    \/ \E q \in Requests :
          \/ \E c \in Contents : Arrive(q, c)
          \/ Count(q) \/ Judge(q) \/ Reject(q) \/ Save(q) \/ Open(q) \/ WriteFile(q) \/ Link(q)
    \/ UpRestart \/ UpTick
----------------------------------------------------------------------------------
\* No more requests of an address are let through in any interval than the
\* configuration says, as long as no two of them met at the slice.
Limited ==
    ~together => \A n \in DOMAIN accepted :
        Cardinality({k \in 1..n : accepted[n] - accepted[k] <= Interval}) <= MaxRequests

\* A link that was given leads to the whole file, or to one that is just being
\* written, unless a crash or an error ended its writing: then the file stays
\* as it is for ever (uploadpic.go:84, "if the file exists, skip").
WholeLinks ==
    \A c \in linked \ cut :
        files[c] = "whole" \/ \E q \in Requests : upload[q].at = "write" /\ upload[q].what = c
====================================================================================
