------------------------------ MODULE Instance ------------------------------
(***************************************************************************)
(* Controllers that share a workspace and the keys in it (auth.py, with     *)
(* Startup).  A controller keeps in memory a generation number, the keys    *)
(* of earlier generations and the nonces it issued; a restart loses them.   *)
(* One client signs one request, which may arrive twice.                    *)
(***************************************************************************)
EXTENDS Startup

CONSTANTS
    Life,          \* how long a nonce and an earlier key are good for, in ticks
    MaxNow         \* bound: ticks

\* A nonce with the controller, the generation and the key it was issued under.
Challenge == [at : Controller, gen : Nat, until : Nat, key : Nat, open : BOOLEAN]

ASSUME InstanceAssumption ==
    /\ Life \in Nat \ {0}
    /\ MaxNow \in Nat
    /\ Nothing \notin Challenge

\* Values of the key file: a number per generated key.
Missing == 0
Empty == 1

Arrival == {1, 2}

VARIABLES
    key,         \* the key file
    made,        \* history: the last key generated
    gen,         \* gen[c]: generation
    previous,    \* previous[c]: earlier keys, with generation and expiry
    now,         \* the clock
    challenge,   \* the nonce the client got, where, and when it ends
    held,        \* the key the client has read and signs with
    arrival,     \* what became of each arrival of it
    since,       \* history: what the key file has held since the nonce was issued
    disturbed    \* history: another controller changed the key file since then

access == <<key, made, gen, previous, now, challenge, held, arrival, since, disturbed>>
vars == <<startup, events, access>>

\* Controller c puts k into the key file.
KeyBecomes(c, k) ==
    /\ key' = k
    /\ since' = IF challenge = Nothing THEN since ELSE since \cup {k}
    /\ disturbed' = (disturbed \/ (challenge # Nothing /\ challenge.at # c))

-----------------------------------------------------------------------------
(* AuthManager                                                             *)

\* create_app and __init__: a missing key file is created, exclusively and empty at first.
CreateKey(c) ==
    /\ pc[c] = "again"
    /\ todo[c] = <<>>
    /\ IF key = Missing
       THEN KeyBecomes(c, Empty) /\ Goes(c, "written")
       ELSE Goes(c, "listen") /\ UNCHANGED <<key, since, disturbed>>
    /\ gen' = [gen EXCEPT ![c] = 1]
    /\ previous' = [previous EXCEPT ![c] = {}]
    /\ UNCHANGED <<data, todo, plan, lock, marker, dynamic, saved, file, former, pid, raced,
                   made, now, challenge, held, arrival>>

\* The key is written to the file that was created, unless that one has been
\* replaced by a rotation of another controller.
WriteKey(c) ==
    /\ pc[c] = "written"
    /\ IF key = Empty
       THEN KeyBecomes(c, made + 1) /\ made' = made + 1
       ELSE UNCHANGED <<key, since, disturbed, made>>
    /\ Goes(c, "listen")
    /\ UNCHANGED <<data, todo, plan, lock, marker, dynamic, saved, file, former, pid, raced,
                   gen, previous, now, challenge, held, arrival>>

\* Mutant: only the latest of the earlier keys is kept.
EarlierLatest(c) == {[gen |-> gen[c], key |-> key, until |-> now + Life]}

\* The earlier keys after a rotation: those that still count, and the present one.
Earlier(c) ==
    {e \in previous[c] : e.until > now} \cup {[gen |-> gen[c], key |-> key, until |-> now + Life]}

\* rotate_api_key, when a task ends.
RotateApiKey(c) ==
    /\ pc[c] = "up"
    /\ previous' = [previous EXCEPT ![c] = Earlier(c)]
    /\ gen' = [gen EXCEPT ![c] = @ + 1]
    /\ made' = made + 1
    /\ KeyBecomes(c, made + 1)
    /\ UNCHANGED <<startup, now, challenge, held, arrival>>

IssueNonce(c) ==
    /\ pc[c] = "up"
    /\ challenge = Nothing
    /\ challenge' = [at |-> c, gen |-> gen[c], until |-> now + Life, key |-> key, open |-> TRUE]
    /\ since' = {key}
    /\ UNCHANGED <<startup, key, made, gen, previous, now, held, arrival, disturbed>>

\* Mutant: the nonce is looked up and left.
TakenLeft == challenge

Taken == [challenge EXCEPT !.open = FALSE]

\* is_signed, up to the wait for the body: the nonce is taken, whatever follows.
\* The client signs after it got the nonce, so that the check of the time of
\* signing refuses nothing more.
IsSignedBegin(i) ==
    /\ challenge # Nothing
    /\ held # Missing
    /\ arrival[i] = "none"
    /\ pc[challenge.at] = "up"
    /\ challenge' = Taken
    /\ arrival' = [arrival EXCEPT ![i] =
                     IF challenge.open /\ challenge.until >= now THEN "body" ELSE "refused"]
    /\ UNCHANGED <<startup, key, made, gen, previous, now, held, since, disturbed>>

\* The keys that a request of generation g may be signed with.
Acceptable(c, g) ==
    IF g = gen[c] THEN {key}
    ELSE {e.key : e \in {e \in previous[c] : e.gen = g /\ e.until > now}}

\* is_signed, once the body is there.
IsSignedEnd(i) ==
    /\ arrival[i] = "body"
    /\ pc[challenge.at] = "up"
    /\ arrival' = [arrival EXCEPT ![i] =
                     IF held \in Acceptable(challenge.at, challenge.gen)
                     THEN "accepted" ELSE "refused"]
    /\ UNCHANGED <<startup, key, made, gen, previous, now, challenge, held, since, disturbed>>

\* A controller ends, in order or not: its nonces go, and requests it was reading.
Ends(c) ==
    /\ Stop(c) \/ Dies(c)
    /\ IF challenge # Nothing /\ challenge.at = c
       THEN /\ challenge' = [challenge EXCEPT !.open = FALSE]
            /\ arrival' = [i \in Arrival |-> IF arrival[i] = "body" THEN "lost" ELSE arrival[i]]
            /\ disturbed' = TRUE
       ELSE UNCHANGED <<challenge, arrival, disturbed>>
    /\ UNCHANGED <<key, made, gen, previous, now, held, since>>

-----------------------------------------------------------------------------
(* The client and the clock                                                *)

\* The key a request is signed with is the one read last before it is sent.
ReadKey ==
    /\ \A i \in Arrival : arrival[i] = "none"
    /\ key \notin {Missing, held}
    /\ held' = key
    /\ UNCHANGED <<startup, key, made, gen, previous, now, challenge, arrival, since, disturbed>>

\* Time before the nonce makes no difference to it.
Tick ==
    /\ challenge # Nothing
    /\ now < MaxNow
    /\ now' = now + 1
    /\ UNCHANGED <<startup, key, made, gen, previous, challenge, held, arrival, since, disturbed>>

-----------------------------------------------------------------------------

Init ==
    /\ StartupInit
    /\ key = Missing
    /\ made = Empty
    /\ gen = [c \in Controller |-> 1]
    /\ previous = [c \in Controller |-> {}]
    /\ now = 0
    /\ challenge = Nothing
    /\ held = Missing
    /\ arrival = [i \in Arrival |-> "none"]
    /\ since = {}
    /\ disturbed = FALSE

Disturbance ==
    \/ \E c \in Controller : Ends(c) \/ RotateApiKey(c)
    \/ UNCHANGED access /\ (UserWrites("config", "user") \/ \E t \in {"absent", "user"} : UserWrites("plugin", t))
    \/ UNCHANGED access /\ \E d \in Directory : NewerProgram(d) \/ Damage(d)

Next ==
    \/ Happens /\ Disturbance
    \/ /\ UNCHANGED events
       /\ \/ UNCHANGED access /\ \E c \in Controller : Starts(c)
          \/ \E c \in Controller : CreateKey(c) \/ WriteKey(c) \/ IssueNonce(c)
          \/ \E i \in Arrival : IsSignedBegin(i) \/ IsSignedEnd(i)
          \/ ReadKey \/ Tick

Spec == Init /\ [][Next]_vars

-----------------------------------------------------------------------------
(* Properties                                                              *)

\* Types of the variables.
TypeOK ==
    /\ StartupTypeOK
    /\ key \in Nat /\ made \in Nat /\ held \in Nat /\ now \in 0..MaxNow
    /\ gen \in [Controller -> Nat]
    /\ \A c \in Controller : \A e \in previous[c] : e.gen < gen[c]
    /\ arrival \in [Arrival -> {"none", "body", "accepted", "refused", "lost"}]

\* A signed request is accepted once, however its arrivals and the waits for
\* their bodies interleave (auth.py:142 takes the nonce before the await).
NonceOnce ==
    \A i, j \in Arrival : arrival[i] = "accepted" /\ arrival[j] = "accepted" => i = j

\* A request signed with the key in force when its nonce was issued is accepted
\* within the nonce's life, whatever tasks ended meanwhile, unless the
\* controller ended or another one changed the shared key file.
InTimeAccepted ==
    [][\A i \in Arrival : arrival[i] # "refused" /\ arrival'[i] = "refused" =>
        \/ held # challenge.key
        \/ now >= challenge.until
        \/ disturbed
        \/ \E j \in Arrival \ {i} : arrival[j] # "none"]_vars

\* An accepted request was signed with a key that the file has held since the
\* nonce was issued: a key replaced earlier is of no use.
KeyCurrent == \A i \in Arrival : arrival[i] = "accepted" => held \in since

\* A signed request counts once, and only with a key in force since its nonce.
SignedOnce == NonceOnce /\ KeyCurrent
=============================================================================
