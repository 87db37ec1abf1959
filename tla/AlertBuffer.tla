----------------------------- MODULE AlertBuffer -----------------------------
(***************************************************************************)
(* The collapse buffer (core/digest.go) and the hourly mail cap             *)
(* (core.send and allowMail): which alerts wait for company, when a batch   *)
(* goes out, as one mail or as several, and what the cap withholds.         *)
(*                                                                         *)
(* The unit of time is the flush ticker's period: a Tick is one firing of   *)
(* it, and alerts are queued between two firings.  One goroutine does both, *)
(* so a flush is one step.  The database may stop taking writes, for any     *)
(* stretch of it; its reads are answered (a failed count lets the mail go). *)
(***************************************************************************)
EXTENDS Integers, FiniteSets, SequencesExt

CONSTANTS
    Devices,
    Groups,           \* ids of the groups; Ungrouped is not one
    Ungrouped,        \* digestKey.groupID = 0
    GroupOf,          \* each device's group, or Ungrouped
    Recipients,       \* the mail recipients of each group, and of no group
    Windows,          \* values alert.collapse_sec may be set to; 0 is off
    MaxHold,          \* longest wait of an alert (120 s)
    DigestThreshold,  \* alerts of a group that make a digest (3)
    GlobalThreshold,  \* pending DOWN alerts that make the global digest (10)
    MaxPerHour,       \* alert.max_per_hour; 0 is no cap
    Hour,             \* length of the cap's window
    MaxNow,           \* bounds the clock
    MaxOutages,       \* bounds the outages
    MaxEdits          \* bounds the edits of the window, restarts, and turns of the database

ASSUME GroupAssumption ==
    /\ Ungrouped \notin Groups
    /\ GroupOf \in [Devices -> Groups \cup {Ungrouped}]
    /\ DOMAIN Recipients = Groups \cup {Ungrouped}
ASSUME WindowsAssumption == Windows \subseteq 0..MaxHold   \* 0..120 s in api/settings.go
ASSUME LimitsAssumption ==
    /\ {MaxHold, DigestThreshold, GlobalThreshold, Hour} \subseteq Nat \ {0}
    /\ {MaxPerHour, MaxNow, MaxOutages, MaxEdits} \subseteq Nat

Kinds == {"down", "recovery"}
Keys  == (Groups \cup {Ungrouped}) \X Kinds

VARIABLES
    now,      \* firings of the flush ticker
    window,   \* alert.collapse_sec, which an operator may edit
    outages,  \* how many outages each device has had
    down,     \* the devices that are in an outage that was announced
    quiet,    \* history: outages whose end was not announced, by device and number
    batches,  \* alertBuffer.batches; an absent key is an empty batch
    post,     \* the outbox and the cap; see Post
    edits     \* history: edits, restarts and turns of the database so far

vars == <<now, window, outages, down, quiet, batches, post, edits>>

Alert == [ kind : Kinds, device : Devices, outage : Nat, at : Nat ]

\* A row of the outbox: the alerts it tells, and whom, never nobody.
Mail == [ kind : {"down", "recovery", "digest", "notice"}, about : SUBSET Alert,
          to : (SUBSET UNION {Recipients[g] : g \in DOMAIN Recipients}) \ {{}},
          at : Nat ]

\* writable: the database takes inserts.  The rest is history.  withheld: the
\* alerts the cap kept, with the instant; dropped: those with nobody to tell, and
\* those whose insert failed; unsaid: when the insert of a notice failed.
Post == [ outbox : Seq(Mail), throttledAt : Nat, writable : BOOLEAN,
          withheld : SUBSET [alert : Alert, at : Nat], dropped : SUBSET Alert,
          unsaid : SUBSET Nat ]

Never == 0

TypeOK ==
    /\ now \in Nat
    /\ window \in Windows
    /\ outages \in [Devices -> Nat]
    /\ down \subseteq Devices
    /\ quiet \subseteq Devices \X Nat
    /\ batches \in [Keys -> Seq(Alert)]
    /\ post \in Post
    /\ edits \in Nat

Empty == [key \in Keys |-> <<>>]

Init ==
    /\ now = 1
    /\ window \in Windows
    /\ outages = [d \in Devices |-> 0]
    /\ down = {} /\ quiet = {}
    /\ batches = Empty
    /\ post = [ outbox |-> <<>>, throttledAt |-> Never, writable |-> TRUE,
                withheld |-> {}, dropped |-> {}, unsaid |-> {} ]
    /\ edits = 0

-----------------------------------------------------------------------------
(* send and allowMail, on the outbox p at time t.                          *)

\* AlertsSentSince: every row counts, notices included.
SentSince(p, t) == Cardinality({i \in DOMAIN p.outbox : p.outbox[i].at >= t - Hour})

\* Mutant: one mail too many.
AllowsOneMore(p, t) == MaxPerHour = 0 \/ SentSince(p, t) <= MaxPerHour

Allows(p, t) == MaxPerHour = 0 \/ SentSince(p, t) < MaxPerHour

Throttled(p, t) == p.throttledAt # Never /\ t - p.throttledAt < Hour

Row(kind, about, to, t) == [kind |-> kind, about |-> about, to |-> to, at |-> t]

\* notify.Enqueue: one more row, if the database takes it.
Enqueue(p, row) == IF p.writable THEN [p EXCEPT !.outbox = Append(@, row)] ELSE p

Unsaid(p, t) == IF p.writable THEN p.unsaid ELSE p.unsaid \cup {t}

\* Mutants: the notice has no recipient; the cap withholds without a word.
NoticeToNobody(p, to, t) ==
    [ Enqueue(p, Row("notice", {}, {}, t)) EXCEPT !.throttledAt = t,
                                                  !.unsaid = Unsaid(p, t) ]

SilentNotice(p, to, t) == [p EXCEPT !.throttledAt = t, !.unsaid = Unsaid(p, t)]

\* The one mail an hour that says the cap is reached, to whom the mail was for.
\* The hour starts whether its insert fails or not.
Notice(p, to, t) ==
    [ Enqueue(p, Row("notice", {}, to, t)) EXCEPT !.throttledAt = t,
                                                  !.unsaid = Unsaid(p, t) ]

\* One mail, subject to the cap.
Send(p, mail, t) ==
    IF mail.to = {} \/ (Allows(p, t) /\ ~p.writable)
    THEN [p EXCEPT !.dropped = @ \cup mail.about]
    ELSE IF Allows(p, t) THEN Enqueue(p, Row(mail.kind, mail.about, mail.to, t))
    ELSE LET q == IF Throttled(p, t) THEN p ELSE Notice(p, mail.to, t)
         IN  [q EXCEPT !.withheld = @ \cup {[alert |-> a, at |-> t] : a \in mail.about}]

SendAll(p, mails, t) == FoldLeft(LAMBDA q, mail : Send(q, mail, t), p, mails)

-----------------------------------------------------------------------------
(* From batches to mails.                                                  *)

To(a) == Recipients[GroupOf[a.device]]

Individual(a) == [kind |-> a.kind, about |-> {a}, to |-> To(a)]

\* digestRecipients: everyone any of the replaced mails would have reached.
Digest(alerts) ==
    [kind |-> "digest", about |-> alerts, to |-> UNION {To(a) : a \in alerts}]

\* A batch becomes one mail when it is a group's and long enough.
MailsOf(group, batch) ==
    IF group # Ungrouped /\ Len(batch) >= DigestThreshold
    THEN <<Digest(ToSet(batch))>>
    ELSE [i \in DOMAIN batch |-> Individual(batch[i])]

\* The batches under the given keys are mailed one after the other.
SendBatches(p, keys, t) ==
    FoldLeft(LAMBDA q, key : SendAll(q, MailsOf(key[1], batches[key]), t), p, keys)

Pending == { key \in Keys : batches[key] # <<>> }

Downs == { key \in Pending : key[2] = "down" }

PendingDown == MapThenSumSet(LAMBDA key : Len(batches[key]), Downs)

Global == PendingDown >= GlobalThreshold

GlobalDigest == Digest(UNION {ToSet(batches[key]) : key \in Downs})

\* Mutant: the global digest forgets the recoveries flushed with it.
MailForgetful(keys, t) ==
    IF Global THEN Send(post, GlobalDigest, t) ELSE SendBatches(post, keys, t)

\* flushGlobal puts every DOWN alert in one mail and mails the recoveries group
\* by group; otherwise each batch is on its own.
MailAll(keys, t) ==
    SendBatches(IF Global THEN Send(post, GlobalDigest, t) ELSE post, keys, t)

-----------------------------------------------------------------------------
(* flushAlerts                                                             *)

\* Members of a group in the database, whether they are watched or not.
GroupSize(g) == Cardinality({d \in Devices : GroupOf[d] = g})

\* Mutant: waits for one device more than the group has.
CompleteLater(key) ==
    key[1] # Ungrouped /\ Len(batches[key]) > GroupSize(key[1])

\* Nothing left to wait for.
Complete(key) == key[1] # Ungrouped /\ Len(batches[key]) >= GroupSize(key[1])

\* Mutant: a straggler starts the wait again.
DueWhenQuiet(key, t) == t - Last(batches[key]).at >= window

\* Quiet for a window, or held for MaxHold.
Due(key, t) ==
    \/ t - Last(batches[key]).at >= window
    \/ t - Head(batches[key]).at >= MaxHold

Going(t, force) ==
    { key \in Pending : Global \/ force \/ Complete(key) \/ Due(key, t) }

\* The batches that are not part of a global digest, in any order, as Go ranges
\* over a map.
Orders(t, force) == SetToSeqs(IF Global THEN Pending \ Downs ELSE Going(t, force))

\* The batches that go at time t.
Flush(t, force, after) ==
    /\ \E keys \in Orders(t, force) : after = MailAll(keys, t)
    /\ batches' = [key \in Keys |-> IF key \in Going(t, force) THEN <<>> ELSE batches[key]]

-----------------------------------------------------------------------------

QueuedSoFar == FoldFunction(+, 0, outages)

\* A transition of device d is announced: parked, or sent at once when
\* collapsing is off.  Nothing is parked for nobody (dispatch); Send records it.
Queue(d) ==
    LET kind  == IF d \in down THEN "recovery" ELSE "down"
        nr    == IF d \in down THEN outages[d] ELSE outages[d] + 1
        alert == [kind |-> kind, device |-> d, outage |-> nr, at |-> now]
        key   == <<GroupOf[d], kind>>
    IN  /\ kind = "down" => QueuedSoFar < MaxOutages
        /\ outages' = [outages EXCEPT ![d] = nr]
        /\ down' = IF kind = "down" THEN down \cup {d} ELSE down \ {d}
        /\ IF window > 0 /\ To(alert) # {}
           THEN batches' = [batches EXCEPT ![key] = Append(@, alert)] /\ UNCHANGED post
           ELSE post' = Send(post, Individual(alert), now) /\ UNCHANGED batches
        /\ UNCHANGED <<now, window, edits, quiet>>

\* Device d recovers while its notifications are off (AnnouncesRecovery in
\* DeviceState): no alert, and its next one is a DOWN again.
RecoverQuietly(d) ==
    /\ d \in down
    /\ down' = down \ {d}
    /\ quiet' = quiet \cup {<<d, outages[d]>>}
    /\ UNCHANGED <<now, window, outages, batches, post, edits>>

\* The ticker fires.
Tick ==
    /\ now < MaxNow
    /\ now' = now + 1
    /\ Flush(now + 1, FALSE, post')
    /\ UNCHANGED <<window, outages, down, quiet, edits>>

\* An operator edits the collapse window.
SetWindow(w) ==
    /\ edits < MaxEdits
    /\ edits' = edits + 1
    /\ w # window
    /\ window' = w
    /\ UNCHANGED <<now, outages, down, quiet, batches, post>>

\* A graceful stop flushes everything; throttledAt is lost with the process.
Restart ==
    /\ edits < MaxEdits
    /\ edits' = edits + 1
    /\ \E keys \in Orders(now, TRUE) :
          post' = [MailAll(keys, now) EXCEPT !.throttledAt = Never]
    /\ batches' = Empty
    /\ UNCHANGED <<now, window, outages, down, quiet>>

\* The database stops taking writes, or takes them again.
Turn ==
    /\ edits < MaxEdits
    /\ edits' = edits + 1
    /\ post' = [post EXCEPT !.writable = ~@]
    /\ UNCHANGED <<now, window, outages, down, quiet, batches>>

Next ==
    \/ \E d \in Devices : Queue(d) \/ RecoverQuietly(d)
    \/ Tick
    \/ \E w \in Windows : SetWindow(w)
    \/ Restart
    \/ Turn

Spec == Init /\ [][Next]_vars

-----------------------------------------------------------------------------
(* Properties.                                                             *)

Rows    == DOMAIN post.outbox
Notices == {i \in Rows : post.outbox[i].kind = "notice"}

Is(a, kind, d, n) == a.kind = kind /\ a.device = d /\ a.outage = n

\* The number of places alert `kind` of the n-th outage of d is in: parked, in
\* a mail, withheld by the cap, or dropped.
Places(kind, d, n) ==
    LET key == <<GroupOf[d], kind>> IN
      Cardinality({i \in DOMAIN batches[key] : Is(batches[key][i], kind, d, n)})
    + Cardinality({i \in Rows : \E a \in post.outbox[i].about : Is(a, kind, d, n)})
    + Cardinality({w \in post.withheld : Is(w.alert, kind, d, n)})
    + Cardinality({a \in post.dropped : Is(a, kind, d, n)})

\* No alert is lost between the batches, the digests and the cap, and none is
\* told twice (digest.go: flushAlerts deletes a batch and then mails it); what
\* is dropped had no recipient or an insert that failed.
EveryAlertOnce ==
    \A d \in Devices : \A n \in 1..outages[d] :
        /\ Places("down", d, n) = 1
        /\ Places("recovery", d, n) =
               IF <<d, n>> \in quiet \/ (n = outages[d] /\ d \in down) THEN 0 ELSE 1

\* No alert waits longer than MaxHold, however the others keep arriving and
\* whatever the window is edited to (digest.go:28-31).
HeldAtMostMaxHold ==
    \A key \in Pending : \A i \in DOMAIN batches[key] :
        now - batches[key][i].at < MaxHold

\* Once every member of a group is down and pending, the mail goes at the next
\* flush, "the total-site outage, the case the digest exists for"
\* (digest.go:39-41).  A group with no member has no outage.
SiteOutageGoesAtOnce ==
    \A g \in {GroupOf[d] : d \in Devices} \ {Ungrouped} :
        LET batch == batches[<<g, "down">>]
        IN  {d \in Devices : GroupOf[d] = g} \subseteq {a.device : a \in ToSet(batch)}
                => \E a \in ToSet(batch) : a.at = now

\* "Nothing left to wait for: every member of this group is already pending, so
\* more company cannot arrive" (digest.go:135): a batch of DOWN alerts that is
\* taken for complete has one of each member of its group.
CompleteIsEveryone ==
    \A g \in Groups :
        Complete(<<g, "down">>) =>
            {d \in Devices : GroupOf[d] = g}
                \subseteq {a.device : a \in ToSet(batches[<<g, "down">>])}

\* In no stretch of an hour are more mails queued than the cap allows, however
\* often the process restarts (settings.go:263).  The cap is fixed here, and
\* its own notices are not counted.
BudgetHolds ==
    MaxPerHour > 0 =>
        \A t \in 1..now :
            Cardinality({i \in Rows \ Notices : post.outbox[i].at \in t..t+Hour})
                <= MaxPerHour

\* Behind every alert withheld there is one, withheld in the hour up to then, whose
\* every recipient was sent the notice at that instant, unless its insert failed
\* (evaluator.go:249-261).  A restart, which forgets throttledAt, may repeat the
\* notice but never skips it.
FirstWithheldIsTold ==
    \A w \in post.withheld : \E v \in post.withheld :
        /\ w.at - Hour < v.at /\ v.at <= w.at
        /\ \/ v.at \in post.unsaid
           \/ \E i \in Notices : /\ post.outbox[i].at = v.at
                                 /\ To(v.alert) \subseteq post.outbox[i].to

\* "Mail that stops without explanation is worse than mail that says it has
\* stopped - silence reads as all clear" (evaluator.go:220-223): whoever misses
\* an alert because of the cap was sent a notice in the hour before.
EveryoneIsTold ==
    \A w \in post.withheld : \E i \in Notices :
        /\ w.at - Hour < post.outbox[i].at /\ post.outbox[i].at <= w.at
        /\ To(w.alert) \subseteq post.outbox[i].to

\* "Only announce a recovery we announced the outage for" (state.go:92): a
\* RECOVERY mail never reaches the outbox before the DOWN mail it answers,
\* unless that one was withheld or dropped.
DownBeforeRecovery ==
    \A i \in Rows : \A a \in post.outbox[i].about :
        a.kind = "recovery" =>
            \/ \E j \in 1..i-1 : \E b \in post.outbox[j].about :
                   Is(b, "down", a.device, a.outage)
            \/ \E w \in post.withheld : Is(w.alert, "down", a.device, a.outage)
            \/ \E b \in post.dropped : Is(b, "down", a.device, a.outage)

=============================================================================
