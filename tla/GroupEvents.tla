----------------------------- MODULE GroupEvents -----------------------------
(***************************************************************************)
(* The notification bus of Lumina Relay on top of DeviceGroups.  A client  *)
(* trades a session for a ticket and the ticket for a WebSocket; its       *)
(* handler subscribes to the hub, tells the client the revision of its     *)
(* group and then forwards events.  A handler that has changed the         *)
(* database works out the recipients and publishes afterwards, when other  *)
(* transactions may have come in between.  A subscriber whose buffer is    *)
(* full is dropped.  Hub, tickets and connections live in memory and are   *)
(* lost with the process.                                                  *)
(***************************************************************************)
EXTENDS DeviceGroups, Sequences

CONSTANTS
    Conns,       \* WebSocket connections, and their handlers
    Tickets,     \* values of event tickets
    TicketTTL,   \* lifetime of a ticket (30 s)
    QueueSize,   \* buffer of a subscriber (32)
    MaxSubs,     \* MaxSubscriptionsPerDevice (3)
    Faults       \* whether the release batches of a discard may fail

ASSUME EventsAssumption ==
    /\ TicketTTL \in Nat \ {0}
    /\ QueueSize \in Nat \ {0}
    /\ MaxSubs \in Nat \ {0}
    /\ Faults \in BOOLEAN

VARIABLES
    out,         \* what a request handler has still to publish
    tickets,     \* EventTicketStore.tickets, Null when there is none
    cpc,         \* where the handler of a connection is,
    ticket,      \* the ticket it consumed,
    subscribed,  \* whether the hub knows its subscriber,
    queue,       \* the events buffered for it
    known,       \* the highest revision the client has been told
    told         \* whether the client has been told it is revoked

connVars == <<cpc, ticket, subscribed, queue, known, told>>
eventVars == <<out, tickets, connVars>>
eventsVars == <<vars, eventVars>>

EventTypes == {"merged", "revoked", "manifest", "session"}

\* "session" stands for session_file_updated and session_file_deleted.
Event == [type : EventTypes, device : Devices, revision : Nat]
Ticket == [device : Devices, group : Devices, expires : Nat]
Outbox == [phase : {"none", "list", "read", "publish"},
           type : EventTypes, about : SUBSET Devices, to : SUBSET Devices,
           group : Devices, revision : Nat]

Silent == [phase |-> "none", type |-> "merged", about |-> {}, to |-> {},
           group |-> Anyone, revision |-> 0]
NoTicket == [device |-> Anyone, group |-> Anyone, expires |-> 0]

----------------------------------------------------------------------------
(* Request handlers: the transaction, then the notification.                *)

Quiet == UNCHANGED eventVars

\* The handler goes on to work out who is to be told what.
Then(h, o) == /\ out' = [out EXCEPT ![h] = o]
              /\ UNCHANGED <<tickets, connVars>>

\* Mutated: the recipients are read before the devices have moved.
MutantOldMembers(win, lose) == Members(win)

MergedMembers(win, lose) == Members(win) \cup Members(lose)

\* The recipients of a merge are read in its transaction.
MergeAndTell(h, c) ==
    LET left == c.group
        right == group[req[h].device]
        win == Winner(left, right)
    IN
    /\ MergeGroups(h, c)
    /\ Then(h, [phase |-> "publish", type |-> "merged", about |-> {Anyone},
                to |-> MergedMembers(win, Loser(left, right)), group |-> win,
                revision |-> NextRevision(left, right)])

RevokeAndTell(h) ==
    /\ RevokeDevice(h)
    /\ Then(h, [phase |-> "list", type |-> "revoked",
                about |-> {req[h].target}, to |-> {},
                group |-> req[h].group, revision |-> 0])

\* Mutated: only the devices that stay are told of a discard.
MutantOnlyGroup(h) == {}

AlsoTold(h) == Others(req[h].device, req[h].group)

DiscardAndTell(h) ==
    /\ DiscardOtherGroups(h)
    /\ Then(h, [phase |-> "list", type |-> "revoked",
                about |-> Others(req[h].device, req[h].group),
                to |-> AlsoTold(h),
                group |-> req[h].group, revision |-> 0])

\* The groups are gone, but releasing their blocks fails: the handler answers
\* with the error and publishes nothing.
DiscardUntold(h) == Faults /\ DiscardOtherGroups(h) /\ Quiet

\* The manifest itself plays no part here; the write looks at the status of
\* the device, not at its group.
PutOwnManifest(h) ==
    /\ Serves(h, "manifest")
    /\ Active(req[h].device)
    /\ Finish(h)
    /\ Then(h, [phase |-> "list", type |-> "manifest",
                about |-> {req[h].device}, to |-> {},
                group |-> req[h].group, revision |-> 0])
    /\ UNCHANGED <<dbVars, now>>

\* The snapshot itself is the subject of SessionFiles.  A write that is
\* refused and a deletion that finds nothing announce nothing: Abandon.
ChangeSessionFile(h) ==
    /\ \E kind \in {"write", "erase"} : Serves(h, kind)
    /\ InCapturedGroup(h) /\ GroupExists(req[h].group)
    /\ Finish(h)
    /\ Then(h, [phase |-> "list", type |-> "session",
                about |-> {req[h].device}, to |-> {},
                group |-> req[h].group, revision |-> 0])
    /\ UNCHANGED <<dbVars, now>>

AfterListing(type) == IF type = "manifest" THEN "read" ELSE "publish"

\* The devices of the group the middleware saw, if it still exists.  With a
\* cancelled context the list fails or is cut short: a revocation is published
\* all the same, to those it has, a manifest or a snapshot is not.
ListRecipients(h) ==
    /\ out[h].phase = "list"
    /\ \/ Then(h, [out[h] EXCEPT !.phase = AfterListing(out[h].type),
                                 !.to = @ \cup Members(out[h].group)])
       \/ /\ out[h].type = "revoked"
          /\ \E found \in SUBSET Members(out[h].group) :
               Then(h, [out[h] EXCEPT !.phase = "publish",
                                      !.to = @ \cup found])
       \/ out[h].type \in {"manifest", "session"} /\ Then(h, Silent)
    /\ UNCHANGED vars

\* PutOwnManifest ignores the error when the group is gone, or when the
\* context is cancelled by now.
ReadEventRevision(h) ==
    /\ out[h].phase = "read"
    /\ \E r \in {revision[out[h].group], 0} :
         Then(h, [out[h] EXCEPT !.phase = "publish", !.revision = r])
    /\ UNCHANGED vars

Subscribers(D) == {c \in Conns : subscribed[c] /\ ticket[c].device \in D}

\* Mutated: one event more than the buffer holds.
MutantFullLate(c) == Len(queue[c]) > QueueSize

Full(c) == Len(queue[c]) >= QueueSize

\* Mutated: a subscriber whose buffer is full just misses the event.
MutantNeverDropped(D) == {}

Dropped(D) == {c \in Subscribers(D) : Full(c)}

\* EventHub.Publish, once for each device a discard revoked.
Publish(h) ==
    /\ out[h].phase = "publish"
    /\ \E d \in out[h].about :
         LET e == [type |-> out[h].type, device |-> d,
                   revision |-> out[h].revision]
             rest == out[h].about \ {d}
         IN
         /\ queue' = [c \in Conns |->
                        IF c \in Subscribers(out[h].to) /\ ~Full(c)
                        THEN Append(queue[c], e) ELSE queue[c]]
         /\ subscribed' = [c \in Conns |-> subscribed[c]
                                           /\ c \notin Dropped(out[h].to)]
         /\ out' = [out EXCEPT ![h] = IF rest = {} THEN Silent
                                      ELSE [@ EXCEPT !.about = rest]]
    /\ UNCHANGED <<vars, tickets, cpc, ticket, known, told>>

----------------------------------------------------------------------------
(* Tickets and connections.                                                 *)

\* Expired tickets are dropped whenever one is issued.
CreateEventTicket(h) ==
    /\ Serves(h, "ticket")
    /\ \E t \in Tickets :
         /\ tickets[t] = Null
         /\ tickets' = [x \in Tickets |->
              IF x = t THEN [device |-> req[h].device, group |-> req[h].group,
                             expires |-> now + TicketTTL]
              ELSE IF tickets[x] # Null /\ tickets[x].expires <= now THEN Null
              ELSE tickets[x]]
    /\ Finish(h)
    /\ UNCHANGED <<dbVars, now, out, connVars>>

\* The hub forgets the subscriber and the connection is gone.
Close(c) ==
    /\ cpc' = [cpc EXCEPT ![c] = "closed"]
    /\ ticket' = [ticket EXCEPT ![c] = NoTicket]
    /\ subscribed' = [subscribed EXCEPT ![c] = FALSE]
    /\ queue' = [queue EXCEPT ![c] = <<>>]
    /\ known' = [known EXCEPT ![c] = 0]
    /\ told' = [told EXCEPT ![c] = FALSE]

Goto(c, l) == cpc' = [cpc EXCEPT ![c] = l]

\* A ticket is consumed whether or not it has expired.
ConsumeTicket(c, t) ==
    /\ cpc[c] = "closed" /\ tickets[t] # Null
    /\ tickets' = [tickets EXCEPT ![t] = Null]
    /\ IF tickets[t].expires > now
       THEN Goto(c, "ticketed") /\ ticket' = [ticket EXCEPT ![c] = tickets[t]]
       ELSE UNCHANGED <<cpc, ticket>>
    /\ UNCHANGED <<vars, out, subscribed, queue, known, told>>

\* The device must be active in the group the ticket was issued for.
CheckDevice(c) ==
    /\ cpc[c] = "ticketed"
    /\ IF /\ Active(ticket[c].device)
          /\ group[ticket[c].device] = ticket[c].group
       THEN Goto(c, "accepted")
            /\ UNCHANGED <<ticket, subscribed, queue, known, told>>
       ELSE Close(c)
    /\ UNCHANGED <<vars, out, tickets>>

SubscribeConn(c) ==
    /\ cpc[c] = "accepted"
    /\ IF Cardinality(Subscribers({ticket[c].device})) < MaxSubs
       THEN /\ Goto(c, "subscribed")
            /\ subscribed' = [subscribed EXCEPT ![c] = TRUE]
            /\ UNCHANGED <<ticket, queue, known, told>>
       ELSE Close(c)
    /\ UNCHANGED <<vars, out, tickets>>

\* The revision of the ticket's group is read and sent as "ready"; if the
\* group has been merged away the connection ends.
SendReady(c) ==
    /\ cpc[c] = "subscribed"
    /\ IF GroupExists(ticket[c].group)
       THEN /\ Goto(c, "streaming")
            /\ known' = [known EXCEPT ![c] = revision[ticket[c].group]]
            /\ UNCHANGED <<ticket, subscribed, queue, told>>
       ELSE Close(c)
    /\ UNCHANGED <<vars, out, tickets>>

\* The head of the buffer is written; what is buffered when the hub drops
\* the subscriber is still sent.
SendEvent(c) ==
    /\ cpc[c] = "streaming" /\ queue[c] # <<>>
    /\ LET e == Head(queue[c])
       IN  /\ queue' = [queue EXCEPT ![c] = Tail(@)]
           /\ known' = [known EXCEPT ![c] =
                IF e.type = "merged" /\ e.revision > @ THEN e.revision ELSE @]
           /\ told' = [told EXCEPT ![c] =
                @ \/ (e.type = "revoked" /\ e.device = ticket[c].device)]
    /\ UNCHANGED <<vars, out, tickets, cpc, ticket, subscribed>>

\* The drained channel of a dropped subscriber: "slow consumer".
CloseDropped(c) ==
    /\ cpc[c] = "streaming" /\ queue[c] = <<>> /\ ~subscribed[c]
    /\ Close(c)
    /\ UNCHANGED <<vars, out, tickets>>

\* A write or a ping times out, or the client goes away.
Disconnect(c) ==
    /\ cpc[c] # "closed"
    /\ Close(c)
    /\ UNCHANGED <<vars, out, tickets>>

\* The process dies: the database survives, nothing else does.
Restart ==
    /\ pc' = [h \in Handlers |-> "idle"]
    /\ req' = [h \in Handlers |-> NoRequest]
    /\ out' = [h \in Handlers |-> Silent]
    /\ tickets' = [t \in Tickets |-> Null]
    /\ cpc' = [c \in Conns |-> "closed"]
    /\ ticket' = [c \in Conns |-> NoTicket]
    /\ subscribed' = [c \in Conns |-> FALSE]
    /\ queue' = [c \in Conns |-> <<>>]
    /\ known' = [c \in Conns |-> 0]
    /\ told' = [c \in Conns |-> FALSE]
    /\ UNCHANGED <<dbVars, now>>

----------------------------------------------------------------------------
EventsInit ==
    /\ Init
    /\ out = [h \in Handlers |-> Silent]
    /\ tickets = [t \in Tickets |-> Null]
    /\ cpc = [c \in Conns |-> "closed"]
    /\ ticket = [c \in Conns |-> NoTicket]
    /\ subscribed = [c \in Conns |-> FALSE]
    /\ queue = [c \in Conns |-> <<>>]
    /\ known = [c \in Conns |-> 0]
    /\ told = [c \in Conns |-> FALSE]

TellingStep(h) ==
    \/ ListRecipients(h) \/ ReadEventRevision(h) \/ Publish(h)

RequestStep(h) ==
    \/ out[h].phase = "none" /\ RequireSession(h) /\ Quiet
    \/ Abandon(h) /\ Quiet
    \/ GenerateCode(h) /\ Quiet
    \/ \E c \in codes : AlreadyJoined(h, c) /\ Quiet
    \/ \E c \in codes : MergeAndTell(h, c)
    \/ RevokeAndTell(h) \/ DiscardAndTell(h) \/ DiscardUntold(h)
    \/ PutOwnManifest(h) \/ ChangeSessionFile(h) \/ CreateEventTicket(h)

ConnStep(c) ==
    \/ CheckDevice(c) \/ SubscribeConn(c) \/ SendReady(c)
    \/ SendEvent(c) \/ CloseDropped(c)

EventsNext ==
    \/ \E d \in Devices : CreateDeviceEnrollment(d) /\ Quiet
    \/ \E h \in Handlers : RequestStep(h) \/ TellingStep(h)
    \/ \E c \in Conns, t \in Tickets : ConsumeTicket(c, t)
    \/ \E c \in Conns : ConnStep(c) \/ Disconnect(c)
    \/ Tick /\ Quiet
    \/ Restart

EventsSpec == EventsInit /\ [][EventsNext]_eventsVars

\* A handler that has changed the database goes on to publish, and writing
\* to a client either succeeds or times out.
EventsFairSpec ==
    /\ EventsSpec
    /\ \A h \in Handlers : WF_eventsVars(TellingStep(h))
    /\ \A c \in Conns : WF_eventsVars(ConnStep(c))

----------------------------------------------------------------------------
(* Properties.                                                              *)

\* Every variable has its type.
EventsTypeOK ==
    /\ out \in [Handlers -> Outbox]
    /\ tickets \in [Tickets -> Ticket \cup {Null}]
    /\ cpc \in [Conns -> {"closed", "ticketed", "accepted", "subscribed",
                          "streaming"}]
    /\ ticket \in [Conns -> Ticket]
    /\ subscribed \in [Conns -> BOOLEAN]
    /\ queue \in [Conns -> Seq(Event)]
    /\ \A c \in Conns : Len(queue[c]) <= QueueSize
    /\ known \in [Conns -> Nat]
    /\ told \in [Conns -> BOOLEAN]

Listening(c) == cpc[c] = "streaming" /\ subscribed[c]
Buffered(c) == {queue[c][i] : i \in 1..Len(queue[c])}

\* A connection that got its "ready" and has not been dropped cannot miss a
\* merge of its group, although the revision it was told was read outside
\* any transaction and merges publish after they commit, in any order: the
\* present revision has been sent, is buffered, or is about to be published
\* to it (Events subscribes before it reads the group).
MergeReachesListeners ==
    \A c \in Conns :
      LET d == ticket[c].device
          r == revision[group[d]]
      IN  Listening(c) /\ group[d] # Null =>
            \/ known[c] >= r
            \/ \E e \in Buffered(c) : e.type = "merged" /\ e.revision = r
            \/ \E h \in Handlers : /\ out[h].type = "merged"
                                   /\ d \in out[h].to
                                   /\ out[h].revision = r

\* The same of a discard: a device whose group has been discarded hears of
\* it on every connection that is not dropped ("one device_revoked event is
\* broadcast for each revoked device").
DiscardReachesListeners ==
    \A c \in Conns :
      LET d == ticket[c].device
      IN  Listening(c) /\ group[d] = Null =>
            \/ told[c]
            \/ \E e \in Buffered(c) : e.type = "revoked" /\ e.device = d
            \/ \E h \in Handlers : /\ out[h].type = "revoked"
                                   /\ d \in out[h].to
                                   /\ d \in out[h].about

\* A client with an open connection learns the revision of its group or
\* loses the connection, also when it is dropped for being slow: it never
\* stays connected and out of date.
ListenersCatchUp ==
    \A c \in Conns, r \in 2..Cardinality(Devices) :
      (cpc[c] = "streaming" /\ group[ticket[c].device] # Null
         /\ revision[group[ticket[c].device]] = r)
      ~> (cpc[c] # "streaming" \/ known[c] >= r)

\* A revocation is broadcast to the group of the revoked device, to the
\* device itself in particular (handler RevokeDevice, DiscardOtherGroups).
RevocationIsBroadcast ==
    \A h \in Handlers :
      out[h].phase = "publish" /\ out[h].type = "revoked" =>
        out[h].about \subseteq out[h].to

\* Every manifest_updated event carries the revision of a group.
ManifestEventsCarryRevision ==
    \A c \in Conns : \A e \in Buffered(c) :
        e.type = "manifest" => e.revision > 0

=============================================================================
