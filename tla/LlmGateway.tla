----------------------------- MODULE LlmGateway -----------------------------
(***************************************************************************)
(* LLMGateway and the endpoints around it.  Each request builds a gateway  *)
(* of its own from the saved settings, probes the endpoint, and makes one  *)
(* call, or one per chunk and one to merge them; whatever fails, local     *)
(* extraction answers instead.  What all requests share is the process:    *)
(* socket.getaddrinfo, patched while a call is under way so that the       *)
(* endpoint's name leads to the address it was validated with, the lock    *)
(* around that patch, and the settings, saved key by key.                  *)
(*                                                                         *)
(* DNS is the environment's: its answer may change at any time.            *)
(***************************************************************************)
EXTENDS Integers, FiniteSets

CONSTANTS
    Callers,        \* requests that use the gateway
    MaxCalls,       \* bound: chunks and merge of one request
    MaxSaves        \* bound: settings saved

Nobody == "nobody"

ASSUME LlmAssumption ==
    IsFiniteSet(Callers) /\ Nobody \notin Callers /\ MaxCalls \in Nat \ {0} /\ MaxSaves \in Nat

\* Hosts of endpoints: a name, a name in allowed_hosts, and an address.
Hosts == {"named", "allowed", "literal"}
Names == {"named", "allowed"}
Nowhere == "none"
HostAddresses == {"private", "public"}

VARIABLES
    dns,        \* what names resolve to now; "none" when resolution fails
    saved,      \* the rows llm.endpoint and llm.allow_public
    saver,      \* PUT /v1/llm/settings under way: the new values and the step
    saves,
    caller,     \* requests: where they are, their gateway and their locals
    patchLock,  \* _socket_patch_lock: its holder
    pins,       \* _pinned_map
    patched,    \* _socket_patch_active
    probe       \* llm_probe_result

llmVars == <<dns, saved, saver, saves, caller, patchLock, pins, patched, probe>>

Out == [pc |-> "idle", test |-> FALSE, host |-> "literal", public |-> FALSE, pin |-> Nowhere,
        target |-> Nowhere, left |-> 0, addr |-> Nowhere]
NoSave == [step |-> "idle", host |-> "literal", public |-> FALSE]
NoProbe == [host |-> "literal", public |-> FALSE, available |-> "unknown"]

LlmTypes ==
    /\ dns \in HostAddresses \cup {Nowhere}
    /\ saved \in [host : Hosts, public : BOOLEAN]
    /\ saver \in [step : {"idle", "endpoint", "public", "reset"}, host : Hosts, public : BOOLEAN]
    /\ caller \in [Callers ->
          [pc : {"idle", "flags", "post", "waiting", "sending", "sent"}, test : BOOLEAN,
           host : Hosts, public : BOOLEAN, pin : HostAddresses \cup {Nowhere},
           target : HostAddresses \cup {Nowhere}, left : 0..(MaxCalls + 1),
           addr : HostAddresses \cup {Nowhere}]]
    /\ patchLock \in Callers \cup {Nobody}
    /\ pins \in [Names -> HostAddresses \cup {Nowhere}]
    /\ patched \in BOOLEAN
    /\ probe \in [host : Hosts, public : BOOLEAN, available : {"unknown", "yes", "no"}]

LlmInit ==
    /\ dns = "private"
    /\ saved = [host |-> "allowed", public |-> FALSE]
    /\ saver = NoSave /\ saves = 0
    /\ caller = [c \in Callers |-> Out]
    /\ patchLock = Nobody
    /\ pins = [n \in Names |-> Nowhere]
    /\ patched = FALSE
    /\ probe = NoProbe

shared == <<patchLock, pins, patched>>
config == <<saved, saver, saves>>

-----------------------------------------------------------------------------
(* PUT /v1/llm/settings: a transaction per key, then the probe is reset.   *)

SaveBegins(h, p) ==
    /\ saver.step = "idle" /\ saves < MaxSaves
    /\ saves' = saves + 1
    /\ saver' = [step |-> "endpoint", host |-> h, public |-> p]
    /\ UNCHANGED <<dns, saved, caller, shared, probe>>

SaveEndpoint ==
    /\ saver.step = "endpoint"
    /\ saved' = [saved EXCEPT !.host = saver.host]
    /\ saver' = [saver EXCEPT !.step = "public"]
    /\ UNCHANGED <<dns, saves, caller, shared, probe>>

SavePublic ==
    /\ saver.step = "public"
    /\ saved' = [saved EXCEPT !.public = saver.public]
    /\ saver' = [saver EXCEPT !.step = "reset"]
    /\ UNCHANGED <<dns, saves, caller, shared, probe>>

SaveResets ==
    /\ saver.step = "reset"
    /\ probe' = NoProbe
    /\ saver' = NoSave
    /\ UNCHANGED <<dns, saved, saves, caller, shared>>

-----------------------------------------------------------------------------
(* A request: _effective_llm_cfg reads the keys, one transaction each, and *)
(* the gateway is built.                                                   *)

\* The request is over; a test leaves its result, whose fingerprint is the
\* configuration it was built with.
Ends(c, available) ==
    /\ caller' = [caller EXCEPT ![c] = Out]
    /\ probe' = IF caller[c].test
                THEN [host |-> caller[c].host, public |-> caller[c].public,
                      available |-> available]
                ELSE probe

Begins(c, test) ==
    /\ caller[c] = Out
    /\ caller' = [caller EXCEPT ![c] = [Out EXCEPT !.pc = "flags", !.test = test,
                                                   !.host = saved.host]]
    /\ UNCHANGED <<dns, config, shared, probe>>

\* _validate_endpoint.  An address in place of a name is a private one here.
Valid(h, public) == public \/ h # "named" \/ dns = "private"

\* The address kept for pinning: what a strict gateway's name resolved to.
PinOf(h, public) == IF public \/ h = "literal" THEN Nowhere ELSE dns

\* How many calls: the probe, and one, or the chunks and the merge.
Calls(test) == IF test THEN {1} ELSE 2..(MaxCalls + 1)

BuildGateway(c, n) ==
    /\ caller[c].pc = "flags"
    /\ n \in Calls(caller[c].test)
    /\ LET built == [caller[c] EXCEPT !.public = saved.public] IN
       IF Valid(built.host, saved.public)
       THEN /\ caller' = [caller EXCEPT ![c] =
                  [built EXCEPT !.pc = "post", !.pin = PinOf(built.host, saved.public),
                                !.left = n]]
            /\ UNCHANGED probe
       ELSE /\ caller' = [caller EXCEPT ![c] = Out]
            /\ probe' = IF built.test THEN [host |-> built.host, public |-> built.public,
                                            available |-> "no"]
                                      ELSE probe
    /\ UNCHANGED <<dns, config, shared>>

-----------------------------------------------------------------------------
(* _post_with_dns_guard.                                                   *)

\* _assert_no_dns_rebind
Rebound(c) ==
    /\ ~caller[c].public /\ caller[c].pin # Nowhere
    /\ dns \notin {Nowhere, caller[c].pin}

\* _resolve_pinned_ip: the address kept, or the current one where the user has
\* allowed public endpoints.
Target(c) ==
    IF caller[c].host = "literal" THEN Nowhere
    ELSE IF caller[c].public THEN dns ELSE caller[c].pin

Posts(c) ==
    /\ caller[c].pc = "post"
    /\ IF Rebound(c) THEN Ends(c, "no")
       ELSE /\ caller' = [caller EXCEPT ![c].target = Target(c),
                              ![c].pc = IF Target(c) = Nowhere THEN "sending" ELSE "waiting"]
            /\ UNCHANGED probe
    /\ UNCHANGED <<dns, config, shared>>

\* Mutant: the patch is installed without the lock.
EntersUnlocked(c) ==
    /\ caller[c].pc = "waiting"
    /\ pins' = [pins EXCEPT ![caller[c].host] = caller[c].target]
    /\ patched' = TRUE
    /\ caller' = [caller EXCEPT ![c].pc = "sending"]
    /\ UNCHANGED <<dns, config, patchLock, probe>>
\* The lock is taken and the pin installed: _install_socket_patch.
Enters(c) ==
    /\ caller[c].pc = "waiting" /\ patchLock = Nobody
    /\ patchLock' = c
    /\ pins' = [pins EXCEPT ![caller[c].host] = caller[c].target]
    /\ patched' = TRUE
    /\ caller' = [caller EXCEPT ![c].pc = "sending"]
    /\ UNCHANGED <<dns, config, probe>>

\* The client connects: the name goes through getaddrinfo, patched or not.
Resolved(h) ==
    IF h = "literal" THEN "private"
    ELSE IF patched /\ pins[h] # Nowhere THEN pins[h] ELSE dns

Connects(c) ==
    /\ caller[c].pc = "sending"
    /\ caller' = [caller EXCEPT ![c].pc = "sent", ![c].addr = Resolved(caller[c].host)]
    /\ UNCHANGED <<dns, config, shared, probe>>

\* _remove_socket_pin and the release of the lock, on every way out.
Leaves(c) ==
    IF caller[c].target = Nowhere THEN UNCHANGED shared
    ELSE /\ pins' = [pins EXCEPT ![caller[c].host] = Nowhere]
         /\ patched' = (patched /\ \E n \in Names \ {caller[c].host} : pins[n] # Nowhere)
         /\ patchLock' = IF patchLock = c THEN Nobody ELSE patchLock

\* 200: the next call, or the text is complete.
Answered(c) ==
    /\ caller[c].pc = "sent" /\ caller[c].addr # Nowhere
    /\ Leaves(c)
    /\ IF caller[c].left > 1
       THEN /\ caller' = [caller EXCEPT ![c].pc = "post", ![c].left = @ - 1,
                                        ![c].target = Nowhere, ![c].addr = Nowhere]
            /\ UNCHANGED probe
       ELSE Ends(c, "yes")
    /\ UNCHANGED <<dns, config>>

\* A time-out, a redirect, an error of any kind: extraction takes over.
Fails(c) ==
    /\ caller[c].pc \in {"sending", "sent"}
    /\ Leaves(c)
    /\ Ends(c, "no")
    /\ UNCHANGED <<dns, config>>

\* The client of the request is gone.
Cancelled(c) ==
    /\ caller[c].pc \in {"waiting", "sending", "sent"}
    /\ IF caller[c].pc = "waiting" THEN UNCHANGED shared ELSE Leaves(c)
    /\ caller' = [caller EXCEPT ![c] = Out]
    /\ UNCHANGED <<dns, config, probe>>

DnsChanges(a) ==
    /\ dns' = a
    /\ UNCHANGED <<config, caller, shared, probe>>

LlmNext ==
    \/ \E h \in Hosts, p \in BOOLEAN : SaveBegins(h, p)
    \/ SaveEndpoint \/ SavePublic \/ SaveResets
    \/ \E c \in Callers :
         \/ \E test \in BOOLEAN : Begins(c, test)
         \/ \E n \in 1..(MaxCalls + 1) : BuildGateway(c, n)
         \/ Posts(c) \/ Enters(c) \/ Connects(c)
         \/ Answered(c) \/ Fails(c) \/ Cancelled(c)
    \/ \E a \in HostAddresses \cup {Nowhere} : DnsChanges(a)

LlmSpec == LlmInit /\ [][LlmNext]_llmVars

-----------------------------------------------------------------------------

\* The patch of the process is in place exactly while a pinned call is under
\* way, with that call's pin and no other, and its lock is never left behind,
\* on whatever path and in whatever order requests end or are cancelled.
PatchFollowsCall ==
    /\ patched <=> patchLock # Nobody
    /\ patchLock # Nobody => caller[patchLock].pc \in {"sending", "sent"}
    /\ \A n \in Names : pins[n] # Nowhere =>
          patchLock # Nobody /\ caller[patchLock].host = n /\ caller[patchLock].target = pins[n]
    /\ \A c \in Callers : caller[c].pc \in {"sending", "sent"} /\ caller[c].target # Nowhere =>
          pins[caller[c].host] = caller[c].target

\* A gateway that was built without allow_public connects to the private
\* address its endpoint had then, though DNS may answer otherwise since, and
\* though other requests patch and restore the resolver around it.
StrictStaysPrivate ==
    \A c \in Callers :
        caller[c].pc = "sent" /\ ~caller[c].public /\ caller[c].host = "named" =>
            caller[c].addr = "private"

\* A strict call reaches the address it was pinned to, and nobody else's call
\* is pinned.
PinnedCalls == PatchFollowsCall /\ StrictStaysPrivate
=============================================================================
