---------------------------- MODULE BlockIdentity ----------------------------
(***************************************************************************)
(* Which stable identity each block node has (core/resolved_inventory.cpp).*)
(*                                                                         *)
(* An identifier is [prefix, digits, hex]: what it is spelled with, how    *)
(* many hexadecimal digits it has, and which, where "zeros", "ones" and    *)
(* "other" are all 0, all f, and no digits at all.  A 32 digit WWN of      *)
(* which the first digit is 6 has the prefix "naa6".                       *)
(*                                                                         *)
(* A node is [observation, id, state, scope, aliases, fallback, path,      *)
(* issues]; id, fallback and path are sets with at most one member.        *)
(***************************************************************************)
EXTENDS BlockRecords

\* The digits of an identifier, none unless it has that many and says something.
hexIdentifier(identifier, digits) ==
    {identifier.hex : i \in {d \in {identifier.digits} :
        d = digits /\ identifier.hex \notin {"zeros", "ones", "other"}}}

\* A text that a vendor filled in.
trustworthyText(known, f) == f \in DOMAIN known /\ known[f] # "placeholder"

Value(known, f) == IF f \in DOMAIN known THEN {known[f]} ELSE {}

IdentityFields ==
    {"wwn", "nvme_eui", "nvme_nguid", "serial", "model", "capacity_bytes",
     "capacity_sectors_512", "node_type"}

Blocked(raw) ==
    \E issue \in raw.issues : issue.field \in IdentityFields \/ issue.code = "DeviceDisappeared"

IsCandidate(raw) == Is(raw, "disk") /\ raw.virtual # "virtual"

IsNvme(raw) ==
    \/ {"nvme_eui", "nvme_nguid"} \cap DOMAIN raw.known # {}
    \/ Value(raw.known, "transport") = {"nvme"}
    \/ \E wwn \in Value(raw.known, "wwn") : wwn.prefix \in {"eui.", "nvme.", "uuid."}

\* The identities that the typed namespace attributes give.
Typed(raw, f, digits) ==
    UNION {{<<f, hex>> : hex \in hexIdentifier(i, digits)} : i \in Value(raw.known, f)}

NamespaceAliases(raw) == Typed(raw, "nvme_nguid", 32) \cup Typed(raw, "nvme_eui", 16)

\* The world wide identifier of a namespace says no more than that it agrees.
Corroborated(raw) ==
    \A wwn \in Value(raw.known, "wwn") :
        /\ wwn.prefix = "eui."
        /\ ({<<"nvme_eui", hex>> : hex \in hexIdentifier(wwn, 16)}
                \cup {<<"nvme_nguid", hex>> : hex \in hexIdentifier(wwn, 32)})
            \cap NamespaceAliases(raw) # {}

WorldWideNames(raw) ==
    UNION {{<<"wwn", hex>> :
                hex \in hexIdentifier(wwn, 16)
                        \cup IF wwn.prefix = "naa6" THEN hexIdentifier(wwn, 32) ELSE {}} :
              wwn \in {w \in Value(raw.known, "wwn") : w.prefix \in {"", "naa6"}}}

Aliases(raw) == IF IsNvme(raw) THEN NamespaceAliases(raw) ELSE WorldWideNames(raw)

\* Every identifier that was reported must be one.
IllSpelled(raw) ==
    {f \in {"nvme_nguid", "nvme_eui"} \cap DOMAIN raw.known :
        \A alias \in NamespaceAliases(raw) : alias[1] # f}
    \cup {f \in {"wwn"} \cap DOMAIN raw.known :
            IF IsNvme(raw) THEN ~Corroborated(raw) ELSE WorldWideNames(raw) = {}}

\* A serial number counts with the model and the capacity, and not behind a bridge.
SerialNumber(raw) ==
    {<<"serial", raw.known.serial, raw.known.model, raw.known.capacity_bytes>> :
        n \in {m \in {raw.name} :
            /\ ~IsNvme(raw)
            /\ Value(raw.known, "transport") \cap {"ata", "scsi", "sas"} # {}
            /\ trustworthyText(raw.known, "serial") /\ trustworthyText(raw.known, "model")
            /\ \E size \in Value(raw.known, "capacity_bytes") : size > 0}}

\* The typed identifiers come before the serial number, the longer one first.
Selected(aliases, fallback) ==
    LET long == {alias \in aliases : alias[1] = "nvme_nguid"}
    IN  IF long # {} THEN long ELSE IF aliases # {} THEN aliases ELSE fallback

\* Nothing is selected, and no serial number counts, when an identifier is ill spelled or
\* the evidence itself is in doubt.
Identified(raw, aliases, fallback, illSpelled) ==
    LET sound == ~Blocked(raw) /\ illSpelled = {}
        used == IF sound THEN fallback ELSE {}
        id == IF sound THEN Selected(aliases, used) ELSE {}
    IN  [id |-> id, state |-> IF id = {} THEN "Unresolved" ELSE "Resolved",
         scope |-> IF IsNvme(raw) THEN "NvmeNamespace" ELSE "WholeDevice",
         aliases |-> aliases, fallback |-> used,
         issues |-> {Issue("Conflict", "identity") : b \in {c \in {TRUE} : Blocked(raw)}}
            \cup {Issue("MalformedEvidence", f) : f \in illSpelled}
            \cup {Issue("MissingEvidence", "identity") :
                    s \in {t \in {{}} : Selected(aliases, used) = t}}]

identify(raw) ==
    IF IsCandidate(raw)
    THEN Identified(raw, Aliases(raw), SerialNumber(raw), IllSpelled(raw))
    ELSE [id |-> {}, state |-> "Unresolved", scope |-> "WholeDevice", aliases |-> {},
          fallback |-> {}, issues |-> {Issue("UnsupportedTopology", "identity")}]

\* Paths have been checked by the inventory already.
validPath(raw) == Value(raw.known, "current_path")

-----------------------------------------------------------------------------
(* All nodes. *)

\* Mutant: only the identities that were selected are compared.
SelectedOnly(node) ==
    {<<"id", alias>> : alias \in node.id}
        \cup {<<"path", p>> : p \in node.path}
        \cup {<<"dev", n>> : n \in Value(node.observation.known, "device_number")}

\* What a node lays claim to.  An identity is claimed under every name it has.
ClaimsOf(node) ==
    {<<"id", alias>> : alias \in node.id \cup node.aliases}
        \cup {<<"fallback", f>> : f \in node.fallback}
        \cup {<<"path", p>> : p \in node.path}
        \cup {<<"dev", n>> : n \in Value(node.observation.known, "device_number")}

Candidate(raw, identity) ==
    [observation |-> raw, id |-> identity.id, state |-> identity.state,
     scope |-> identity.scope, aliases |-> identity.aliases, fallback |-> identity.fallback,
     path |-> validPath(raw),
     issues |-> identity.issues
        \cup {Issue("MissingEvidence", "current_path") : p \in {q \in {{}} : validPath(raw) = q}}]

\* Nobody keeps what two nodes claim.  Their names differ, by the merge.
Undisputed(nodes) ==
    LET disputed == {n \in DOMAIN nodes :
            \E m \in DOMAIN nodes \ {n} : ClaimsOf(nodes[n]) \cap ClaimsOf(nodes[m]) # {}}
    IN  [n \in DOMAIN nodes |->
            IF n \notin disputed THEN nodes[n]
            ELSE [nodes[n] EXCEPT
                    !.id = {}, !.state = "Ambiguous", !.path = {},
                    !.issues = @ \cup {Issue("AmbiguousIdentity", "identity")}]]

resolveBlockIdentities(devices) ==
    Undisputed([n \in DOMAIN devices |-> Candidate(devices[n], identify(devices[n]))])
=============================================================================
