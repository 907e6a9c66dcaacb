-------------------------------- MODULE ErpStack --------------------------------
(***************************************************************************)
(* ERPNext on the phone and the MCP server that writes to it: `up' and     *)
(* `down' of stack/deploy.sh, the containers of stack/erpnext.yml, and the *)
(* tools of mcp/erpnext/server.py.  What Docker, bench and Frappe do is    *)
(* modelled from how these files use them; how the daemon comes up and is  *)
(* stopped is the matter of module Daemon.                                 *)
(*                                                                         *)
(* A document is what a call of a tool writes; the database is the set of  *)
(* the calls it holds.                                                     *)
(***************************************************************************)
EXTENDS Integers

CONSTANTS
  Calls,   \* of the tools of server.py
  Tools,   \* that are called
  MaxStops \* bound on what brings the stack down

Reads  == {"erp_list_doctypes", "erp_list", "erp_get", "erp_method", "erp_report"}
Writes == {"erp_create", "erp_update", "erp_delete", "erp_method(write)"}
Keys   == {"db_host", "redis_cache", "redis_queue"}

ASSUME ToolsAssumption == Tools # {} /\ Tools \subseteq Reads \union Writes
ASSUME BoundsAssumption == MaxStops \in Nat

VARIABLES
  dockerd,             \* whether it runs
  project,             \* whether compose has made the containers
  configurator, creator, backend, \* three of them
  settings,            \* keys of common_site_config.json \ these four are in
  site, database,      \* the site's directory, its database   / the volumes
  held,                \* the calls whose change the database holds
  allow,               \* ERPNEXT_ALLOW_WRITE of the server that runs
  tool, state,         \* of a call
  wire, replies,       \* requests and replies under way
  applied,             \* how often the site has made a call's change
  stops

containers == <<project, configurator, creator, backend>>
volumes    == <<settings, site, database, held>>
client     == <<allow, tool, state>>
net        == <<wire, replies>>
vars       == <<dockerd, containers, volumes, client, net, applied, stops>>

States == {"none", "refused", "sent", "ok", "empty", "raised"}

\* Answers of the site, with its JSON, and of the tunnel or nginx in its place.
Done       == [status |-> 200, body |-> "json"]
Bad        == [status |-> 400, body |-> "json"]
NoUpstream == [status |-> 502, body |-> "text"]
Moved      == [status : {302}, body : {"empty", "text"}]
Answers    == {Done, Bad, NoUpstream} \union Moved

TypeOK ==
  /\ dockerd \in BOOLEAN /\ project \in BOOLEAN /\ backend \in BOOLEAN
  /\ ~dockerd => ~backend /\ configurator # "running" /\ creator \notin {"waiting", "creating"}
  /\ configurator \in {"none", "running", "done"}
  /\ creator \in {"none", "waiting", "creating", "ended"}
  /\ settings \subseteq Keys /\ site \in BOOLEAN /\ database \in {"none", "half", "whole"}
  /\ held \subseteq Calls
  /\ allow \in BOOLEAN /\ tool \in [Calls -> Tools] /\ state \in [Calls -> States]
  /\ wire \subseteq Calls /\ replies \subseteq Calls \X Answers
  /\ applied \in [Calls -> Nat] /\ stops \in 0..MaxStops

Init ==
  /\ dockerd = FALSE /\ project = FALSE /\ configurator = "none" /\ creator = "none" /\ backend = FALSE
  /\ settings = {} /\ site = FALSE /\ database = "none" /\ held = {}
  /\ allow \in BOOLEAN /\ tool \in [Calls -> Tools] /\ state = [c \in Calls |-> "none"]
  /\ wire = {} /\ replies = {} /\ applied = [c \in Calls |-> 0] /\ stops = 0

-----------------------------------------------------------------------------
(* The daemon.                                                             *)

\* It starts the containers again that failed when it was killed.
DaemonStart ==
  /\ ~dockerd
  /\ dockerd' = TRUE
  /\ backend' \in {FALSE, configurator = "done"}
  /\ UNCHANGED <<project, configurator, creator, volumes, client, net, applied, stops>>

\* Mutant: what runs in create-site goes on without the daemon.
GoesOn(phase) == phase

Ended(phase) == IF phase = "none" THEN "none" ELSE "ended"

\* What is in the containers ends where it is; the volumes stay.
Stopped ==
  /\ stops < MaxStops
  /\ stops' = stops + 1
  /\ dockerd' = FALSE
  /\ backend' = FALSE /\ creator' = Ended(creator)
  /\ configurator' = IF configurator = "running" THEN "none" ELSE configurator
  /\ UNCHANGED <<project, volumes, client, applied>>

\* daemon_stop, or dockerd is killed with its containers.
DaemonStop ==
  /\ dockerd
  /\ Stopped
  /\ UNCHANGED net

\* What is under way does not survive.
Reboot ==
  /\ wire' = {} /\ replies' = {}
  /\ Stopped

-----------------------------------------------------------------------------
(* deploy.sh and erpnext.yml.                                              *)

\* compose starts what does not run, configurator and create-site each time again.
Up ==
  /\ dockerd
  /\ project' = TRUE
  /\ configurator' = "running"
  /\ creator' = IF creator \in {"waiting", "creating"} THEN creator ELSE "waiting"
  /\ UNCHANGED <<dockerd, backend, volumes, client, net, applied, stops>>

\* What `down' leaves in the volumes.
Remaining == held
Down ==
  /\ dockerd /\ project
  /\ stops < MaxStops /\ stops' = stops + 1
  /\ project' = FALSE
  /\ configurator' = "none" /\ creator' = "none" /\ backend' = FALSE
  /\ held' = Remaining
  /\ UNCHANGED <<dockerd, settings, site, database, client, net, applied>>

\* Its commands are joined by `;': one that fails is skipped.
SetConfig ==
  /\ configurator = "running"
  /\ \E k \in Keys : settings' = settings \union {k}
  /\ UNCHANGED <<dockerd, containers, site, database, held, client, net, applied, stops>>

\* ... and backend, which waits for its success, follows.
Configured ==
  /\ configurator = "running"
  /\ configurator' = "done"
  /\ backend' = TRUE
  /\ UNCHANGED <<dockerd, project, creator, volumes, client, net, applied, stops>>

\* create-site: 120 seconds, then exit 1.
GiveUp ==
  /\ creator = "waiting" /\ settings # Keys
  /\ creator' = "ended"
  /\ UNCHANGED <<dockerd, project, configurator, backend, volumes, client, net, applied, stops>>

\* Mutant: new-site --force, which makes the database anew.
Anew == [go |-> TRUE, held |-> {}]

\* sites/frontend is never there; bench refuses a site whose directory is.
new_site == [go |-> ~site, held |-> held]
NewSite ==
  /\ creator = "waiting" /\ settings = Keys
  /\ IF new_site.go
     THEN /\ creator' = "creating" /\ site' = TRUE /\ database' = "half"
          /\ held' = new_site.held
     ELSE creator' = "ended" /\ UNCHANGED <<site, database, held>>
  /\ UNCHANGED <<dockerd, project, configurator, backend, settings, client, net, applied, stops>>

\* It fails, if the database is not up or an app cannot be installed.
NewSiteEnds ==
  /\ creator = "creating"
  /\ creator' = "ended"
  /\ database' \in {"half", "whole"}
  /\ UNCHANGED <<dockerd, project, configurator, backend, settings, site, held, client, net,
                 applied, stops>>

-----------------------------------------------------------------------------
(* server.py.                                                              *)

Write(c) == tool[c] \in Writes

\* A method that is called by GET may change something all the same.
MayChange(c) == Write(c) \/ tool[c] = "erp_method"

\* A tool is called; need_write.
Call(c) ==
  /\ state[c] = "none"
  /\ state' = [state EXCEPT ![c] = IF Write(c) /\ ~allow THEN "refused" ELSE "sent"]
  /\ wire' = IF Write(c) /\ ~allow THEN wire ELSE wire \union {c}
  /\ UNCHANGED <<dockerd, containers, volumes, allow, tool, replies, applied, stops>>

\* The site answers, or an error is the answer and nothing has changed.
Serve(c) ==
  /\ c \in wire /\ backend /\ database = "whole"
  /\ wire' = wire \ {c}
  /\ \/ /\ replies' = replies \union {<<c, Done>>}
        /\ \/ /\ MayChange(c)
              /\ held' = held \union {c} /\ applied' = [applied EXCEPT ![c] = @ + 1]
           \/ ~Write(c) /\ UNCHANGED <<held, applied>>
     \/ replies' = replies \union {<<c, Bad>>} /\ UNCHANGED <<held, applied>>
  /\ UNCHANGED <<dockerd, containers, settings, site, database, client, stops>>

\* The tunnel or nginx has nobody to ask, or the answer has got lost behind it.
BadGateway(c) ==
  /\ \/ c \in wire /\ ~(backend /\ database = "whole")
     \/ <<c, Done>> \in replies
  /\ wire' = wire \ {c}
  /\ replies' = {r \in replies : r[1] # c} \union {<<c, NoUpstream>>}
  /\ UNCHANGED <<dockerd, containers, volumes, client, applied, stops>>

\* ... or sends the client elsewhere, before the site has seen the request.
Redirect(c) ==
  /\ c \in wire
  /\ wire' = wire \ {c}
  /\ \E m \in Moved : replies' = replies \union {<<c, m>>}
  /\ UNCHANGED <<dockerd, containers, volumes, client, applied, stops>>

\* Mutant: a bad request is not an error.
Above(status) == status > 400

\* httpx follows no redirect, and nothing below 400 is an error; r.json() is one for
\* what is not JSON, and is not called for what is empty.
raises(status) == status >= 400
Taken(a) == CASE raises(a.status) \/ a.body = "text" -> "raised"
              [] a.body = "empty" -> "empty"
              [] OTHER -> "ok"
Answer(c) ==
  /\ state[c] = "sent"
  /\ \E a \in Answers :
       /\ <<c, a>> \in replies
       /\ state' = [state EXCEPT ![c] = Taken(a)]
       /\ replies' = replies \ {<<c, a>>}
  /\ UNCHANGED <<dockerd, containers, volumes, allow, tool, wire, applied, stops>>

\* ERPNEXT_TIMEOUT.  The request may still be on its way.
Timeout(c) ==
  /\ state[c] = "sent"
  /\ state' = [state EXCEPT ![c] = "raised"]
  /\ UNCHANGED <<dockerd, containers, volumes, allow, tool, net, applied, stops>>

\* The client launches another server, with other permissions.
Restart ==
  /\ \E a \in BOOLEAN : allow' = a
  /\ state' = [c \in Calls |-> IF state[c] = "sent" THEN "raised" ELSE state[c]]
  /\ UNCHANGED <<dockerd, containers, volumes, tool, net, applied, stops>>

Next ==
  \/ DaemonStart \/ DaemonStop \/ Reboot
  \/ Up \/ Down \/ SetConfig \/ Configured \/ GiveUp \/ NewSite \/ NewSiteEnds
  \/ \E c \in Calls : Call(c) \/ Serve(c) \/ BadGateway(c) \/ Redirect(c) \/ Answer(c)
                     \/ Timeout(c)
  \/ Restart

Spec == Init /\ [][Next]_vars

-----------------------------------------------------------------------------
(* Properties.                                                             *)

\* What a tool has answered for with the site's own document is in the database and
\* stays there: over down and up, reboots, and a create-site that runs again with
\* every up although its guard looks for another site's directory.
DocumentsSurvive ==
  /\ \A c \in Calls : state[c] = "ok" /\ Write(c) => c \in held
  /\ held # {} => database = "whole"

\* A write that the caller has a document of was made; one that need_write has
\* refused was not and never will be, whatever server runs by then; and none is
\* made twice, however late requests arrive and answers get lost.
AnswerIsTrue ==
  \A c \in Calls :
    /\ state[c] = "ok" /\ Write(c) => applied[c] = 1
    /\ state[c] = "refused" => applied[c] = 0 /\ c \notin wire
    /\ applied[c] <= 1
===============================================================================
