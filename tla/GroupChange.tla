----------------------------- MODULE GroupChange -----------------------------
(***************************************************************************)
(* A staged change on its way from the assistant's call to WhatsApp and    *)
(* back: the parameters its row holds (mcp/group-tools.ts, WRITE_TOOLS),   *)
(* the request they make (actions/execute.ts), what the worker lets pass   *)
(* of it and how it reads WhatsApp's answer (groupadmin.go). Each of them  *)
(* checks for itself. A text is its length once trimmed, an address one of *)
(* the spellings of an account. Pure operators.                            *)
(***************************************************************************)
EXTENDS Naturals, Sequences

CONSTANTS
  Most,       (* per tool with a text: the longest it stages               *)
  MembersMax, (* GROUP_TOOL_LIMITS.membersMax                              *)
  Ahead,      (* GROUP_TOOL_LIMITS.sendAheadMs, in hours                   *)
  NameLength  (* maxGroupNameLength, WhatsApp's own                        *)

Refused == [tool |-> "refused"]

(* What a call carries: the fields of the tool it is for. `due` holds the  *)
(* time of a message that is not for now.                                  *)
Call(tool) == [tool |-> tool, text |-> 0, image |-> FALSE, members |-> <<>>, due |-> {}]

(* The schemas the calls are parsed with. A message is due within a month, *)
(* or at once.                                                             *)
Fits(call) ==
  /\ call.tool \in DOMAIN Most => call.text \in 1 .. Most[call.tool]
  /\ call.tool = "message_revoke" => call.text > 0
  /\ call.tool = "group_members" => Len(call.members) \in 1 .. MembersMax
  /\ call.tool = "group_send" => call.due \subseteq 1 .. Ahead

(* WRITE_TOOLS: the parameters of the row.                                 *)
Stage(call) == IF Fits(call) THEN call ELSE Refused

(* sendRequestFor and workerRequestFor: the row is read once more before   *)
(* anything is asked of anybody. What a leave is for stays on the row.     *)
RequestFor(params) ==
  LET texts == {"group_rename", "group_set_photo", "message_revoke", "group_send"}
      empty == \/ params.tool \in texts /\ params.text = 0
               \/ params.tool = "group_members" /\ params.members = <<>>
  IN CASE params = Refused            -> Refused
       [] params.tool = "group_leave" -> Call("group_leave")
       [] OTHER                       -> IF empty THEN Refused ELSE params

(* validate, of the worker. A message is the dispatcher's.                 *)
Valid(request) ==
  /\ request # Refused
  /\ request.tool = "group_rename" => request.text <= NameLength
  /\ request.tool = "group_set_photo" => request.image
  /\ \A i \in DOMAIN request.members : request.members[i].user

(* membershipOutcomes: per address asked about, the first result that is   *)
(* about its account.                                                      *)
Outcome(address, results) ==
  LET about == {i \in DOMAIN results : results[i].account = address.account}
      first(i) == i \in about /\ \A j \in about : i <= j
  IN IF about = {} THEN "unreported"
     ELSE IF \E i \in about : first(i) /\ results[i].ok THEN "ok" ELSE "failed"

MembershipOutcomes(members, results) ==
  [i \in DOMAIN members |-> Outcome(members[i], results)]

(* The answer's ok, whatever the bridge's own said.                        *)
Confirmed(request, results) ==
  \A i \in DOMAIN request.members : MembershipOutcomes(request.members, results)[i] = "ok"

-----------------------------------------------------------------------------
(* What was staged is what is asked for: no check after the owner's        *)
(* approval refuses or alters what the tool let pass, save the reason of a *)
(* leave and what only the worker knows of WhatsApp.                       *)
StagedIsRequested(call) ==
  LET request == RequestFor(Stage(call)) IN
  Stage(call) # Refused =>
    /\ request # Refused
    /\ request = IF call.tool = "group_leave" THEN [call EXCEPT !.text = 0] ELSE call

(* A change of members is confirmed only if WhatsApp made it for every one *)
(* that was asked for and refused none of them, in whatever order and      *)
(* spelling it answers. `made` are the accounts it was made for.           *)
ConfirmedIsComplete(call, made, results) ==
  LET request == RequestFor(Stage(call))
      asked   == {request.members[i].account : i \in DOMAIN request.members}
  IN (/\ Valid(request)
      /\ \A i \in DOMAIN results : results[i].ok <=> results[i].account \in made
      /\ Confirmed(request, results)) => asked \subseteq made
=============================================================================
