--------------------------- MODULE TemplatePallet ---------------------------
(***************************************************************************)
(* pallets/template: a stored block number that do_something sets and       *)
(* cause_error increments.  A call that returns an error leaves storage and *)
(* events as they were.                                                     *)
(***************************************************************************)
EXTENDS Naturals

CONSTANTS
    AccountId,
    NoValue,        \* Option::None
    NotSigned,      \* the root and none origins
    MAX             \* BlockNumber::MAX

ASSUME TemplateAssumption ==
    /\ MAX \in Nat
    /\ NoValue \notin Nat
    /\ NotSigned \notin AccountId

VARIABLES
    Something,      \* StorageValue<CompositeStruct>
    stored,         \* the last SomethingStored event
    increments,     \* calls of cause_error that succeeded since that event
    result          \* what the last call returned

templateVars == <<Something, stored, increments, result>>

BlockNumber == 0 .. MAX

Event == [block_number : BlockNumber, who : AccountId]

NoEvent == [block_number |-> 0, who |-> NotSigned]

TemplateInit ==
    /\ Something = NoValue
    /\ stored = NoEvent
    /\ increments = 0
    /\ result = "Ok"

fails(error) ==
    /\ result' = error
    /\ UNCHANGED <<Something, stored, increments>>

do_something(origin, bn) ==
    \/ origin = NotSigned /\ fails("BadOrigin")
    \/ /\ origin \in AccountId
       /\ Something' = bn
       /\ stored' = [block_number |-> bn, who |-> origin]
       /\ increments' = 0
       /\ result' = "Ok"

\* Faulty variant: the increment wraps around.
add_wrapping ==
    /\ Something' = (Something + 1) % (MAX + 1)
    /\ result' = "Ok"
    /\ increments' = increments + 1
    /\ UNCHANGED stored

\* checked_add, and the put of its result.
add_checked ==
    \/ Something = MAX /\ fails("StorageOverflow")
    \/ /\ Something < MAX
       /\ Something' = Something + 1
       /\ increments' = increments + 1
       /\ result' = "Ok"
       /\ UNCHANGED stored

cause_error(origin) ==
    \/ origin = NotSigned /\ fails("BadOrigin")
    \/ origin \in AccountId /\ Something = NoValue /\ fails("NoneValue")
    \/ origin \in AccountId /\ Something # NoValue /\ add_checked

TemplateNext ==
    \E origin \in AccountId \cup {NotSigned} :
        \/ \E bn \in BlockNumber : do_something(origin, bn)
        \/ cause_error(origin)

TemplateSpec == TemplateInit /\ [][TemplateNext]_templateVars

-----------------------------------------------------------------------------
\* The stored number is the one the last SomethingStored event announced plus one for
\* every call of cause_error that succeeded since: the increment neither wraps at the
\* largest block number nor counts a call that returned an error.
StoredIsAccounted ==
    IF Something = NoValue
    THEN stored = NoEvent /\ increments = 0
    ELSE /\ Something \in BlockNumber /\ increments \in Nat
         /\ stored \in Event
         /\ Something = stored.block_number + increments
=============================================================================
