------------------------------- MODULE Shield -------------------------------
(***************************************************************************)
(* One call of shield, shield_wait, shield_wait_forever or                 *)
(* ShieldContext.shield (modules/shield.py) by a task that others cancel,  *)
(* for a task or a future that others may cancel too. What the caller does *)
(* between two suspensions is one step.                                    *)
(***************************************************************************)
EXTENDS Naturals

CONSTANT MaxShieldCancels  (* bounds how often others cancel the caller      *)

ASSUME ShieldAssumption == MaxShieldCancels \in Nat

VARIABLES
  shieldAt,      (* where the caller is, or how its call ended               *)
  shieldLeft,    (* how many iterations of shield_wait are left              *)
  shieldFlag,    (* `cancelled`                                              *)
  shieldCancels, (* how often the caller was cancelled                       *)
  inner,         (* the awaitable: pending, or how it ended                  *)
  innerTold,     (* it was cancelled by the caller's cancellation            *)
  shieldKind     (* how: the function; count: its shield_count; before: the  *)
                 (* count of the ShieldContext; task: `inner` is a task      *)

shieldVars == <<shieldAt, shieldLeft, shieldFlag, shieldCancels, inner, innerTold, shieldKind>>

ShieldKinds == [how : {"shield", "shield_wait", "shield_wait_forever"},
                count : 0..2, before : 0..1, task : BOOLEAN]

Forever == shieldKind.how = "shield_wait_forever"

(* shield_count - self._initial_cancellation_count; negative is zero. *)
Tries == IF shieldKind.count > shieldKind.before
           THEN shieldKind.count - shieldKind.before ELSE 0

ShieldInit == /\ shieldAt = "calling"
              /\ shieldFlag = FALSE
              /\ shieldCancels = 0
              /\ inner = "pending"
              /\ innerTold = FALSE
              /\ shieldKind \in ShieldKinds
              /\ shieldKind.how # "shield_wait" => shieldKind.count = 1 /\ shieldKind.before = 0
              /\ shieldLeft = Tries

-----------------------------------------------------------------------------
(* The awaitable. A task that is told to stop may do as it likes.          *)
InnerEnds == /\ inner = "pending"
             /\ inner' \in {"value", "error", "cancelled"}
             /\ UNCHANGED <<shieldAt, shieldLeft, shieldFlag, shieldCancels, innerTold,
                            shieldKind>>

(* inner_callback, unless `outer` was cancelled. *)
Transfer == /\ shieldAt = "shielded"
            /\ inner # "pending"
            /\ shieldAt' = "woken"
            /\ UNCHANGED <<shieldLeft, shieldFlag, shieldCancels, inner, innerTold,
                           shieldKind>>

-----------------------------------------------------------------------------
(* Mutation of Conclude: shield_wait forgets that it was cancelled. *)
Conclude_Forgets(flag) == inner

(* How the call ends once `inner` did. *)
Conclude(flag) == IF flag /\ inner = "value" THEN "cancelled" ELSE inner

(* The next iteration, or the await after the last. One over an `inner`    *)
(* that was cancelled raises without suspending, and so does the await,    *)
(* which shield_wait_forever never comes to.                               *)
TryShield(left, flag) ==
  shieldAt' = IF inner = "pending" THEN IF left > 0 THEN "shielded" ELSE "bare"
              ELSE IF inner = "cancelled" /\ Forever THEN "spinning"
              ELSE Conclude(flag)

CallShield == /\ shieldAt = "calling"
              /\ TryShield(shieldLeft, FALSE)
              /\ UNCHANGED <<shieldLeft, shieldFlag, shieldCancels, inner, innerTold,
                             shieldKind>>

(* The caller gets a CancelledError, its own or, once `outer` is done, the *)
(* one of `inner`.                                                         *)
Interrupt ==
  /\ \/ shieldAt = "interrupted"
     \/ shieldAt = "woken" /\ inner = "cancelled"
  /\ \/ /\ shieldKind.how = "shield"
        /\ shieldAt' = "cancelled"
        /\ UNCHANGED <<shieldLeft, shieldFlag>>
     \/ /\ shieldKind.how # "shield"
        /\ shieldLeft' = IF Forever THEN shieldLeft ELSE shieldLeft - 1
        /\ shieldFlag' = TRUE
        /\ TryShield(shieldLeft', TRUE)
  /\ UNCHANGED <<shieldCancels, inner, innerTold, shieldKind>>

ResumeShield == /\ \/ shieldAt = "woken" /\ inner # "cancelled"
                   \/ shieldAt = "bare" /\ inner # "pending"
                /\ shieldAt' = Conclude(shieldFlag)
                /\ UNCHANGED <<shieldLeft, shieldFlag, shieldCancels, inner, innerTold,
                               shieldKind>>

(* The await after the last iteration raises what the caller was told. *)
InterruptBare == /\ shieldAt = "told"
                 /\ shieldAt' = "cancelled"
                 /\ UNCHANGED <<shieldLeft, shieldFlag, shieldCancels, inner, innerTold,
                                shieldKind>>

(* Somebody cancels the caller: `outer`, or `inner` when the caller awaits *)
(* that; if it is done, the caller has been woken, and is told there.      *)
CancelShield ==
  /\ shieldCancels < MaxShieldCancels
  /\ shieldCancels' = shieldCancels + 1
  /\ \/ /\ shieldAt \in {"shielded", "woken", "interrupted"}
        /\ shieldAt' = "interrupted"
        /\ UNCHANGED <<inner, innerTold>>
     \/ /\ shieldAt = "bare"
        /\ inner = "pending"
        /\ innerTold' = TRUE
        /\ inner' = IF shieldKind.task THEN inner ELSE "cancelled"
        /\ UNCHANGED shieldAt
     \/ /\ shieldAt \in {"bare", "told"}
        /\ inner # "pending"
        /\ shieldAt' = "told"
        /\ UNCHANGED <<inner, innerTold>>
  /\ UNCHANGED <<shieldLeft, shieldFlag, shieldKind>>

ShieldSteps == Transfer \/ CallShield \/ Interrupt \/ ResumeShield \/ InterruptBare

ShieldNext == ShieldSteps \/ InnerEnds \/ CancelShield

-----------------------------------------------------------------------------
ShieldOver == shieldAt \in {"value", "error", "cancelled"}

(* The caller's cancellations reach the awaitable only once there are more *)
(* than are to be absorbed, and never that of shield or                    *)
(* shield_wait_forever; but shield, nothing returns before it is done. A   *)
(* cancellation is not lost to a value, unless the awaitable met it, nor a *)
(* failure to a cancellation that was absorbed. Whether                    *)
(* shield_wait_forever, which ignores cancellations, is to raise one at    *)
(* the end, as it does, is left open.                                      *)
ShieldReports ==
  /\ innerTold => shieldCancels > Tries /\ shieldKind.how = "shield_wait"
  /\ ShieldOver /\ shieldKind.how # "shield" => inner # "pending"
  /\ shieldAt = "value" => inner = "value" /\ (shieldCancels > 0 => Forever \/ innerTold)
  /\ shieldAt = "error" => inner = "error"
  /\ shieldAt = "cancelled" => shieldCancels > 0 \/ inner = "cancelled"
  /\ ShieldOver /\ inner = "error" /\ shieldKind.how # "shield" /\ shieldCancels <= Tries =>
       shieldAt = "error"

(* A call is over once what it awaits is; that of shield, whose caller was *)
(* cancelled, at once. An awaitable that was cancelled is an exception for *)
(* shield_wait_forever.                                                    *)
ShieldEnds ==
  (\/ inner # "pending" /\ ~(Forever /\ inner = "cancelled")
   \/ shieldKind.how = "shield" /\ shieldCancels > 0) ~> ShieldOver

(* shield_wait_forever, as its documentation says, returns the result of   *)
(* the awaitable, once there is one.                                       *)
ForeverEnds == (Forever /\ inner # "pending") ~> ShieldOver
=============================================================================
