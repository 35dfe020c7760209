------------------------------ MODULE SwitchCfg ------------------------------
(***************************************************************************)
(* The on/off switch configuration of endpoint 1: which command the device *)
(* sends when smoke settles.  The attribute lives in RAM; the application  *)
(* hook that follows a ZCL write saves it to the NV item, and the start of *)
(* the application restores it from there.                                 *)
(***************************************************************************)
EXTENDS Naturals

CONSTANT SwitchActions  \* values written to ZCL_ATTRID_SWITCH_ACTION

VARIABLES
  switchAction,  \* g_zcl_onOffSwitchCfgAttrs.switchActions
  savedAction    \* what a start restores: the NV item, or else the default

switchVars == <<switchAction, savedAction>>

(* The initial value of the attribute, and all its values. *)
DefaultAction == "ON_OFF"
Action == SwitchActions \union {DefaultAction}

SwitchTypeOK == switchAction \in Action /\ savedAction \in Action

(* zcl_onOffCfgAttr_restore, for whatever an earlier run has saved. *)
SwitchInit ==
  /\ savedAction \in Action
  /\ switchAction = savedAction

-----------------------------------------------------------------------------
(* The foundation commands that write an attribute.  The hook of the       *)
(* application only knows the first of them.                               *)
WriteCommand == {"WRITE", "WRITE_UNDIVIDED", "WRITE_NO_RSP"}

(* zcl_onOffCfgAttr_save writes the item when it does not exist or differs *)
(* from the attribute, which leaves the attribute in it in all cases.      *)
StoreAction(a, command) ==
  /\ switchAction' = a
  /\ savedAction' = IF command = "WRITE" THEN a ELSE savedAction

(* zcl_onOffCfgAttr_restore over the initialised RAM. *)
RestoreAction ==
  /\ switchAction' = savedAction
  /\ UNCHANGED savedAction
=============================================================================
