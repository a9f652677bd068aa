---------------------------- MODULE DesktopProofs ----------------------------
(***************************************************************************)
(* The components around the restore side by side, as the instances of     *)
(* MCDesktop have them: one steps, the others stay, for any values of the  *)
(* constants.                                                              *)
(***************************************************************************)
EXTENDS MCDesktop, LoginUpdateProofs, SessionProofs, AppearanceProofs, SnapshotProofs

\* A step of the desktop is a step of each component, or none of it.
LEMMA OneSteps ==
  [Next]_allvars =>
    /\ [LoginUpdateNext]_lvars /\ [GreeterNext]_gvars /\ [SelectionNext]_svars
    /\ [MosaicNext]_mvars /\ [StartNext]_tvars /\ [AppearanceNext]_avars
    /\ [SyncNext]_yvars /\ [BackupNext]_pvars /\ [OverviewNext]_ovars
BY DEF Next, Component, allvars, uvars

\* It begins as each of them does.
LEMMA AllStart ==
  Init =>
    /\ LoginUpdateInit /\ GreeterInit /\ SelectionInit /\ MosaicInit /\ StartInit
    /\ AppearanceInit /\ SyncInit /\ BackupInit /\ OverviewInit
BY DEF Init

\* DesktopTypeOK: beside the others, each component keeps the types it has by
\* itself (LoginUpdate, Greeter, SessionSelection, MosaicSession, SessionStart,
\* Appearance, AppearanceSync, PhotoBackup and OverviewCapture).
THEOREM DesktopTypesHold == Spec => []DesktopTypeOK
<1>1. Spec => []LoginUpdateTypeOK
  BY OneSteps, AllStart, UpdateTypesHold, PTL DEF Spec, LoginUpdateSpec
<1>2. Spec => []SelectionTypeOK
  BY OneSteps, AllStart, SelectionTypesHold, PTL DEF Spec, SelectionSpec
<1>3. Spec => []MosaicTypeOK
  BY OneSteps, AllStart, MosaicTypesHold, PTL DEF Spec, MosaicSpec
<1>4. Spec => []AppearanceTypeOK
  BY OneSteps, AllStart, AppearanceTypesHold, PTL DEF Spec, AppearanceSpec
<1>5. Spec => []SyncTypeOK
  BY OneSteps, AllStart, SyncTypesHold, PTL DEF Spec, SyncSpec
<1>6. Spec => []BackupTypeOK
  BY OneSteps, AllStart, BackupTypesHold, PTL DEF Spec, BackupSpec
<1>7. Spec => []OverviewTypeOK
  BY OneSteps, AllStart, OverviewTypesHold, PTL DEF Spec, OverviewSpec
<1>8. GreeterInv => GreeterTypeOK
  BY GreeterInvTypes
<1>9. Spec => []GreeterTypeOK
  BY OneSteps, AllStart, GreeterStarts, GreeterStep, <1>8, PTL DEF Spec
<1>10. OnceInv => StartTypeOK
  BY DEF OnceInv
<1>11. Spec => []StartTypeOK
  BY OneSteps, AllStart, OnceStarts, OnceStep, <1>10, PTL DEF Spec
<1>12. LoginUpdateTypeOK /\ GreeterTypeOK /\ SelectionTypeOK /\ MosaicTypeOK /\ StartTypeOK
       /\ AppearanceTypeOK /\ SyncTypeOK /\ BackupTypeOK /\ OverviewTypeOK => DesktopTypeOK
  BY DEF DesktopTypeOK
<1> QED
  BY <1>1, <1>2, <1>3, <1>4, <1>5, <1>6, <1>7, <1>9, <1>11, <1>12, PTL
=============================================================================
