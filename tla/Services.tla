------------------------------ MODULE Services ------------------------------
(***************************************************************************)
(* The services beside the identity core, side by side on one desk: paged  *)
(* listings, the VRChat operator session, wallpapers and settings,         *)
(* pictures, outbound calls, upstream providers and what the OpenID        *)
(* provider tells clients.                                                 *)
(***************************************************************************)
EXTENDS Listing, Operator, Settings, Avatars, Outbound, Upstream, Disclosure

vars == <<desk, listingVars, operatorVars, wallpaperVars, settingsVars, avatarVars, upstreamVars, disclosureVars>>

Init ==
    /\ clock = 1 /\ ops \in Mixes
    /\ pc = [p \in Procs |-> "idle"] /\ loc = [p \in Procs |-> None]
    /\ ListingInit /\ OperatorInit /\ WallpapersInit /\ SettingsInit
    /\ AvatarsInit /\ UpstreamInit /\ DisclosureInit

Tick ==
    /\ "time" \in ops /\ clock < MaxClock /\ clock' = clock + 1
    /\ UNCHANGED <<ops, pc, loc, listingVars, operatorVars, wallpaperVars, settingsVars, avatarVars, upstreamVars, disclosureVars>>

\* Services share no state but the desk: a mix names the one it addresses.
Next ==
    \/ "listing" \in ops /\ ListingNext /\ UNCHANGED <<desk, operatorVars, wallpaperVars, settingsVars, avatarVars, upstreamVars, disclosureVars>>
    \/ "operatorSession" \in ops /\ OperatorNext /\ UNCHANGED <<listingVars, wallpaperVars, settingsVars, avatarVars, upstreamVars, disclosureVars>>
    \/ "settings" \in ops /\ WallpapersNext /\ UNCHANGED <<listingVars, operatorVars, settingsVars, avatarVars, upstreamVars, disclosureVars>>
    \/ "settings" \in ops /\ SettingsNext /\ UNCHANGED <<listingVars, operatorVars, avatarVars, upstreamVars, disclosureVars>>
    \/ "pictures" \in ops /\ AvatarsNext /\ UNCHANGED <<listingVars, operatorVars, wallpaperVars, settingsVars, upstreamVars, disclosureVars>>
    \/ "outbound" \in ops /\ OutboundNext /\ UNCHANGED <<listingVars, operatorVars, wallpaperVars, settingsVars, avatarVars, upstreamVars, disclosureVars>>
    \/ "upstream" \in ops /\ UpstreamNext /\ UNCHANGED <<listingVars, operatorVars, wallpaperVars, settingsVars, avatarVars, disclosureVars>>
    \/ "disclosure" \in ops /\ DisclosureNext /\ UNCHANGED <<listingVars, operatorVars, wallpaperVars, settingsVars, avatarVars, upstreamVars>>
    \/ Tick

Spec == Init /\ [][Next]_vars
=============================================================================
