SPECIFICATION ServicesSpec
CONSTANTS
  Accounts = {a, b}
  Openids = {o1, o2}
  Requests = {r1, r2}
  None = None
  MaxCodes = 1
  Texts = {"bio"}
  Images = {"avatar", "background"}
  Editors = {e1}
  Uploaders = {u1}
  MaxValues = 2
  Routes = {"getProfile", "updateDisplayName", "updateBio", "updateGender", "sendDeletionCodeForMe",
            "submitDeletionForMe", "sendCancelCode", "cancelDeletion", "refresh", "logoutAll", "list",
            "revoke", "bindWechatForMe", "sendUnbindCodeForMe", "unbindWechatForMe"}
  Users = {u}
  Addresses = {ip}
  Nobody = nobody
INVARIANTS
  ServicesTypeOK
  SpentCodeUnbinds
  BindAnswerWasTrue
  ProfileIsWhatWasSent
  OnlyOwnBucketsRefuse
PROPERTIES
  UploadEnds
CHECK_DEADLOCK FALSE
