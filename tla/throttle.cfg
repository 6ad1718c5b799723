SPECIFICATION Spec
CONSTANTS
  Routes = {"getProfile", "updateDisplayName", "updateBio", "updateGender", "issueUploadCredential",
            "confirmProfileImage", "sendDeletionCodeForMe", "submitDeletionForMe", "sendCancelCode",
            "cancelDeletion", "refresh", "logoutAll", "list", "revoke", "bindWechatForMe",
            "sendUnbindCodeForMe", "unbindWechatForMe", "request"}
  Users = {u1}
  Addresses = {ip}
  Nobody = nobody
INVARIANT OnlyOwnBucketsRefuse
CHECK_DEADLOCK FALSE
