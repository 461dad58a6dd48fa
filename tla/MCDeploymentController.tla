------------------------ MODULE MCDeploymentController ------------------------
EXTENDS DeploymentController
=============================================================================
