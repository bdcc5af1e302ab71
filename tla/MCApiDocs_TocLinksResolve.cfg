CONSTANTS
  ExportMenu <- MCExportMenu
  FolderPaths = {"p"}
  FileNames = {"f"}
  MaxFiles = 2
  MaxExports = 2
  MetadataCases <- MCMetadataCases
SPECIFICATION Spec
INVARIANT TocLinksResolve
CHECK_DEADLOCK FALSE
